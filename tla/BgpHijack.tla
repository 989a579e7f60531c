----------------------------- MODULE BgpHijack ------------------------------
(***************************************************************************)
(* ai_pcap_analyst/bgp_hijack.py: the UPDATEs of a capture are checked, one *)
(* prefix after the other, against the RPKI service of RIPE NCC, whose      *)
(* answers are cached for CacheTtl.  Time passes and ROAs change while the  *)
(* analysis runs and while a request is under way, and the service may fail *)
(* to answer, or answer something validate_rpki cannot read.                *)
(*                                                                         *)
(* An update is the first UPDATE of its packet: packet[BGPUpdate] is the    *)
(* only one analyze_bgp_update looks at.                                    *)
(***************************************************************************)
EXTENDS Integers, Sequences, FiniteSets

Seqs == INSTANCE SequencesExt

CONSTANTS
  Prefixes,   \* announced prefixes, as "address/length"
  Specific,   \* those of length 24 and more
  Asns,       \* autonomous systems
  Registries, \* what the service may answer for the keys at first
  Updates,    \* the UPDATEs a capture may hold
  Changing,   \* the keys for which the answer may change
  CacheTtl,   \* CACHE_TTL
  MaxClock,   \* bound: the time the analysis takes
  MaxUpdates, \* bound: the UPDATEs in the capture
  MaxChanges  \* bound: ROAs published or withdrawn meanwhile

NoPrefix == "no prefix" \* an NLRI entry without the attribute

\* nlri: the announced prefixes; path: the segments of AS_PATH; wide: AS numbers
\* take four bytes in it; from: the AS that originated the announcement.
UpdateType ==
  [nlri : Seq(Prefixes \cup {NoPrefix}),
   path : Seq([type : {"AS_SET", "AS_SEQUENCE"}, asns : Seq(Asns)]), wide : BOOLEAN, from : Asns]

Keys == Prefixes \X Asns  \* cache_key
\* What the service answers; "other" is any status the code has no branch for.
Registered == {"valid", "invalid", "not-found", "other"}
Statuses == Registered \cup {"error"}

ASSUME ConstantsAssumption ==
  /\ Specific \subseteq Prefixes /\ NoPrefix \notin Prefixes
  /\ Asns \subseteq Nat \ {0}
  /\ Registries \subseteq [Keys -> Registered]
  /\ Updates \subseteq UpdateType /\ Changing \subseteq Keys
  /\ CacheTtl \in Nat \ {0} /\ {MaxClock, MaxUpdates, MaxChanges} \subseteq Nat

VARIABLES
  clock,     \* time.time()
  registry,  \* what the service answers for a key
  since,     \* history: when that changed last
  changes,
  cache,     \* RPKI_CACHE: for each key [status, ts], "absent" if there is no entry
  asked,     \* history: when the service was asked for a key last, and answered
             \* readably or not at all
  sent,      \* history: when the request under way was sent
  answer,    \* what the service has decided to answer, or "none"
  slowest,   \* history: the longest that the answer to a request has taken
  pc,        \* "next", "prefixes", "asking" or "done"
  update,    \* the UPDATE being analysed, or the last one
  began,     \* history: when its analysis began
  number,    \* how many UPDATEs have been taken
  index,     \* the entry of its NLRI the loop is at
  cidr, rpki,       \* the variables of these names: the last prefix, the last verdict
  reasons,   \* what was found, as <<reason, prefix>>
  unknown,   \* history: keys of this UPDATE without a readable answer
  findings   \* the result of analyze_pcap

world == <<clock, registry, since, changes>>
service == <<cache, asked, sent, answer, slowest>>
call  == <<update, began, number>>
vars  == <<world, service, pc, call, index, cidr, rpki, reasons, unknown, findings>>

Finding ==
  [announced_prefix : Prefixes \cup {NoPrefix}, origin_asn : Asns, rpki_status : Statuses,
   reasons : Seq({"invalid", "not-found", "specific"} \X Prefixes),
   attck_tags : SUBSET {"hijack", "signal"}, risk_score : 0..100, update : 1..MaxUpdates]

NoUpdate == [nlri |-> <<>>, path |-> <<>>, wide |-> TRUE, from |-> 0]

TypeOK ==
  /\ clock \in 0..MaxClock
  /\ registry \in [Keys -> Registered] /\ since \in [Keys -> Int] /\ changes \in 0..MaxChanges
  /\ asked \in [Keys -> Int] /\ {sent, slowest} \subseteq 0..MaxClock
  /\ answer \in Registered \cup {"none"}
  /\ cache \in [Keys -> [status : Statuses \cup {"absent"}, ts : 0..MaxClock]]
  /\ pc \in {"next", "prefixes", "asking", "done"}
  /\ update \in Updates \cup {NoUpdate} /\ began \in 0..MaxClock /\ number \in 0..MaxUpdates
  /\ index \in 1..Len(update.nlri) + 1
  /\ cidr \in Prefixes \cup {NoPrefix} /\ rpki \in Statuses \cup {"unset"}
  /\ reasons \in Seq({"invalid", "not-found", "specific"} \X Prefixes)
  /\ unknown \subseteq Keys
  /\ findings \in Seq(Finding)

Init ==
  /\ clock = 0
  /\ registry \in Registries /\ changes = 0
  /\ since = [k \in Keys |-> -CacheTtl - MaxClock]
  /\ cache = [k \in Keys |-> [status |-> "absent", ts |-> 0]]
  /\ asked = [k \in Keys |-> -CacheTtl] /\ sent = 0 /\ answer = "none" /\ slowest = 0
  /\ pc = "next" /\ update = NoUpdate /\ began = 0 /\ number = 0 /\ index = 1
  /\ cidr = NoPrefix /\ rpki = "unset" /\ reasons = <<>> /\ unknown = {}
  /\ findings = <<>>

-----------------------------------------------------------------------------
(* analyze_bgp_update                                                      *)

\* The bytes of a path with AS numbers of two bytes, two by two: each segment has
\* its type (2 for a sequence) and its length, then its AS numbers.
Words(path) ==
  Seqs!FlattenSeq([i \in DOMAIN path |->
    <<(IF path[i].type = "AS_SEQUENCE" THEN 512 ELSE 256) + Len(path[i].asns)>> \o path[i].asns])

\* What the loop finds in them, which takes each AS number for four bytes: the
\* last one of the last sequence it believes to see, or 0.
Misread(path) ==
  LET words == Words(path)
      Read(acc, i) ==
        LET count == words[i] % 256
            end == i + 2 * count
        IN  IF i # acc.at THEN acc
            ELSE [at |-> end + 1,
                  origin |-> IF words[i] \div 256 = 2 /\ count > 0 /\ end <= Len(words)
                             THEN words[end - 1] * 65536 + words[end] ELSE acc.origin]
  IN  Seqs!FoldLeft(Read, [at |-> 1, origin |-> 0], [i \in DOMAIN words |-> i]).origin

\* The sequences of a path that name an AS.
Sequences(path) ==
  {i \in DOMAIN path : path[i].type = "AS_SEQUENCE" /\ path[i].asns # <<>>}

LastOf(S) == CHOOSE i \in S : \A j \in S : j <= i

\* Mutant: the neighbour is taken for the origin.
OriginFirst(u) ==
  IF ~u.wide \/ Sequences(u.path) = {} THEN 0 ELSE u.path[LastOf(Sequences(u.path))].asns[1]

\* The origin: the rightmost AS of the last AS_SEQUENCE.  A single segment of
\* AS numbers of two bytes is too short for what it is taken for, and no origin
\* is found; several such segments are misread.
Origin(u) ==
  IF ~u.wide THEN IF Len(u.path) <= 1 THEN 0 ELSE Misread(u.path)
  ELSE IF Sequences(u.path) = {} THEN 0
  ELSE LET last == u.path[LastOf(Sequences(u.path))].asns IN last[Len(last)]

\* An AS number that is misread is one the service may be asked about, too.
ASSUME OriginAssumption == \A u \in Updates : Origin(u) \in Asns \cup {0}

\* analyze_pcap takes the next packet with an UPDATE.
NextUpdate ==
  /\ pc = "next" /\ number < MaxUpdates
  /\ update' \in Updates
  /\ number' = number + 1 /\ began' = clock
  /\ pc' = "prefixes" /\ index' = 1
  /\ reasons' = <<>> /\ unknown' = {}
  /\ cidr' = NoPrefix /\ rpki' = "unset"
  /\ UNCHANGED <<world, service, findings>>

\* What a verdict adds to the reasons.
Judge(prefix, status) ==
  (CASE status = "invalid" -> <<<<"invalid", prefix>>>>
     [] status = "not-found" -> <<<<"not-found", prefix>>>>
     [] OTHER -> <<>>)
  \o (IF prefix \in Specific /\ status # "valid" THEN <<<<"specific", prefix>>>> ELSE <<>>)

Prefix == update.nlri[index]
Key == <<Prefix, Origin(update)>>

\* An entry without a prefix, or any entry of an UPDATE without an origin.
SkipPrefix ==
  /\ pc = "prefixes" /\ index <= Len(update.nlri)
  /\ Prefix = NoPrefix \/ Origin(update) = 0
  /\ cidr' = Prefix
  /\ index' = index + 1
  /\ UNCHANGED <<world, service, pc, call, rpki, reasons, unknown, findings>>

Looked ==
  /\ pc = "prefixes" /\ index <= Len(update.nlri)
  /\ Prefix # NoPrefix /\ Origin(update) # 0

Take(status) ==
  /\ cidr' = Prefix /\ rpki' = status
  /\ reasons' = reasons \o Judge(Prefix, status)
  /\ index' = index + 1
  /\ unknown' = IF status = "error" THEN unknown \cup {Key} ELSE unknown

\* Mutant: an entry is good for one tick too long.
FreshTooLong(k) == cache[k].status # "absent" /\ clock - cache[k].ts <= CacheTtl

\* validate_rpki: a cached answer younger than CacheTtl, an error too, is used ...
Fresh(k) == cache[k].status # "absent" /\ clock - cache[k].ts < CacheTtl

UseCached ==
  /\ Looked /\ Fresh(Key)
  /\ Take(cache[Key].status)
  /\ UNCHANGED <<world, service, pc, call, findings>>

\* Mutant: an error is not cached.
StoredAnswersOnly(status) ==
  IF status = "error" THEN cache ELSE [cache EXCEPT ![Key] = [status |-> status, ts |-> clock]]

Stored(status) == [cache EXCEPT ![Key] = [status |-> status, ts |-> clock]]

\* ... or else the service is asked: requests.get() blocks meanwhile.
AskService ==
  /\ Looked /\ ~Fresh(Key)
  /\ pc' = "asking" /\ sent' = clock
  /\ UNCHANGED <<world, cache, asked, answer, slowest, call, index, cidr, rpki, reasons, unknown,
                 findings>>

\* The service makes its answer, which is on its way from now on.
ServiceDecides ==
  /\ pc = "asking" /\ answer = "none"
  /\ answer' = registry[Key]
  /\ UNCHANGED <<world, cache, asked, sent, slowest, pc, call, index, cidr, rpki, reasons, unknown,
                 findings>>

\* The answer is stamped when it has come.  A RequestException, be the answer made
\* or not, becomes an "error" ...
StoreAnswer ==
  /\ pc = "asking"
  /\ \E status \in {answer, "error"} \ {"none"} :
       /\ Take(status)
       /\ cache' = Stored(status)
  /\ asked' = [asked EXCEPT ![Key] = sent]
  /\ slowest' = IF clock - sent > slowest THEN clock - sent ELSE slowest
  /\ sent' = 0 /\ answer' = "none"
  /\ pc' = "prefixes"
  /\ UNCHANGED <<world, call, findings>>

\* ... any other exception ends the analysis of this UPDATE without a finding,
\* whatever its earlier prefixes gave, and is not cached.
AnswerUnreadable ==
  /\ pc = "asking"
  /\ cidr' = Prefix
  /\ unknown' = unknown \cup {<<p, Origin(update)>> : p \in Prefixes}
  /\ sent' = 0 /\ answer' = "none"
  /\ pc' = "next"
  /\ UNCHANGED <<world, cache, asked, slowest, call, index, rpki, reasons, findings>>

\* How many of the reasons are of a kind.
Number(kind, rs) == Cardinality({i \in DOMAIN rs : rs[i][1] = kind})

Points(rs) ==
  90 * Number("invalid", rs) + 40 * Number("not-found", rs) + 20 * Number("specific", rs)

\* Mutant: the score is not cut at 100.
ScoreUncapped(rs) == Points(rs)

\* risk_score: 90, 40 and 20 points, at most 100.
Score(rs) == IF Points(rs) > 100 THEN 100 ELSE Points(rs)

TagsOf(rs) ==
  {t \in {"hijack", "signal"} : \E i \in DOMAIN rs :
     rs[i][1] = (IF t = "hijack" THEN "invalid" ELSE "not-found")}

\* All prefixes are judged.  The finding names the last prefix of the NLRI and
\* the last verdict, whichever the reasons are about.
Conclude ==
  /\ pc = "prefixes" /\ index > Len(update.nlri)
  /\ pc' = "next"
  /\ findings' =
       IF reasons # <<>>
         THEN Append(findings,
                [announced_prefix |-> cidr, origin_asn |-> Origin(update), rpki_status |-> rpki,
                 reasons |-> reasons, attck_tags |-> TagsOf(reasons),
                 risk_score |-> Score(reasons), update |-> number])
         ELSE findings
  /\ UNCHANGED <<world, service, call, index, cidr, rpki, reasons, unknown>>

\* The capture has no more packets.
EndOfCapture ==
  /\ pc = "next"
  /\ pc' = "done"
  /\ UNCHANGED <<world, service, call, index, cidr, rpki, reasons, unknown, findings>>

-----------------------------------------------------------------------------
(* The world                                                               *)

Tick ==
  /\ clock < MaxClock /\ pc # "done"
  /\ clock' = clock + 1
  /\ UNCHANGED <<registry, since, changes, service, pc, call, index, cidr, rpki, reasons, unknown,
                 findings>>

\* A ROA is published, changed or withdrawn.
ChangeRoa(k) ==
  /\ changes < MaxChanges /\ pc # "done"
  /\ changes' = changes + 1
  /\ \E status \in Registered \ {registry[k]} : registry' = [registry EXCEPT ![k] = status]
  /\ since' = [since EXCEPT ![k] = clock]
  /\ UNCHANGED <<clock, service, pc, call, index, cidr, rpki, reasons, unknown, findings>>

Next ==
  \/ NextUpdate \/ SkipPrefix \/ UseCached
  \/ AskService \/ ServiceDecides \/ StoreAnswer \/ AnswerUnreadable
  \/ Conclude \/ EndOfCapture \/ Tick
  \/ \E k \in Changing : ChangeRoa(k)

Spec == Init /\ [][Next]_vars

-----------------------------------------------------------------------------
(* Properties                                                              *)

\* What the UPDATE just analysed really announced.
Announced == {<<update.nlri[i], update.from>> : i \in DOMAIN update.nlri} \cap Keys

\* The path names the AS that originated the announcement: it is the last of the
\* last sequence, what follows are the sets of aggregated routes.
Attributed(u) ==
  \E i \in DOMAIN u.path :
    /\ u.path[i].type = "AS_SEQUENCE" /\ u.path[i].asns # <<>>
    /\ u.path[i].asns[Len(u.path[i].asns)] = u.from
    /\ \A j \in i + 1..Len(u.path) : u.path[j].type = "AS_SET"

\* The service has had no other answer for k while the analysis of the UPDATE
\* ran, nor as long before as an answer may live: CacheTtl from when it came, and
\* the time it took to come, which timeout=10 does not bound (it limits each wait
\* for the socket, of which a request has several).
Settled(k) == since[k] + CacheTtl + slowest <= began

Analysed == pc = "next" /\ number > 0

ReportsLatest == {i \in DOMAIN findings : findings[i].update = number}

\* A finding about the UPDATE names the prefix of k and is critical.
FoundHijack(k) ==
  \E i \in ReportsLatest :
    /\ "hijack" \in findings[i].attck_tags
    /\ <<"invalid", k[1]>> \in {findings[i].reasons[j] : j \in DOMAIN findings[i].reasons}
    /\ findings[i].risk_score >= 90

\* A hijack the service has known of for as long as an answer lives is reported
\* and scored as critical, whatever the other prefixes of the UPDATE give, unless
\* the service could not be asked, or the path does not name the origin or has
\* AS numbers of two bytes.
HijackReported ==
  Analysed /\ update.wide /\ Attributed(update) =>
    \A k \in Announced :
      registry[k] = "invalid" /\ Settled(k) /\ k \notin unknown => FoundHijack(k)

\* Legitimate announcements are not reported (tests/generate_tests_pcap.py, the
\* baseline): prefixes that have been valid for as long as an answer lives, unless
\* the service could not be asked, or the path has several segments of AS
\* numbers of two bytes, which are misread.
BaselineNotFlagged ==
  /\ Analysed /\ Attributed(update) /\ (update.wide \/ Len(update.path) <= 1)
  /\ \A k \in Announced : registry[k] = "valid" /\ Settled(k) /\ k \notin unknown
  => ReportsLatest = {}

\* The service is asked at most once per key in CacheTtl, the purpose of the
\* cache, also when it cannot be reached.  (An unreadable answer is not cached.)
ServiceSpared ==
  [][AskService => asked[Key] + CacheTtl <= clock]_vars

=============================================================================
