-------------------------- MODULE BgpHijackProofs ---------------------------
(***************************************************************************)
(* What the detector of BGP hijacks promises, for any prefixes, registry,   *)
(* UPDATEs and bounds: BgpHijack is type correct, keeps the service from    *)
(* being asked twice within CacheTtl, reports every hijack the service      *)
(* knows of and does not report what is registered.                         *)
(*                                                                         *)
(* The argument rests on two facts about the middle of an analysis: what is *)
(* cached, or on its way, and was asked for after the last change is what   *)
(* the registry says (CacheTrue, AnswerTrue), and the reasons found so far  *)
(* do justice to the prefixes looked at so far (Judged).                    *)
(***************************************************************************)
EXTENDS BgpHijack, FiniteSetTheorems, TLAPS

Kinds == {"invalid", "not-found", "specific"}

\* The loop over the NLRI has not ended.
Working == pc \in {"prefixes", "asking"}

\* The entry at hand has a prefix and the UPDATE an origin.
LookedAt ==
  /\ Working /\ index <= Len(update.nlri)
  /\ Prefix # NoPrefix /\ Origin(update) # 0

\* The analysis of an UPDATE is under way only when one has been taken, only a
\* verdict gives a reason and only where there is an origin, the service is asked
\* about the entry at hand, and findings are about UPDATEs taken.
Progress ==
  /\ Working => number > 0
  /\ number > 0 => update \in Updates
  /\ reasons # <<>> => rpki # "unset" /\ Origin(update) # 0
  /\ pc = "asking" => LookedAt
  /\ \A i \in DOMAIN findings :
       findings[i].update <= number /\ (Working => findings[i].update < number)

\* What is cached came at most slowest after the service was asked, and is still
\* what the registry says if that has not changed since.
CacheTrue ==
  /\ began <= clock
  /\ \A k \in Keys :
       /\ cache[k].ts <= clock /\ since[k] <= clock
       /\ IF cache[k].status = "absent" THEN asked[k] = -CacheTtl
          ELSE asked[k] <= cache[k].ts /\ cache[k].ts - slowest <= asked[k]
       /\ cache[k].status \in Registered /\ since[k] < asked[k]
            => cache[k].status = registry[k]

\* So is an answer on its way.
AnswerTrue ==
  /\ sent <= clock
  /\ pc = "asking" => began <= sent
  /\ answer # "none" => pc = "asking" /\ (since[Key] < sent => answer = registry[Key])

\* The keys of the UPDATE that have been looked at.
Seen == {<<update.nlri[j], Origin(update)>> : j \in 1..index - 1} \cap Keys

Calm(k, status) == registry[k] = status /\ Settled(k) /\ k \notin unknown

\* The reasons do justice to the keys seen.
Judged ==
  Working =>
    /\ \A k \in Seen : Calm(k, "invalid") =>
         <<"invalid", k[1]>> \in {reasons[j] : j \in DOMAIN reasons}
    /\ (\A k \in Seen : Calm(k, "valid")) => reasons = <<>>

-----------------------------------------------------------------------------
(* Lemmas about the operators                                              *)

\* Every element of a sequence over S is in S.
LEMMA ElementTyped ==
  ASSUME NEW S, NEW s \in Seq(S), NEW i \in 1..Len(s)
  PROVE  s[i] \in S
OBVIOUS

\* What the assumptions say of an UPDATE.
LEMMA UpdateTyped ==
  ASSUME NEW u \in Updates
  PROVE  /\ u.nlri \in Seq(Prefixes \cup {NoPrefix})
         /\ u.path \in Seq([type : {"AS_SET", "AS_SEQUENCE"}, asns : Seq(Asns)])
         /\ u.from \in Asns /\ u.wide \in BOOLEAN
BY ConstantsAssumption DEF ConstantsAssumption, UpdateType

\* The origin is an AS, or 0 when none is found.
LEMMA OriginTyped ==
  ASSUME NEW u \in Updates
  PROVE  Origin(u) \in Asns \cup {0}
BY OriginAssumption

\* Where the path names it, the origin found is the AS the announcement is from.
LEMMA OriginFound ==
  ASSUME NEW u \in Updates, u.wide, Attributed(u)
  PROVE  Origin(u) = u.from
<1> DEFINE full == Sequences(u.path)
           last == LastOf(full)
<1>1. PICK i \in DOMAIN u.path :
        /\ u.path[i].type = "AS_SEQUENCE" /\ u.path[i].asns # <<>>
        /\ u.path[i].asns[Len(u.path[i].asns)] = u.from
        /\ \A j \in i + 1..Len(u.path) : u.path[j].type = "AS_SET"
  BY DEF Attributed
<1>2. DOMAIN u.path = 1..Len(u.path) /\ Len(u.path) \in Nat
  BY UpdateTyped
<1>3. i \in full /\ \A j \in full : j <= i
  BY <1>1, <1>2 DEF Sequences
<1>4. full \subseteq DOMAIN u.path
  BY DEF Sequences
<1> HIDE DEF full
<1>5. last \in full /\ \A j \in full : j <= last
  BY <1>3 DEF LastOf
<1>6. last = i
  BY <1>2, <1>3, <1>4, <1>5
<1> QED
  BY <1>1, <1>3, <1>6 DEF Origin, full

\* A verdict gives reasons about its prefix.
LEMMA JudgeTyped ==
  ASSUME NEW prefix \in Prefixes, NEW status \in Statuses
  PROVE  /\ Judge(prefix, status) \in Seq(Kinds \X Prefixes)
         /\ status = "invalid" => Len(Judge(prefix, status)) >= 1
                                  /\ Judge(prefix, status)[1] = <<"invalid", prefix>>
         /\ status = "valid" => Judge(prefix, status) = <<>>
<1>1. /\ <<<<"invalid", prefix>>>> \in Seq(Kinds \X Prefixes)
      /\ <<<<"not-found", prefix>>>> \in Seq(Kinds \X Prefixes)
      /\ <<<<"specific", prefix>>>> \in Seq(Kinds \X Prefixes)
      /\ <<>> \in Seq(Kinds \X Prefixes)
  BY DEF Kinds
<1> DEFINE first == CASE status = "invalid" -> <<<<"invalid", prefix>>>>
                      [] status = "not-found" -> <<<<"not-found", prefix>>>>
                      [] OTHER -> <<>>
           second == IF prefix \in Specific /\ status # "valid" THEN <<<<"specific", prefix>>>>
                     ELSE <<>>
<1>2. first \in Seq(Kinds \X Prefixes) /\ second \in Seq(Kinds \X Prefixes)
  BY <1>1
<1>3. /\ status = "invalid" => Len(first) = 1 /\ first[1] = <<"invalid", prefix>>
      /\ status = "valid" => first = <<>> /\ second = <<>>
  OBVIOUS
<1>4. Judge(prefix, status) = first \o second
  BY DEF Judge
<1> HIDE DEF first, second
<1> QED
  BY <1>2, <1>3, <1>4

\* Reasons are counted by natural numbers.
LEMMA NumberTyped ==
  ASSUME NEW rs \in Seq(Kinds \X Prefixes), NEW kind
  PROVE  /\ Number(kind, rs) \in Nat
         /\ (\E j \in DOMAIN rs : rs[j][1] = kind) => Number(kind, rs) >= 1
<1> DEFINE S == {i \in DOMAIN rs : rs[i][1] = kind}
<1>1. IsFiniteSet(DOMAIN rs)
  BY FS_Interval
<1>2. IsFiniteSet(S)
  BY <1>1, FS_Subset
<1>3. Cardinality(S) \in Nat
  BY <1>2, FS_CardinalityType
<1>4. S # {} => Cardinality(S) # 0
  BY <1>2, FS_EmptySet
<1> QED
  BY <1>3, <1>4 DEF Number

\* The score stays within its bounds, and an invalid prefix is critical.
LEMMA ScoreTyped ==
  ASSUME NEW rs \in Seq(Kinds \X Prefixes)
  PROVE  /\ Score(rs) \in 0..100
         /\ (\E j \in DOMAIN rs : rs[j][1] = "invalid") => Score(rs) >= 90
<1>1. /\ Number("invalid", rs) \in Nat /\ Number("not-found", rs) \in Nat
      /\ Number("specific", rs) \in Nat
  BY NumberTyped
<1>2. (\E j \in DOMAIN rs : rs[j][1] = "invalid") => Number("invalid", rs) >= 1
  BY NumberTyped
<1> DEFINE a == Number("invalid", rs)
           b == Number("not-found", rs)
           c == Number("specific", rs)
           p == Points(rs)
<1>0. Score(rs) = IF p > 100 THEN 100 ELSE p
  BY DEF Score
<1>3. p = 90 * a + 40 * b + 20 * c
  BY DEF Points
<1>4. a \in Nat /\ b \in Nat /\ c \in Nat
  BY <1>1
<1> HIDE DEF a, b, c, p
<1>5. p \in Nat /\ (a >= 1 => p >= 90)
  BY ONLY <1>3, <1>4
<1>6. Score(rs) \in 0..100 /\ (a >= 1 => Score(rs) >= 90)
  BY ONLY <1>0, <1>4, <1>5
<1>7. ASSUME NEW j \in DOMAIN rs, rs[j][1] = "invalid" PROVE Score(rs) >= 90
  <2>1. a >= 1
    BY <1>2, <1>7 DEF a
  <2> QED
    BY <1>6, <2>1
<1> QED
  BY <1>6, <1>7

-----------------------------------------------------------------------------
(* Type correctness                                                        *)

TypeInv == TypeOK /\ Progress

\* What the bounds are.
LEMMA Bounds ==
  /\ CacheTtl \in Nat /\ CacheTtl > 0
  /\ MaxClock \in Nat /\ MaxUpdates \in Nat /\ MaxChanges \in Nat
BY ConstantsAssumption DEF ConstantsAssumption

\* The entry of the NLRI at hand.
LEMMA PrefixTyped ==
  ASSUME TypeInv, Working, index <= Len(update.nlri)
  PROVE  /\ update \in Updates
         /\ Prefix \in Prefixes \cup {NoPrefix}
         /\ index \in 1..Len(update.nlri) /\ Len(update.nlri) \in Nat
<1>1. update \in Updates
  BY DEF TypeInv, Progress
<1>2. update.nlri \in Seq(Prefixes \cup {NoPrefix})
  BY <1>1, UpdateTyped
<1>3. Len(update.nlri) \in Nat
  BY <1>2
<1>4. index \in 1..Len(update.nlri)
  BY <1>3 DEF TypeInv, TypeOK
<1> QED
  BY <1>1, <1>2, <1>3, <1>4, ElementTyped DEF Prefix

\* The entry at hand, while the service is asked about it too.
LEMMA AtHand ==
  ASSUME TypeInv, Looked \/ pc = "asking"
  PROVE  LookedAt
BY DEF TypeInv, Progress, Looked, LookedAt, Working

\* A key the service or the cache is asked for.
LEMMA KeyTyped ==
  ASSUME TypeInv, LookedAt
  PROVE  Prefix \in Prefixes /\ Origin(update) \in Asns /\ Key \in Keys
<1>1. Prefix \in Prefixes /\ update \in Updates
  BY PrefixTyped DEF LookedAt
<1>2. Origin(update) \in Asns
  BY <1>1, OriginTyped DEF LookedAt
<1> QED
  BY <1>1, <1>2 DEF Key, Keys

LEMMA InitTypeInv == Init => TypeInv
<1> SUFFICES ASSUME Init PROVE TypeInv
  OBVIOUS
<1>1. registry \in [Keys -> Registered]
  BY ConstantsAssumption DEF Init, ConstantsAssumption
<1>2. TypeOK
  BY <1>1, Bounds DEF Init, TypeOK, NoUpdate, Statuses, Registered
<1>3. Progress
  BY DEF Init, Progress, Working
<1> QED
  BY <1>2, <1>3 DEF TypeInv

\* A verdict about the prefix at hand keeps the variables it changes in their
\* types.
LEMMA TakeTyped ==
  ASSUME TypeInv, LookedAt, NEW status \in Statuses, Take(status)
  PROVE  /\ cidr' \in Prefixes \cup {NoPrefix} /\ rpki' \in Statuses
         /\ reasons' \in Seq(Kinds \X Prefixes)
         /\ index' \in 1..Len(update.nlri) + 1
         /\ unknown' \subseteq Keys
<1>1. Prefix \in Prefixes /\ Key \in Keys
  BY KeyTyped
<1>2. index \in 1..Len(update.nlri) /\ Len(update.nlri) \in Nat
  BY PrefixTyped DEF LookedAt
<1>3. reasons \in Seq(Kinds \X Prefixes) /\ unknown \subseteq Keys
  BY DEF TypeInv, TypeOK, Kinds
<1>4. Judge(Prefix, status) \in Seq(Kinds \X Prefixes)
  BY <1>1, JudgeTyped
<1>5. reasons' \in Seq(Kinds \X Prefixes)
  BY <1>3, <1>4 DEF Take
<1> QED
  BY <1>1, <1>2, <1>3, <1>5 DEF Take

LEMMA TypeStep == TypeInv /\ [Next]_vars => TypeInv'
<1> SUFFICES ASSUME TypeInv, [Next]_vars PROVE TypeOK' /\ Progress'
  BY DEF TypeInv
<1> USE DEF TypeInv
<1>1. CASE NextUpdate
  <2>1. update' \in Updates /\ number \in Nat /\ number' = number + 1 /\ number' <= MaxUpdates
    BY <1>1, Bounds DEF NextUpdate, TypeOK
  <2>2. Len(update'.nlri) \in Nat
    BY <2>1, UpdateTyped
  <2>3. TypeOK'
    BY SMTT(30), <1>1, <2>1, <2>2 DEF NextUpdate, TypeOK, world, service
  <2>4. \A i \in DOMAIN findings : findings[i].update \in Nat
    <3>1. \A i \in DOMAIN findings : findings[i] \in Finding
      BY ElementTyped DEF TypeOK
    <3> QED
      BY <3>1, Bounds DEF Finding
  <2>5. Progress'
    BY <1>1, <2>1, <2>4 DEF NextUpdate, Progress, Working
  <2> QED
    BY <2>3, <2>5
<1>2. CASE SkipPrefix
  <2>1. /\ Prefix \in Prefixes \cup {NoPrefix} /\ index \in 1..Len(update.nlri)
        /\ Len(update.nlri) \in Nat
    BY <1>2, PrefixTyped DEF SkipPrefix, Working
  <2>2. TypeOK'
    BY SMTT(30), <1>2, <2>1 DEF SkipPrefix, TypeOK, world, service, call
  <2>3. Progress'
    BY <1>2 DEF SkipPrefix, Progress, Working, call
  <2> QED
    BY <2>2, <2>3
<1>3. CASE UseCached
  <2>0. LookedAt
    BY <1>3, AtHand DEF UseCached
  <2>1. cache[Key].status \in Statuses
    BY <1>3, <2>0, KeyTyped DEF UseCached, Fresh, TypeOK
  <2>2. TypeOK'
    BY <1>3, <2>0, <2>1, TakeTyped DEF UseCached, TypeOK, world, service, call, Kinds
  <2>3. Progress'
    BY <1>3, <2>0, <2>1, TakeTyped
       DEF UseCached, Progress, Working, call, Statuses, Registered, Looked, LookedAt
  <2> QED
    BY <2>2, <2>3
<1>4. CASE AskService
  <2>1. TypeOK'
    BY <1>4 DEF AskService, TypeOK, world, call
  <2>2. LookedAt' /\ Working /\ Working'
    BY <1>4 DEF AskService, Looked, LookedAt, Working, Prefix, call
  <2>3. Progress'
    BY <1>4, <2>2 DEF AskService, Progress, call
  <2> QED
    BY <2>1, <2>3
<1>5. CASE ServiceDecides
  <2>0. pc = "asking" /\ LookedAt
    BY <1>5, AtHand DEF ServiceDecides
  <2>1. registry[Key] \in Registered
    BY <2>0, KeyTyped DEF TypeOK
  <2>2. TypeOK'
    BY <1>5, <2>1 DEF ServiceDecides, TypeOK, world, call
  <2>3. LookedAt' /\ Working /\ Working'
    BY <1>5, <2>0 DEF ServiceDecides, LookedAt, Working, Prefix, call
  <2>4. Progress'
    BY <1>5, <2>3 DEF ServiceDecides, Progress, call
  <2> QED
    BY <2>2, <2>4
<1>6. CASE StoreAnswer
  <2>0. pc = "asking" /\ LookedAt
    BY <1>6, AtHand DEF StoreAnswer
  <2>1. PICK status \in {answer, "error"} \ {"none"} : Take(status) /\ cache' = Stored(status)
    BY <1>6 DEF StoreAnswer
  <2>2. Key \in Keys /\ status \in Statuses
    BY <2>0, <2>1, KeyTyped DEF TypeOK, Statuses
  <2>3. cache' \in [Keys -> [status : Statuses \cup {"absent"}, ts : 0..MaxClock]]
    BY <2>1, <2>2 DEF Stored, TypeOK
  <2>4. asked' \in [Keys -> Int] /\ slowest' \in 0..MaxClock /\ sent' \in 0..MaxClock
    BY <1>6, <2>2, Bounds DEF StoreAnswer, TypeOK
  <2>5. TypeOK'
    BY <1>6, <2>0, <2>1, <2>2, <2>3, <2>4, TakeTyped DEF StoreAnswer, TypeOK, world, call, Kinds
  <2>6. Progress'
    BY <1>6, <2>0, <2>1, <2>2, TakeTyped
       DEF StoreAnswer, Progress, Working, call, Statuses, Registered, LookedAt
  <2> QED
    BY <2>5, <2>6
<1>7. CASE AnswerUnreadable
  <2>0. pc = "asking" /\ LookedAt
    BY <1>7, AtHand DEF AnswerUnreadable
  <2>1. Prefix \in Prefixes /\ Origin(update) \in Asns
    BY <2>0, KeyTyped
  <2>2. unknown' \subseteq Keys
    BY <1>7, <2>1 DEF AnswerUnreadable, TypeOK, Keys
  <2>3. TypeOK'
    BY <1>7, <2>1, <2>2, Bounds DEF AnswerUnreadable, TypeOK, world, call
  <2>4. Progress'
    BY <1>7, <2>0 DEF AnswerUnreadable, Progress, Working, call
  <2> QED
    BY <2>3, <2>4
<1>8. CASE Conclude
  <2>1. update \in Updates /\ number \in 1..MaxUpdates /\ Working
    BY <1>8, Bounds DEF Conclude, Progress, TypeOK, Working
  <2>2. CASE reasons = <<>>
    BY <1>8, <2>1, <2>2 DEF Conclude, TypeOK, Progress, Working, world, service, call
  <2>3. CASE reasons # <<>>
    <3> DEFINE f == [announced_prefix |-> cidr, origin_asn |-> Origin(update), rpki_status |-> rpki,
                     reasons |-> reasons, attck_tags |-> TagsOf(reasons),
                     risk_score |-> Score(reasons), update |-> number]
    <3>1. f \in Finding
      <4>1. Origin(update) \in Asns /\ rpki \in Statuses
        BY <2>1, <2>3, OriginTyped DEF Progress, TypeOK
      <4>2. reasons \in Seq(Kinds \X Prefixes) /\ cidr \in Prefixes \cup {NoPrefix}
        BY DEF TypeOK, Kinds
      <4>3. Score(reasons) \in 0..100 /\ TagsOf(reasons) \subseteq {"hijack", "signal"}
        BY <4>2, ScoreTyped DEF TagsOf
      <4> QED
        BY <2>1, <4>1, <4>2, <4>3 DEF Finding, Kinds
    <3>2. findings' = Append(findings, f) /\ findings \in Seq(Finding) /\ f.update = number
      BY <1>8, <2>3 DEF Conclude, TypeOK
    <3> HIDE DEF f
    <3>3. findings' \in Seq(Finding)
      BY <3>1, <3>2
    <3>4. TypeOK'
      BY <1>8, <3>3 DEF Conclude, TypeOK, world, service, call
    <3>5. Progress'
      BY <1>8, <2>1, <3>2 DEF Conclude, Progress, Working, call
    <3> QED
      BY <3>4, <3>5
  <2> QED
    BY <2>2, <2>3
<1>9. CASE EndOfCapture
  BY <1>9 DEF EndOfCapture, TypeOK, Progress, Working, world, service, call
<1>10. CASE Tick \/ UNCHANGED vars \/ \E k \in Changing : ChangeRoa(k)
  <2>1. UNCHANGED <<service, pc, call, index, cidr, rpki, reasons, unknown, findings>>
    BY <1>10 DEF Tick, ChangeRoa, vars
  <2>2. /\ clock' \in 0..MaxClock /\ registry' \in [Keys -> Registered]
        /\ since' \in [Keys -> Int] /\ changes' \in 0..MaxChanges
    <3>1. ASSUME NEW k \in Changing, ChangeRoa(k)
          PROVE  /\ registry' \in [Keys -> Registered] /\ clock' = clock
                 /\ since' \in [Keys -> Int] /\ changes' \in 0..MaxChanges
      <4>1. PICK status \in Registered \ {registry[k]} :
              registry' = [registry EXCEPT ![k] = status]
        BY <3>1 DEF ChangeRoa
      <4>2. clock \in Int /\ changes \in 0..MaxChanges
            /\ registry \in [Keys -> Registered] /\ since \in [Keys -> Int]
        BY Bounds DEF TypeOK
      <4>3. registry' \in [Keys -> Registered]
        BY <4>1, <4>2
      <4>4. /\ since' = [since EXCEPT ![k] = clock] /\ clock' = clock
            /\ changes < MaxChanges /\ changes' = changes + 1
        BY <3>1 DEF ChangeRoa
      <4>5. since' \in [Keys -> Int]
        BY <4>2, <4>4
      <4>6. changes' \in 0..MaxChanges
        BY ONLY <4>2, <4>4, Bounds
      <4> QED
        BY <4>3, <4>4, <4>5, <4>6
    <3> QED
      BY <1>10, <3>1, Bounds DEF Tick, vars, world, TypeOK
  <2>3. TypeOK'
    BY <2>1, <2>2 DEF TypeOK, service, call
  <2>4. Progress'
    BY <2>1 DEF Progress, Working, LookedAt, Prefix, call
  <2> QED
    BY <2>3, <2>4
<1> QED
  BY <1>1, <1>2, <1>3, <1>4, <1>5, <1>6, <1>7, <1>8, <1>9, <1>10 DEF Next

-----------------------------------------------------------------------------
(* The cache                                                               *)

LEMMA CacheStep == TypeInv /\ CacheTrue /\ AnswerTrue /\ [Next]_vars => CacheTrue'
<1> SUFFICES ASSUME TypeInv, CacheTrue, AnswerTrue, [Next]_vars PROVE CacheTrue'
  OBVIOUS
<1>1. CASE NextUpdate
  BY <1>1 DEF NextUpdate, CacheTrue, TypeInv, TypeOK, world, service
<1>2. CASE \/ SkipPrefix \/ UseCached \/ AskService \/ ServiceDecides \/ AnswerUnreadable
           \/ Conclude \/ EndOfCapture \/ UNCHANGED vars
  <2>1. UNCHANGED <<world, cache, asked, slowest, began>>
    BY <1>2 DEF SkipPrefix, UseCached, AskService, ServiceDecides, AnswerUnreadable, Conclude,
                EndOfCapture, vars, service, call
  <2> QED
    BY <2>1 DEF CacheTrue, world
<1>3. CASE StoreAnswer
  <2>1. PICK status \in {answer, "error"} \ {"none"} : cache' = Stored(status)
    BY <1>3 DEF StoreAnswer
  <2>2. /\ Key \in Keys /\ clock \in Int /\ sent \in Int /\ slowest \in Int
        /\ sent <= clock
    BY <1>3, AtHand, KeyTyped, Bounds DEF StoreAnswer, AnswerTrue, TypeInv, TypeOK
  <2>3. /\ cache'[Key] = [status |-> status, ts |-> clock] /\ asked'[Key] = sent
        /\ \A k \in Keys \ {Key} : cache'[k] = cache[k] /\ asked'[k] = asked[k]
    BY <1>3, <2>1, <2>2 DEF StoreAnswer, Stored, TypeInv, TypeOK
  <2>4. UNCHANGED <<clock, registry, since, began>>
    BY <1>3 DEF StoreAnswer, world, call
  <2>5. status \in Statuses /\ (status \in Registered /\ since[Key] < sent => status = registry[Key])
    BY <1>3, <2>1 DEF StoreAnswer, AnswerTrue, TypeInv, TypeOK, Statuses, Registered
  <2>6. slowest' \in Int /\ slowest <= slowest' /\ clock - sent <= slowest'
    BY <1>3, <2>2 DEF StoreAnswer
  <2>7. ASSUME NEW k \in Keys \ {Key}
        PROVE  IF cache[k].status = "absent" THEN asked[k] = -CacheTtl
               ELSE asked[k] <= cache[k].ts /\ cache[k].ts - slowest' <= asked[k]
    <3>1. cache[k].ts \in Int /\ asked[k] \in Int
      BY Bounds DEF TypeInv, TypeOK
    <3> QED
      BY <2>2, <2>6, <3>1 DEF CacheTrue
  <2>8. ASSUME NEW k \in Keys \ {Key}
        PROVE  /\ cache'[k].ts <= clock' /\ since'[k] <= clock'
               /\ IF cache'[k].status = "absent" THEN asked'[k] = -CacheTtl
                  ELSE asked'[k] <= cache'[k].ts /\ cache'[k].ts - slowest' <= asked'[k]
               /\ cache'[k].status \in Registered /\ since'[k] < asked'[k]
                    => cache'[k].status = registry'[k]
    BY <2>3, <2>4, <2>7 DEF CacheTrue
  <2>9. /\ cache'[Key].ts <= clock' /\ since'[Key] <= clock'
        /\ IF cache'[Key].status = "absent" THEN asked'[Key] = -CacheTtl
           ELSE asked'[Key] <= cache'[Key].ts /\ cache'[Key].ts - slowest' <= asked'[Key]
        /\ cache'[Key].status \in Registered /\ since'[Key] < asked'[Key]
             => cache'[Key].status = registry'[Key]
    <3>1. cache'[Key].ts = clock /\ cache'[Key].status = status
      BY <2>3
    <3>2. clock' = clock /\ since'[Key] = since[Key] /\ since[Key] <= clock /\ registry'[Key] = registry[Key]
      BY <2>2, <2>4 DEF CacheTrue
    <3>3. status # "absent"
      BY <2>5 DEF Statuses, Registered
    <3>4. cache'[Key].ts - slowest' <= asked'[Key]
      <4>1. \A c, d, e \in Int : c - d <= e => c - e <= d
        OBVIOUS
      <4>2. clock - slowest' <= sent
        BY <2>2, <2>6, <4>1
      <4> QED
        BY <2>3, <3>1, <4>2
    <3> QED
      BY <2>2, <2>3, <2>5, <3>1, <3>2, <3>3, <3>4
  <2> QED
    BY <2>4, <2>8, <2>9 DEF CacheTrue
<1>4. CASE Tick
  BY <1>4, Bounds DEF Tick, CacheTrue, service, call, TypeInv, TypeOK
<1>5. CASE \E k \in Changing : ChangeRoa(k)
  <2>1. PICK k \in Keys : ChangeRoa(k)
    BY <1>5, ConstantsAssumption DEF ConstantsAssumption
  <2>2. /\ since'[k] = clock /\ clock \in Int /\ cache[k].ts \in Int /\ asked[k] \in Int
        /\ \A l \in Keys \ {k} : since'[l] = since[l] /\ registry'[l] = registry[l]
    BY <2>1, Bounds DEF ChangeRoa, TypeInv, TypeOK
  <2>3. UNCHANGED <<clock, cache, asked, slowest, began>>
    BY <2>1 DEF ChangeRoa, service, call
  <2>4. asked[k] <= clock
    <3>1. /\ cache[k].ts <= clock /\ 0 <= clock
          /\ IF cache[k].status = "absent" THEN asked[k] = -CacheTtl ELSE asked[k] <= cache[k].ts
      BY Bounds DEF CacheTrue, TypeInv, TypeOK
    <3> QED
      BY <2>2, <3>1, Bounds
  <2> QED
    BY <2>2, <2>3, <2>4 DEF CacheTrue
<1> QED
  BY <1>1, <1>2, <1>3, <1>4, <1>5 DEF Next

LEMMA AnswerStep == TypeInv /\ CacheTrue /\ AnswerTrue /\ [Next]_vars => AnswerTrue'
<1> SUFFICES ASSUME TypeInv, CacheTrue, AnswerTrue, [Next]_vars PROVE AnswerTrue'
  OBVIOUS
<1>1. CASE NextUpdate \/ SkipPrefix \/ UseCached \/ Conclude \/ EndOfCapture
  <2>1. /\ UNCHANGED <<world, sent, answer>> /\ pc # "asking" /\ pc' # "asking"
    BY <1>1 DEF NextUpdate, SkipPrefix, UseCached, Conclude, EndOfCapture, Looked, service
  <2> QED
    BY <2>1 DEF AnswerTrue, world
<1>2. CASE AskService
  <2>1. answer = "none"
    BY <1>2 DEF AskService, Looked, AnswerTrue
  <2> QED
    BY <1>2, <2>1, Bounds DEF AskService, AnswerTrue, CacheTrue, world, call, TypeInv, TypeOK
<1>3. CASE ServiceDecides
  BY <1>3 DEF ServiceDecides, AnswerTrue, Key, Prefix, world, call
<1>4. CASE StoreAnswer \/ AnswerUnreadable
  BY <1>4, Bounds DEF StoreAnswer, AnswerUnreadable, AnswerTrue, world, TypeInv, TypeOK
<1>5. CASE Tick \/ UNCHANGED vars
  <2>1. /\ UNCHANGED <<registry, since, sent, answer, pc, began, Key>>
        /\ clock' = clock \/ clock' = clock + 1
    BY <1>5 DEF Tick, vars, world, service, call, Key, Prefix
  <2> QED
    BY <2>1, Bounds DEF AnswerTrue, TypeInv, TypeOK
<1>6. CASE \E k \in Changing : ChangeRoa(k)
  <2>1. PICK k \in Keys : ChangeRoa(k)
    BY <1>6, ConstantsAssumption DEF ConstantsAssumption
  <2>2. UNCHANGED <<clock, sent, answer, pc, began, Key>>
    BY <2>1 DEF ChangeRoa, service, call, Key, Prefix
  <2>3. pc = "asking" => Key \in Keys
    BY AtHand, KeyTyped
  <2>4. /\ since'[k] = clock /\ clock \in Int /\ sent \in Int
        /\ \A l \in Keys \ {k} : since'[l] = since[l] /\ registry'[l] = registry[l]
    BY <2>1, Bounds DEF ChangeRoa, TypeInv, TypeOK
  <2> QED
    BY <2>2, <2>3, <2>4 DEF AnswerTrue
<1> QED
  BY <1>1, <1>2, <1>3, <1>4, <1>5, <1>6 DEF Next

\* The service is not asked while an answer of it is fresh.
LEMMA Spared ==
  ASSUME TypeInv, CacheTrue, AskService
  PROVE  asked[Key] + CacheTtl <= clock
<1>1. Key \in Keys /\ ~Fresh(Key)
  BY AtHand, KeyTyped DEF AskService
<1>2. cache[Key].ts \in Int /\ clock \in Nat /\ asked[Key] \in Int
  BY <1>1, Bounds DEF TypeInv, TypeOK
<1> QED
  BY <1>1, <1>2, Bounds DEF CacheTrue, Fresh

-----------------------------------------------------------------------------
(* The verdicts                                                            *)

\* A change made after the analysis began unsettles its key.
LEMMA Unsettled ==
  ASSUME TypeInv, CacheTrue, NEW k \in Keys, ChangeRoa(k)
  PROVE  /\ ~Settled(k)'
         /\ \A l \in Keys \ {k} : since'[l] = since[l] /\ registry'[l] = registry[l]
<1>1. since'[k] = clock /\ began' = began /\ slowest' = slowest
  BY DEF ChangeRoa, call, service, TypeInv, TypeOK
<1>2. began <= clock /\ began \in Int /\ clock \in Int /\ slowest \in Nat
  BY Bounds DEF CacheTrue, TypeInv, TypeOK
<1> QED
  BY <1>1, <1>2, Bounds DEF Settled, ChangeRoa, TypeInv, TypeOK

\* A verdict that is right about its key, if nothing disturbs it, keeps the
\* reasons just.
LEMMA TakeJudged ==
  ASSUME TypeInv, Judged, LookedAt, NEW status \in Statuses, Take(status),
         UNCHANGED <<registry, since, began, update>>, slowest' \in Nat, slowest <= slowest',
         \A k \in Keys, s \in Registered : k = Key /\ Calm(k, s)' => status = s
  PROVE  Judged'
<1>1. Prefix \in Prefixes /\ Key \in Keys /\ update \in Updates
  BY KeyTyped, PrefixTyped DEF LookedAt
<1>2. index \in Nat /\ index' = index + 1 /\ index >= 1
  BY PrefixTyped DEF Take, LookedAt
<1>3. Seen' = Seen \cup {Key}
  <2>1. \A x : x \in 1..index'-1 <=> x \in 1..index-1 \/ x = index
    BY <1>2
  <2> QED
    BY <1>1, <2>1 DEF Seen, Key, Prefix
<1>4. unknown \subseteq unknown' /\ Key[1] = Prefix
  BY DEF Take, Key
<1>5. /\ reasons \in Seq(Kinds \X Prefixes) /\ Judge(Prefix, status) \in Seq(Kinds \X Prefixes)
      /\ reasons' = reasons \o Judge(Prefix, status)
  BY <1>1, JudgeTyped DEF TypeInv, TypeOK, Kinds, Take
<1>0. \A k \in Keys : Settled(k)' => Settled(k)
  <2>1. \A k \in Keys : since[k] \in Int
    BY DEF TypeInv, TypeOK
  <2>2. began \in Int /\ slowest \in Int
    BY Bounds DEF TypeInv, TypeOK
  <2> QED
    BY <2>1, <2>2, Bounds DEF Settled
<1>6. \A k \in Keys, s \in Registered : Calm(k, s)' => Calm(k, s)
  BY <1>0, <1>4 DEF Calm
<1>7. ASSUME NEW k \in Seen', Calm(k, "invalid")'
      PROVE  <<"invalid", k[1]>> \in {reasons'[j] : j \in DOMAIN reasons'}
  <2>1. CASE k \in Seen
    <3>1. <<"invalid", k[1]>> \in {reasons[j] : j \in DOMAIN reasons}
      BY <1>6, <1>7, <2>1 DEF Judged, LookedAt, Seen, Registered
    <3>2. PICK j \in DOMAIN reasons : reasons[j] = <<"invalid", k[1]>>
      BY <3>1
    <3>3. j \in DOMAIN reasons' /\ reasons'[j] = reasons[j]
      BY <1>5
    <3> QED
      BY <3>2, <3>3
  <2>2. CASE k = Key
    <3>1. status = "invalid"
      BY <1>1, <1>7, <2>2 DEF Registered
    <3>2. Len(Judge(Prefix, status)) >= 1 /\ Judge(Prefix, status)[1] = <<"invalid", k[1]>>
      BY <1>1, <1>4, <2>2, <3>1, JudgeTyped
    <3>3. Len(reasons) + 1 \in DOMAIN reasons'
          /\ reasons'[Len(reasons) + 1] = Judge(Prefix, status)[1]
      BY <1>5, <3>2
    <3> QED
      BY <3>2, <3>3
  <2> QED
    BY <1>3, <2>1, <2>2
<1>8. ASSUME \A k \in Seen' : Calm(k, "valid")' PROVE reasons' = <<>>
  <2>1. status = "valid"
    BY <1>1, <1>3, <1>8 DEF Registered
  <2>2. Judge(Prefix, status) = <<>>
    BY <1>1, <2>1, JudgeTyped
  <2>3. reasons = <<>>
    BY <1>3, <1>6, <1>8 DEF Judged, LookedAt, Seen, Registered
  <2> QED
    BY <1>5, <2>2, <2>3
<1> QED
  BY <1>7, <1>8 DEF Judged

LEMMA JudgedStep ==
  TypeInv /\ CacheTrue /\ AnswerTrue /\ Judged /\ [Next]_vars => Judged'
<1> SUFFICES ASSUME TypeInv, CacheTrue, AnswerTrue, Judged, [Next]_vars PROVE Judged'
  OBVIOUS
<1>1. CASE NextUpdate
  <2>1. Seen' = {} /\ reasons' = <<>>
    BY <1>1 DEF NextUpdate, Seen
  <2> QED
    BY <2>1 DEF Judged
<1>2. CASE SkipPrefix
  <2>1. update \in Updates /\ index \in Nat /\ index >= 1
    BY <1>2, PrefixTyped DEF SkipPrefix, Working
  <2>2. <<Prefix, Origin(update)>> \notin Keys
    BY <1>2, ConstantsAssumption DEF SkipPrefix, Keys, ConstantsAssumption
  <2>3. Seen' = Seen
    <3>1. \A x : x \in 1..index'-1 <=> x \in 1..index-1 \/ x = index
      BY <1>2, <2>1 DEF SkipPrefix
    <3> QED
      BY <1>2, <2>2, <3>1 DEF SkipPrefix, Seen, call, Prefix
  <2> QED
    BY <1>2, <2>3 DEF SkipPrefix, Judged, Working, Calm, Settled, world, service, call
<1>3. CASE UseCached
  <2> DEFINE status == cache[Key].status
  <2>0. LookedAt
    BY <1>3, AtHand DEF UseCached
  <2>1. Key \in Keys /\ status \in Statuses /\ Take(status)
    BY <1>3, <2>0, KeyTyped DEF UseCached, Fresh, TypeInv, TypeOK
  <2>2. UNCHANGED <<registry, since, began, update, slowest>> /\ slowest \in Nat
    BY <1>3, Bounds DEF UseCached, world, call, service, TypeInv, TypeOK
  <2>3. ASSUME NEW k \in Keys, k = Key, Settled(k)' PROVE since[k] < asked[k]
    <3>1. /\ began <= clock /\ clock - cache[k].ts < CacheTtl
          /\ cache[k].ts - slowest <= asked[k]
          /\ began \in Int /\ clock \in Int /\ cache[k].ts \in Int /\ since[k] \in Int
          /\ asked[k] \in Int
      BY <1>3, <2>3, Bounds DEF UseCached, Fresh, CacheTrue, TypeInv, TypeOK
    <3>2. since[k] + CacheTtl + slowest <= began
      BY <2>2, <2>3 DEF Settled
    <3> QED
      BY <2>2, <3>1, <3>2, Bounds
  <2>4. status = "error" => Key \in unknown'
    BY <2>1 DEF Take
  <2>5. \A k \in Keys, s \in Registered : k = Key /\ Calm(k, s)' => status = s
    BY <2>1, <2>2, <2>3, <2>4 DEF Calm, CacheTrue, Statuses
  <2>6. slowest' \in Nat /\ slowest <= slowest'
    BY <2>2
  <2> HIDE DEF status
  <2> QED
    BY <2>0, <2>1, <2>2, <2>5, <2>6, TakeJudged
<1>4. CASE StoreAnswer
  <2>0. pc = "asking" /\ LookedAt
    BY <1>4, AtHand DEF StoreAnswer
  <2>1. PICK status \in {answer, "error"} \ {"none"} : Take(status)
    BY <1>4 DEF StoreAnswer
  <2>2. Key \in Keys /\ status \in Statuses
    BY <2>0, <2>1, KeyTyped DEF TypeInv, TypeOK, Statuses
  <2>3. UNCHANGED <<registry, since, began, update>>
    BY <1>4 DEF StoreAnswer, world, call
  <2>4. slowest' \in Nat /\ slowest <= slowest'
    BY <1>4, Bounds DEF StoreAnswer, AnswerTrue, TypeInv, TypeOK
  <2>5. ASSUME NEW k \in Keys, Settled(k)' PROVE since[k] < sent
    <3>1. /\ began <= sent /\ began \in Int /\ sent \in Int /\ since[k] \in Int
      BY <2>0, Bounds DEF AnswerTrue, TypeInv, TypeOK
    <3>2. since[k] + CacheTtl + slowest' <= began
      BY <2>3, <2>5 DEF Settled
    <3> QED
      BY <2>4, <3>1, <3>2, Bounds
  <2>6. status = "error" => Key \in unknown'
    BY <2>1 DEF Take
  <2>7. \A k \in Keys, s \in Registered : k = Key /\ Calm(k, s)' => status = s
    BY <2>1, <2>3, <2>5, <2>6 DEF Calm, AnswerTrue
  <2> QED
    BY <2>0, <2>1, <2>2, <2>3, <2>4, <2>7, TakeJudged
<1>5. CASE AnswerUnreadable \/ Conclude \/ EndOfCapture
  BY <1>5 DEF AnswerUnreadable, Conclude, EndOfCapture, Judged, Working
<1>6. CASE AskService \/ ServiceDecides \/ Tick \/ UNCHANGED vars
  <2>1. /\ UNCHANGED <<registry, since, began, update, slowest, index, reasons, unknown>>
        /\ Working' = Working
    BY <1>6 DEF AskService, ServiceDecides, Looked, Tick, vars, world, service, call, Working
  <2> QED
    BY <2>1 DEF Judged, Seen, Calm, Settled
<1>7. CASE \E k \in Changing : ChangeRoa(k)
  <2>1. PICK k \in Keys : ChangeRoa(k)
    BY <1>7, ConstantsAssumption DEF ConstantsAssumption
  <2>2. Seen' = Seen /\ UNCHANGED <<pc, reasons, unknown, began, slowest>>
    BY <2>1 DEF ChangeRoa, call, service, Seen
  <2>3. \A l \in Keys, s \in Registered : Calm(l, s)' => Calm(l, s)
    BY <2>1, <2>2, Unsettled DEF Calm, Settled
  <2>4. Seen \subseteq Keys /\ {"valid", "invalid"} \subseteq Registered
    BY DEF Seen, Registered
  <2> QED
    BY <2>2, <2>3, <2>4 DEF Judged, Working
<1> QED
  BY <1>1, <1>2, <1>3, <1>4, <1>5, <1>6, <1>7 DEF Next

-----------------------------------------------------------------------------
(* The findings                                                            *)

Reported == HijackReported /\ BaselineNotFlagged

\* An UPDATE whose path names its origin announces the keys looked at.
LEMMA AnnouncedKeys ==
  ASSUME TypeInv, update \in Updates, update.wide, Attributed(update),
         index > Len(update.nlri)
  PROVE  Announced = Seen
<1>1. Origin(update) = update.from
  BY OriginFound
<1>2. Len(update.nlri) \in Nat /\ DOMAIN update.nlri = 1..Len(update.nlri)
  BY UpdateTyped
<1>3. index \in 1..Len(update.nlri) + 1
  BY DEF TypeInv, TypeOK
<1>4. DOMAIN update.nlri = 1..index - 1
  BY <1>2, <1>3
<1> QED
  BY <1>1, <1>4 DEF Announced, Seen

\* Before an analysis ends there is no finding about its UPDATE.
LEMMA NoneYet ==
  ASSUME TypeInv, Working
  PROVE  ReportsLatest = {}
<1>1. \A i \in DOMAIN findings : findings[i].update < number
  BY DEF TypeInv, Progress
<1>2. number \in Int
  BY Bounds DEF TypeInv, TypeOK
<1> QED
  BY <1>1, <1>2 DEF ReportsLatest

LEMMA ConcludeReports ==
  ASSUME TypeInv, Judged, Conclude
  PROVE  Reported'
<1>1. /\ update \in Updates /\ Working /\ index > Len(update.nlri)
      /\ UNCHANGED <<update, registry, since, began, unknown, number, slowest>>
      /\ Announced' = Announced
  BY DEF Conclude, TypeInv, Progress, Working, world, call, service, Announced
<1>2. reasons \in Seq(Kinds \X Prefixes) /\ findings \in Seq(Finding)
  BY DEF TypeInv, TypeOK, Kinds
<1>3. HijackReported'
  <2> SUFFICES ASSUME update.wide, Attributed(update), NEW k \in Announced,
                      registry[k] = "invalid", Settled(k), k \notin unknown
               PROVE  FoundHijack(k)'
    BY <1>1 DEF HijackReported, Settled
  <2>1. <<"invalid", k[1]>> \in {reasons[j] : j \in DOMAIN reasons}
    BY <1>1, AnnouncedKeys DEF Judged, Calm
  <2>2. PICK j \in DOMAIN reasons : reasons[j] = <<"invalid", k[1]>>
    BY <2>1
  <2>3. reasons # <<>> /\ reasons[j][1] = "invalid"
    BY <2>2
  <2> DEFINE f == [announced_prefix |-> cidr, origin_asn |-> Origin(update), rpki_status |-> rpki,
                   reasons |-> reasons, attck_tags |-> TagsOf(reasons),
                   risk_score |-> Score(reasons), update |-> number]
  <2>4. findings' = Append(findings, f)
    BY <2>3 DEF Conclude
  <2>5. "hijack" \in TagsOf(reasons)
    BY <2>3 DEF TagsOf
  <2>6. Score(reasons) >= 90
    BY <1>2, <2>3, ScoreTyped
  <2>7. /\ f.update = number /\ f.reasons = reasons /\ f.risk_score = Score(reasons)
        /\ f.attck_tags = TagsOf(reasons)
    OBVIOUS
  <2> HIDE DEF f
  <2>8. Len(findings) + 1 \in DOMAIN findings' /\ findings'[Len(findings) + 1] = f
    BY <1>2, <2>4
  <2>9. Len(findings) + 1 \in ReportsLatest'
    BY <1>1, <2>7, <2>8 DEF ReportsLatest
  <2> QED
    BY <2>1, <2>5, <2>6, <2>7, <2>8, <2>9 DEF FoundHijack
<1>4. BaselineNotFlagged'
  <2> SUFFICES ASSUME Attributed(update), update.wide \/ Len(update.path) <= 1,
                      \A k \in Announced : Calm(k, "valid")
               PROVE  ReportsLatest' = {}
    BY <1>1 DEF BaselineNotFlagged, Settled, Calm
  <2>1. reasons = <<>>
    <3>1. CASE update.wide
      BY <1>1, <3>1, AnnouncedKeys DEF Judged
    <3>2. CASE ~update.wide
      BY <3>2 DEF TypeInv, Progress, Origin
    <3> QED
      BY <3>1, <3>2
  <2>2. findings' = findings
    BY <2>1 DEF Conclude
  <2> QED
    BY <1>1, <2>2, NoneYet DEF ReportsLatest
<1> QED
  BY <1>3, <1>4 DEF Reported

\* What happens to the world meanwhile takes no report back and adds no demand.
LEMMA ReportedKept ==
  ASSUME Reported, UNCHANGED <<pc, number, update, unknown, findings>>,
         \A l \in Keys, s \in Registered : registry'[l] = s /\ Settled(l)' =>
           registry[l] = s /\ Settled(l)
  PROVE  Reported'
<1>1. /\ Announced' = Announced /\ Announced \subseteq Keys /\ ReportsLatest' = ReportsLatest
      /\ Analysed' = Analysed
      /\ \A k \in Keys : FoundHijack(k) => FoundHijack(k)'
  BY DEF Announced, ReportsLatest, Analysed, FoundHijack
<1>2. "valid" \in Registered /\ "invalid" \in Registered
  BY DEF Registered
<1>3. HijackReported'
  <2> SUFFICES ASSUME Analysed, update.wide, Attributed(update), NEW k \in Announced,
                      registry'[k] = "invalid", Settled(k)', k \notin unknown
               PROVE  FoundHijack(k)
    BY <1>1 DEF HijackReported
  <2>1. registry[k] = "invalid" /\ Settled(k)
    BY <1>1, <1>2
  <2> QED
    BY <2>1 DEF Reported, HijackReported
<1>4. BaselineNotFlagged'
  <2> SUFFICES ASSUME Analysed, Attributed(update), update.wide \/ Len(update.path) <= 1,
                      \A k \in Announced :
                        registry'[k] = "valid" /\ Settled(k)' /\ k \notin unknown
               PROVE  ReportsLatest = {}
    BY <1>1 DEF BaselineNotFlagged
  <2>1. \A k \in Announced : registry[k] = "valid" /\ Settled(k) /\ k \notin unknown
    BY <1>1, <1>2
  <2> QED
    BY <2>1 DEF Reported, BaselineNotFlagged
<1> QED
  BY <1>3, <1>4 DEF Reported

LEMMA ReportedStep ==
  TypeInv /\ CacheTrue /\ Judged /\ Reported /\ [Next]_vars => Reported'
<1> SUFFICES ASSUME TypeInv, CacheTrue, Judged, Reported, [Next]_vars PROVE Reported'
  OBVIOUS
<1>1. CASE \/ NextUpdate \/ SkipPrefix \/ UseCached \/ AskService \/ ServiceDecides
           \/ StoreAnswer \/ EndOfCapture
  <2>1. pc' # "next"
    BY <1>1 DEF NextUpdate, SkipPrefix, UseCached, AskService, ServiceDecides, StoreAnswer,
                EndOfCapture, Looked
  <2> QED
    BY <2>1 DEF Reported, HijackReported, BaselineNotFlagged, Analysed
<1>2. CASE AnswerUnreadable
  <2>1. /\ Working /\ update \in Updates /\ UNCHANGED <<update, findings, number>>
        /\ Announced' = Announced
        /\ {<<p, Origin(update)>> : p \in Prefixes} \subseteq unknown'
    BY <1>2 DEF AnswerUnreadable, Working, TypeInv, Progress, call, Announced
  <2>2. ReportsLatest' = {}
    BY <2>1, NoneYet DEF ReportsLatest
  <2>3. ASSUME update.wide, Attributed(update), NEW k \in Announced PROVE k \in unknown'
    <3>1. Origin(update) = update.from
      BY <2>1, <2>3, OriginFound
    <3>2. k \in {<<p, Origin(update)>> : p \in Prefixes}
      BY <3>1 DEF Announced, Keys
    <3> QED
      BY <2>1, <3>2
  <2>4. HijackReported'
    BY <2>1, <2>3 DEF HijackReported
  <2> QED
    BY <2>2, <2>4 DEF Reported, BaselineNotFlagged
<1>3. CASE Conclude
  BY <1>3, ConcludeReports
<1>4. CASE Tick \/ UNCHANGED vars
  <2>1. UNCHANGED <<pc, number, update, unknown, findings, began, registry, since, slowest>>
    BY <1>4 DEF Tick, vars, world, service, call
  <2> QED
    BY <2>1, ReportedKept DEF Settled
<1>5. CASE \E k \in Changing : ChangeRoa(k)
  <2>1. PICK k \in Keys : ChangeRoa(k)
    BY <1>5, ConstantsAssumption DEF ConstantsAssumption
  <2>2. UNCHANGED <<pc, number, update, unknown, findings, began, slowest>>
    BY <2>1 DEF ChangeRoa, call, service
  <2>3. \A l \in Keys, s \in Registered : registry'[l] = s /\ Settled(l)' =>
          registry[l] = s /\ Settled(l)
    BY <2>1, <2>2, Unsettled DEF Settled
  <2> QED
    BY <2>2, <2>3, ReportedKept
<1> QED
  BY <1>1, <1>2, <1>3, <1>4, <1>5 DEF Next

-----------------------------------------------------------------------------
(* The theorems                                                            *)

DetectorInv == TypeInv /\ CacheTrue /\ AnswerTrue /\ Judged /\ Reported

LEMMA InitDetectorInv == Init => DetectorInv
<1> SUFFICES ASSUME Init PROVE DetectorInv
  OBVIOUS
<1>1. CacheTrue
  BY Bounds DEF Init, CacheTrue, Registered
<1>2. AnswerTrue
  BY DEF Init, AnswerTrue
<1>3. Judged /\ Reported
  BY DEF Init, Judged, Working, Reported, HijackReported, BaselineNotFlagged, Analysed
<1> QED
  BY <1>1, <1>2, <1>3, InitTypeInv DEF DetectorInv

THEOREM DetectorInvariant == Spec => []DetectorInv
<1>1. DetectorInv /\ [Next]_vars => DetectorInv'
  BY TypeStep, CacheStep, AnswerStep, JudgedStep, ReportedStep DEF DetectorInv
<1> QED
  BY <1>1, InitDetectorInv, PTL DEF Spec

\* The detector keeps its variables in their types: scores within 0..100, every
\* finding with an origin and a verdict.
THEOREM DetectorTyped == Spec => []TypeOK
<1>1. DetectorInv => TypeOK
  BY DEF DetectorInv, TypeInv
<1> QED
  BY <1>1, DetectorInvariant, PTL

\* Every hijack the service has known of for CacheTtl, and for as long again as a
\* request has taken, is reported as critical, whatever the UPDATE announces
\* besides, however long its NLRI and its path are: if the path names the origin
\* in four bytes, and the service gave a readable answer.
THEOREM HijacksReported == Spec => []HijackReported
<1>1. DetectorInv => HijackReported
  BY DEF DetectorInv, Reported
<1> QED
  BY <1>1, DetectorInvariant, PTL

\* Announcements that have been registered for CacheTtl, and for as long again as
\* a request has taken, are not reported: unless AS numbers of two bytes fill
\* several segments, or the service gave no readable answer.
THEOREM BaselineSilent == Spec => []BaselineNotFlagged
<1>1. DetectorInv => BaselineNotFlagged
  BY DEF DetectorInv, Reported
<1> QED
  BY <1>1, DetectorInvariant, PTL

\* The cache keeps the service from being asked for a key again within CacheTtl.
THEOREM CacheSpares == Spec => ServiceSpared
<1>1. DetectorInv /\ [Next]_vars => [AskService => asked[Key] + CacheTtl <= clock]_vars
  BY Spared DEF DetectorInv
<1> QED
  BY <1>1, DetectorInvariant, PTL DEF Spec, ServiceSpared

=============================================================================
