------------------------- MODULE ThreatReportProofs -------------------------
(***************************************************************************)
(* What the report promises, for any findings, scores and limits: that the *)
(* order of the aggregator brings every hijack found to the narrative and  *)
(* to the tool of the agent, unless they are full of findings at least as  *)
(* bad.  The analysis behind it is that of BgpHijack, step by step, so      *)
(* that its theorems hold with the report too.                              *)
(*                                                                         *)
(* The argument: ranks in a linear order of a finite set count from 1 to   *)
(* its size without a gap, by the pigeonhole principle, so that sorting    *)
(* and selecting lose nothing and change the order of nothing.             *)
(***************************************************************************)
EXTENDS ThreatReport, BgpHijackProofs, FunctionTheorems, SequenceTheorems

-----------------------------------------------------------------------------
(* Orders                                                                  *)

Linear(S, order) ==
  /\ \A i \in S : <<i, i>> \notin order
  /\ \A i, j, k \in S : <<i, j>> \in order /\ <<j, k>> \in order => <<i, k>> \in order
  /\ \A i, j \in S : i = j \/ <<i, j>> \in order \/ <<j, i>> \in order

\* Enumerating a finite set in a linear order names every member and keeps the order.
LEMMA RankedOrders ==
  ASSUME NEW S, IsFiniteSet(S), NEW order, Linear(S, order), NEW n, n = Cardinality(S),
         NEW f, f = Ranked(S, order)
  PROVE  /\ n \in Nat /\ DOMAIN f = 1..n /\ \A r \in 1..n : f[r] \in S
         /\ \A j \in S : \E r \in 1..n : f[r] = j
         /\ \A q, r \in 1..n : q < r => <<f[q], f[r]>> \in order
<1> DEFINE Before(j) == {i \in S : <<i, j>> \in order}
           Size(j) == Cardinality(Before(j))
           rank == [j \in S |-> Size(j) + 1]
<1>1. n \in Nat
  BY FS_CardinalityType
<1>2. ASSUME NEW j \in S PROVE IsFiniteSet(Before(j)) /\ Size(j) \in Nat /\ Size(j) < n
  <2>1. Before(j) \in SUBSET (S \ {j})
    BY DEF Linear
  <2>2. IsFiniteSet(S \ {j}) /\ Cardinality(S \ {j}) = n - 1
    BY FS_RemoveElement
  <2>3. IsFiniteSet(Before(j)) /\ Size(j) <= n - 1
    <3> HIDE DEF Before
    <3>1. IsFiniteSet(Before(j)) /\ Cardinality(Before(j)) <= Cardinality(S \ {j})
      BY <2>1, <2>2, FS_Subset
    <3> QED
      BY <2>2, <3>1
  <2>4. Size(j) \in Nat
    BY <2>3, FS_CardinalityType
  <2> HIDE DEF Before, Size
  <2> QED
    BY <1>1, <2>3, <2>4
<1>3. ASSUME NEW i \in S, NEW j \in S, <<i, j>> \in order PROVE Size(i) < Size(j)
  <2>1. Before(i) \in SUBSET (Before(j) \ {i}) /\ i \in Before(j)
    BY <1>3 DEF Linear
  <2> HIDE DEF Before
  <2>2. IsFiniteSet(Before(j) \ {i}) /\ Cardinality(Before(j) \ {i}) = Cardinality(Before(j)) - 1
    BY <1>2, <2>1, FS_RemoveElement
  <2>3. Cardinality(Before(i)) <= Cardinality(Before(j)) - 1
    BY <2>1, <2>2, FS_Subset
  <2>4. Size(i) \in Nat /\ Size(j) \in Nat /\ Size(i) <= Size(j) - 1
    BY <1>2, <2>3
  <2> HIDE DEF Size
  <2> QED
    BY <2>4
<1>4. ASSUME NEW i \in S, NEW j \in S, Size(i) = Size(j) PROVE i = j
  <2>1. Size(i) \in Nat /\ ~(Size(i) < Size(j)) /\ ~(Size(j) < Size(i))
    <3>1. Size(i) \in Nat
      BY <1>2
    <3> HIDE DEF Size
    <3> QED
      BY <1>4, <3>1
  <2>2. <<i, j>> \notin order /\ <<j, i>> \notin order
    BY <1>3, <2>1
  <2> QED
    BY <2>2 DEF Linear
<1> HIDE DEF Before, Size
<1>5. rank \in Injection(S, 1..n)
  <2>1. ASSUME NEW j \in S PROVE Size(j) + 1 \in 1..n
    BY <1>1, <1>2
  <2>2. ASSUME NEW i \in S, NEW j \in S, Size(i) + 1 = Size(j) + 1 PROVE i = j
    <3>1. Size(i) \in Nat /\ Size(j) \in Nat
      BY <1>2
    <3>2. Size(i) = Size(j)
      BY <2>2, <3>1
    <3> QED
      BY <1>4, <3>2
  <2>3. rank \in [S -> 1..n]
    BY <2>1
  <2>4. IsInjective(rank)
    BY <2>2 DEF IsInjective
  <2> QED
    BY <2>3, <2>4 DEF Injection
<1>6. rank \in Surjection(S, 1..n)
  <2>1. IsFiniteSet(1..n) /\ Cardinality(1..n) = n
    <3>1. 1 \in Int /\ n \in Int /\ (IF 1 > n THEN 0 ELSE n - 1 + 1) = n
      BY <1>1
    <3> QED
      BY <3>1, FS_Interval
  <2> QED
    BY <1>5, <2>1, FS_Injection
<1>7. f = [r \in 1..n |-> CHOOSE j \in S : Size(j) = r - 1]
  BY DEF Ranked, Size, Before
<1>8. ASSUME NEW r \in 1..n PROVE f[r] \in S /\ Size(f[r]) = r - 1
  <2>1. PICK j \in S : rank[j] = r
    BY <1>6 DEF Surjection
  <2>2. Size(j) = r - 1
    BY <1>2, <2>1
  <2> QED
    BY <1>7, <2>2
<1>9. ASSUME NEW j \in S PROVE \E r \in 1..n : f[r] = j
  <2> DEFINE r == Size(j) + 1
  <2>1. r \in 1..n /\ r - 1 = Size(j)
    BY <1>1, <1>2
  <2> HIDE DEF r
  <2>2. f[r] \in S /\ Size(f[r]) = Size(j)
    BY <1>8, <2>1
  <2> QED
    BY <1>4, <2>1, <2>2
<1>10. ASSUME NEW q \in 1..n, NEW r \in 1..n, q < r PROVE <<f[q], f[r]>> \in order
  <2>1. f[q] \in S /\ f[r] \in S /\ Size(f[q]) = q - 1 /\ Size(f[r]) = r - 1
    BY <1>8
  <2>2. Size(f[q]) # Size(f[r]) /\ ~(Size(f[r]) < Size(f[q]))
    BY <1>10, <2>1
  <2>3. f[q] # f[r] /\ <<f[r], f[q]>> \notin order
    BY <1>3, <2>1, <2>2
  <2> QED
    BY <2>1, <2>3 DEF Linear
<1> QED
  BY <1>1, <1>7, <1>8, <1>9, <1>10

\* n findings, and n of anything.
Scored(s, n) == n \in Nat /\ DOMAIN s = 1..n /\ \A i \in 1..n : s[i].risk_score \in Nat
Indexed(s, n) == n \in Nat /\ DOMAIN s = 1..n

\* t has what s has, the highest score first.
Sorts(t, s, n) ==
  /\ t = [r \in 1..n |-> t[r]]
  /\ \A i \in 1..n : \E r \in 1..n : t[r] = s[i]
  /\ \A r \in 1..n : \E i \in 1..n : t[r] = s[i]
  /\ \A q, r \in 1..n : q < r => t[q].risk_score >= t[r].risk_score

\* So does the report.
LEMMA ByRiskSorts ==
  ASSUME NEW s, NEW n, Scored(s, n)
  PROVE  Sorts(ByRisk(s), s, n)
<1> USE DEF Scored
<1> DEFINE t == ByRisk(s)
<1> DEFINE order == WorseFirst(s)
           f == Ranked(1..n, order)
<1>1. IsFiniteSet(1..n) /\ Cardinality(1..n) = n
  <2>1. 1 \in Int /\ n \in Int /\ (IF 1 > n THEN 0 ELSE n - 1 + 1) = n
    OBVIOUS
  <2> QED
    BY <2>1, FS_Interval
<1>2. \A i, j \in 1..n : <<i, j>> \in order <=>
        s[i].risk_score > s[j].risk_score \/ (s[i].risk_score = s[j].risk_score /\ i < j)
  BY DEF WorseFirst
<1> HIDE DEF order
<1>3. Linear(1..n, order)
  <2>1. \A i \in 1..n : <<i, i>> \notin order
    BY <1>2
  <2>2. ASSUME NEW i \in 1..n, NEW j \in 1..n, NEW k \in 1..n, <<i, j>> \in order, <<j, k>> \in order
        PROVE  <<i, k>> \in order
    <3>1. /\ s[i].risk_score > s[j].risk_score \/ (s[i].risk_score = s[j].risk_score /\ i < j)
          /\ s[j].risk_score > s[k].risk_score \/ (s[j].risk_score = s[k].risk_score /\ j < k)
      BY <1>2, <2>2
    <3>2. s[i].risk_score > s[k].risk_score \/ (s[i].risk_score = s[k].risk_score /\ i < k)
      BY <3>1
    <3> QED
      BY <1>2, <3>2
  <2>3. ASSUME NEW i \in 1..n, NEW j \in 1..n PROVE i = j \/ <<i, j>> \in order \/ <<j, i>> \in order
    BY <1>2
  <2> QED
    BY <2>1, <2>2, <2>3 DEF Linear
<1>4. /\ DOMAIN f = 1..n /\ \A r \in 1..n : f[r] \in 1..n
      /\ \A j \in 1..n : \E r \in 1..n : f[r] = j
      /\ \A q, r \in 1..n : q < r => <<f[q], f[r]>> \in order
  <2> DEFINE D == 1..n
  <2>1. IsFiniteSet(D) /\ n = Cardinality(D) /\ Linear(D, order) /\ f = Ranked(D, order)
    BY <1>1, <1>3
  <2> HIDE DEF D, f
  <2>2. /\ DOMAIN f = 1..n /\ \A r \in 1..n : f[r] \in D
        /\ \A j \in D : \E r \in 1..n : f[r] = j
        /\ \A q, r \in 1..n : q < r => <<f[q], f[r]>> \in order
    BY <2>1, RankedOrders
  <2> QED
    BY <2>2 DEF D
<1>5. t = [r \in 1..n |-> s[f[r]]]
  BY DEF ByRisk, order
<1> HIDE DEF f
<1>6. ASSUME NEW q \in 1..n, NEW r \in 1..n, q < r PROVE t[q].risk_score >= t[r].risk_score
  <2>1. f[q] \in 1..n /\ f[r] \in 1..n /\ <<f[q], f[r]>> \in order
    BY <1>4, <1>6
  <2>2. s[f[q]].risk_score >= s[f[r]].risk_score
    BY SMTT(30), <1>2, <2>1
  <2> QED
    BY <1>5, <2>2
<1>7. t = [r \in 1..n |-> t[r]] /\ \A r \in 1..n : t[r] = s[f[r]]
  BY <1>5
<1>8. \A i \in 1..n : \E r \in 1..n : t[r] = s[i]
  <2> TAKE i \in 1..n
  <2>1. PICK r \in 1..n : f[r] = i
    BY <1>4
  <2> QED
    BY <1>7, <2>1
<1> QED
  BY <1>4, <1>6, <1>7, <1>8 DEF Sorts

\* Of what is selected the first max are given: a member is among them, or they are all
\* from positions before it.
LEMMA ChosenGives ==
  ASSUME NEW s, NEW n, Indexed(s, n), NEW S \in SUBSET (1..n), NEW r \in S, NEW max \in Nat,
         NEW given, given = FirstOf(Chosen(s, S), max)
  PROVE  \/ \E j \in DOMAIN given : given[j] = s[r]
         \/ /\ Len(given) = max
            /\ \A j \in DOMAIN given : \E k \in S : k < r /\ given[j] = s[k]
<1> USE DEF Indexed
<1> DEFINE order == {p \in S \X S : p[1] < p[2]}
           f == Ranked(S, order)
           c == Cardinality(S)
           all == Chosen(s, S)
           m == IF c < max THEN c ELSE max
<1>1. IsFiniteSet(S)
  <2>1. IsFiniteSet(1..n)
    BY FS_Interval
  <2> QED
    BY <2>1, FS_Subset
<1>2. \A i, j \in S : <<i, j>> \in order <=> i < j
  OBVIOUS
<1> HIDE DEF order
<1>3. Linear(S, order)
  BY <1>2 DEF Linear
<1>4. /\ c \in Nat /\ DOMAIN f = 1..c /\ \A q \in 1..c : f[q] \in S
      /\ \A j \in S : \E q \in 1..c : f[q] = j
      /\ \A p, q \in 1..c : p < q => <<f[p], f[q]>> \in order
  BY <1>1, <1>3, RankedOrders
<1>5. all = [q \in 1..c |-> s[f[q]]]
  BY DEF Chosen, order
<1> HIDE DEF f, c, all
<1> DEFINE X == {s[i] : i \in 1..n}
<1>6. all \in Seq(X) /\ Len(all) = c
  <2>1. \A q \in 1..c : s[f[q]] \in X
    BY <1>4
  <2> HIDE DEF X
  <2> QED
    BY <1>4, <1>5, <2>1
<1> HIDE DEF X
<1>7. given \in Seq(X) /\ Len(given) = m /\ \A j \in 1..m : given[j] = all[j]
  <2>1. m \in Nat /\ m <= Len(all)
    BY <1>4, <1>6
  <2>2. given = SubSeq(all, 1, m)
    BY <1>6 DEF FirstOf, all
  <2> HIDE DEF m
  <2>3. \A i \in 1..m : all[i] \in X
    BY <1>6, <2>1
  <2>4. /\ given \in Seq(X) /\ Len(given) = IF 1 <= m THEN m - 1 + 1 ELSE 0
        /\ \A i \in 1..m - 1 + 1 : given[i] = all[1 + i - 1]
    BY <2>1, <2>2, <2>3, SubSeqProperties
  <2> QED
    BY <2>1, <2>4
<1>8. PICK q \in 1..c : f[q] = r
  BY <1>4
<1>9. CASE q <= m
  <2>1. q \in 1..m /\ q \in DOMAIN given
    BY <1>4, <1>7, <1>9
  <2>2. given[q] = s[r]
    BY <1>5, <1>7, <1>8, <2>1
  <2> QED
    BY <2>1, <2>2
<1>10. CASE ~(q <= m)
  <2>1. m = max /\ max < q
    BY <1>4, <1>10
  <2>2. ASSUME NEW j \in DOMAIN given PROVE \E k \in S : k < r /\ given[j] = s[k]
    <3>1. j \in 1..m /\ j \in 1..c /\ j < q
      BY <1>4, <1>7, <2>1
    <3>2. <<f[j], f[q]>> \in order /\ f[j] \in S /\ given[j] = s[f[j]]
      BY <1>4, <1>5, <1>7, <3>1
    <3>3. f[j] < r
      BY <1>2, <1>8, <3>2
    <3> QED
      BY <3>2, <3>3
  <2> QED
    BY <1>7, <2>1, <2>2
<1> QED
  BY <1>9, <1>10

-----------------------------------------------------------------------------
(* The report                                                              *)

\* Where aggregate() finds the findings of the three detectors.
All(others) ==
  LET found(type, n, score) ==
        [type |-> type, update |-> n, risk_score |-> score, risk_level |-> RiskLevel(score)]
  IN  [i \in DOMAIN others |-> found("other", 0, others[i])]
      \o [i \in DOMAIN findings |-> found("bgp_hijack", findings[i].update, findings[i].risk_score)]

LEMMA ReportFindings == ASSUME NEW others PROVE Report(others).findings = ByRisk(All(others))
  BY DEF Report, All

\* They are all there, with their scores.
LEMMA AllTyped ==
  ASSUME findings \in Seq(Finding), NEW m \in Nat, NEW others \in [1..m -> OtherScores],
         NEW s, s = All(others), NEW n, n = m + Len(findings)
  PROVE  /\ n \in Nat /\ DOMAIN s = 1..n
         /\ \A i \in 1..n : s[i].risk_score \in Nat /\ s[i].risk_level = RiskLevel(s[i].risk_score)
         /\ \A i \in DOMAIN findings :
              \E j \in 1..n : /\ s[j].type = "bgp_hijack" /\ s[j].update = findings[i].update
                              /\ s[j].risk_score = findings[i].risk_score
<1> DEFINE found(type, k, score) ==
             [type |-> type, update |-> k, risk_score |-> score, risk_level |-> RiskLevel(score)]
           other == [i \in DOMAIN others |-> found("other", 0, others[i])]
           bgp == [i \in DOMAIN findings |->
                     found("bgp_hijack", findings[i].update, findings[i].risk_score)]
           l == Len(findings)
           Found == {f \in [type : {"other", "bgp_hijack"}, update : Nat, risk_score : Nat,
                            risk_level : {RiskLevel(x) : x \in Nat}] :
                       f.risk_level = RiskLevel(f.risk_score)}
<1>1. l \in Nat /\ DOMAIN findings = 1..l /\ DOMAIN others = 1..m
  OBVIOUS
<1>2. ASSUME NEW i \in 1..m PROVE found("other", 0, others[i]) \in Found
  <2>1. others[i] \in Nat
    <3>1. others[i] \in OtherScores
      OBVIOUS
    <3>2. others[i] \in 0..100
      BY <3>1, ReportAssumption DEF ReportAssumption
    <3>3. \A x \in 0..100 : x \in Nat
      OBVIOUS
    <3> QED
      BY <3>2, <3>3
  <2> QED
    BY <2>1
<1>3. ASSUME NEW i \in 1..l PROVE found("bgp_hijack", findings[i].update, findings[i].risk_score) \in Found
  <2>1. findings[i] \in Finding
    BY <1>1
  <2>2. findings[i].update \in Nat /\ findings[i].risk_score \in Nat
    <3>1. findings[i].update \in 1..MaxUpdates /\ findings[i].risk_score \in 0..100
      BY <2>1 DEF Finding
    <3>2. (\A x \in 0..100 : x \in Nat) /\ \A x \in 1..MaxUpdates : x \in Nat
      BY Bounds
    <3> QED
      BY <3>1, <3>2
  <2> QED
    BY <2>2
<1>4. other \in Seq(Found) /\ Len(other) = m
  <2> HIDE DEF Found, found
  <2> QED
    BY <1>1, <1>2
<1>5. bgp \in Seq(Found) /\ Len(bgp) = l
  <2> HIDE DEF Found, found, l
  <2> QED
    BY <1>1, <1>3
<1>6. s = other \o bgp
  BY DEF All
<1>7. \A i \in 1..l : bgp[i] = found("bgp_hijack", findings[i].update, findings[i].risk_score)
  BY <1>1
<1> HIDE DEF Found, found, other, bgp, l
<1>8. /\ s \in Seq(Found) /\ Len(s) = n
      /\ \A i \in 1..n : s[i] = IF i <= m THEN other[i] ELSE bgp[i - m]
  <2>1. /\ s \in Seq(Found) /\ Len(s) = Len(other) + Len(bgp)
        /\ \A i \in 1..Len(other) + Len(bgp) :
             s[i] = IF i <= Len(other) THEN other[i] ELSE bgp[i - Len(other)]
    BY ZenonT(30), <1>4, <1>5, <1>6, ConcatProperties
  <2>2. n = m + l
    BY DEF l
  <2> QED
    BY <1>4, <1>5, <2>1, <2>2
<1>9. n \in Nat /\ DOMAIN s = 1..n /\ n = m + l
  BY <1>1, <1>8 DEF l
<1>10. \A i \in 1..n : s[i].risk_score \in Nat /\ s[i].risk_level = RiskLevel(s[i].risk_score)
  <2> TAKE i \in 1..n
  <2>1. s[i] \in Found
    BY <1>8, <1>9
  <2> QED
    BY <2>1 DEF Found
<1>11. ASSUME NEW i \in DOMAIN findings
       PROVE  \E j \in 1..n : /\ s[j].type = "bgp_hijack" /\ s[j].update = findings[i].update
                              /\ s[j].risk_score = findings[i].risk_score
  <2>1. i \in 1..l
    BY <1>1
  <2> DEFINE j == m + i
  <2>2. j \in 1..n /\ ~(j <= m) /\ j - m = i
    BY <1>1, <1>9, <2>1
  <2> HIDE DEF j
  <2>3. s[j] = found("bgp_hijack", findings[i].update, findings[i].risk_score)
    BY <1>7, <1>8, <2>1, <2>2
  <2> QED
    BY <2>2, <2>3 DEF found
<1> QED
  BY <1>9, <1>10, <1>11

-----------------------------------------------------------------------------
(* What is given to the agent                                              *)

\* Whatever a tool selects, if it selects all that is critical.
LEMMA CriticalReaches ==
  ASSUME findings \in Seq(Finding), NEW m \in Nat, NEW others \in [1..m -> OtherScores],
         NEW t, t = ByRisk(All(others)), NEW max \in Nat, NEW S \in SUBSET DOMAIN t,
         \A r \in DOMAIN t : t[r].risk_score >= 80 => r \in S,
         NEW given, given = FirstOf(Chosen(t, S), max),
         NEW i \in DOMAIN findings, findings[i].risk_score >= 80
  PROVE  Reaches(i, given, max)
<1> DEFINE s == All(others)
           n == m + Len(findings)
<1>1. /\ n \in Nat /\ DOMAIN s = 1..n /\ \A j \in 1..n : s[j].risk_score \in Nat
  BY AllTyped
<1>2. PICK j \in 1..n : /\ s[j].type = "bgp_hijack" /\ s[j].update = findings[i].update
                        /\ s[j].risk_score = findings[i].risk_score
  BY AllTyped
<1> HIDE DEF s, n
<1>3. /\ t = [r \in 1..n |-> t[r]]
      /\ \A k \in 1..n : \E r \in 1..n : t[r] = s[k]
      /\ \A q, r \in 1..n : q < r => t[q].risk_score >= t[r].risk_score
  <2>1. t = ByRisk(s)
    BY DEF s
  <2>2. Scored(s, n)
    BY <1>1 DEF Scored
  <2>3. Sorts(t, s, n)
    BY <2>1, <2>2, ByRiskSorts
  <2> QED
    BY <2>3 DEF Sorts
<1>4. PICK r \in 1..n : t[r] = s[j]
  BY <1>3
<1>5. DOMAIN t = 1..n
  BY <1>3
<1>6. r \in S /\ S \in SUBSET (1..n)
  BY <1>2, <1>4, <1>5
<1>7. \/ \E k \in DOMAIN given : given[k] = t[r]
      \/ /\ Len(given) = max
         /\ \A k \in DOMAIN given : \E q \in S : q < r /\ given[k] = t[q]
  <2>1. Indexed(t, n)
    BY <1>1, <1>5 DEF Indexed
  <2> QED
    BY <1>6, <2>1, ChosenGives
<1>8. CASE \E k \in DOMAIN given : given[k] = t[r]
  BY <1>2, <1>4, <1>8 DEF Reaches
<1>9. CASE /\ Len(given) = max
           /\ \A k \in DOMAIN given : \E q \in S : q < r /\ given[k] = t[q]
  <2>1. ASSUME NEW k \in DOMAIN given PROVE given[k].risk_score >= findings[i].risk_score
    <3>1. PICK q \in S : q < r /\ given[k] = t[q]
      BY <1>9
    <3>2. t[q].risk_score >= t[r].risk_score
      BY <1>3, <1>6, <3>1
    <3> QED
      BY <1>2, <1>4, <3>1, <3>2
  <2> QED
    BY <1>9, <2>1 DEF Reaches
<1> QED
  BY <1>7, <1>8, <1>9

-----------------------------------------------------------------------------
(* The invariant                                                           *)

\* A hijack has its 90 points.
HijackScored ==
  \A i \in DOMAIN findings : "hijack" \in findings[i].attck_tags => findings[i].risk_score >= 80

\* The report is made of the findings, which stay what they are.
Made ==
  Aggregated =>
    pc = "done" /\ \E n \in 0..MaxOthers : \E others \in [1..n -> OtherScores] : report = Report(others)

ReportInv == TypeInv /\ HijackScored /\ Made

LEMMA ScoredStep == TypeInv /\ HijackScored /\ [Next]_vars => HijackScored'
<1> SUFFICES ASSUME TypeInv, HijackScored, [Next]_vars PROVE HijackScored'
  OBVIOUS
<1>1. CASE findings' = findings
  BY <1>1 DEF HijackScored
<1>2. CASE Conclude /\ reasons # <<>>
  <2> DEFINE f == [announced_prefix |-> cidr, origin_asn |-> Origin(update), rpki_status |-> rpki,
                   reasons |-> reasons, attck_tags |-> TagsOf(reasons),
                   risk_score |-> Score(reasons), update |-> number]
  <2>1. findings' = Append(findings, f)
    BY <1>2 DEF Conclude
  <2>2. f.attck_tags = TagsOf(reasons) /\ f.risk_score = Score(reasons)
    OBVIOUS
  <2>3. reasons \in Seq(Kinds \X Prefixes) /\ findings \in Seq(Finding)
    BY DEF TypeInv, TypeOK, Kinds
  <2>4. "hijack" \in TagsOf(reasons) => \E j \in DOMAIN reasons : reasons[j][1] = "invalid"
    BY DEF TagsOf
  <2>5. "hijack" \in TagsOf(reasons) => Score(reasons) >= 80
    <3>1. Score(reasons) \in 0..100 /\ ((\E j \in DOMAIN reasons : reasons[j][1] = "invalid") => Score(reasons) >= 90)
      BY <2>3, ScoreTyped
    <3> QED
      BY <2>4, <3>1
  <2> HIDE DEF f
  <2>6. ASSUME NEW i \in DOMAIN findings', "hijack" \in findings'[i].attck_tags
        PROVE  findings'[i].risk_score >= 80
    <3>1. CASE i \in DOMAIN findings
      <4>1. findings'[i] = findings[i]
        BY <2>1, <2>3, <3>1
      <4> QED
        BY <2>6, <3>1, <4>1 DEF HijackScored
    <3>2. CASE i \notin DOMAIN findings
      <4>1. findings'[i] = f
        BY <2>1, <2>3, <3>2
      <4> QED
        BY <2>2, <2>5, <2>6, <4>1
    <3> QED
      BY <3>1, <3>2
  <2> QED
    BY <2>6 DEF HijackScored
<1>3. findings' = findings \/ (Conclude /\ reasons # <<>>)
  BY DEF Next, vars, NextUpdate, SkipPrefix, UseCached, AskService, ServiceDecides, StoreAnswer,
         AnswerUnreadable, Conclude, EndOfCapture, Tick, ChangeRoa
<1> QED
  BY <1>1, <1>2, <1>3

\* The analysis is over when the report is made.
LEMMA Over ==
  ASSUME pc = "done", [Next]_vars PROVE UNCHANGED <<pc, findings>>
  BY DEF Next, vars, NextUpdate, SkipPrefix, UseCached, AskService, ServiceDecides, StoreAnswer,
         AnswerUnreadable, Conclude, EndOfCapture, Tick, ChangeRoa, Looked

LEMMA ReportStep == ReportInv /\ [NextReport]_<<vars, report>> => ReportInv'
<1> SUFFICES ASSUME ReportInv, [NextReport]_<<vars, report>> PROVE ReportInv'
  OBVIOUS
<1>1. [Next]_vars
  BY DEF NextReport, Aggregate
<1>2. TypeInv'
  BY <1>1, TypeStep DEF ReportInv
<1>3. HijackScored'
  BY <1>1, ScoredStep DEF ReportInv
<1>4. CASE UNCHANGED report
  <2>1. ASSUME Aggregated
        PROVE  /\ pc' = "done"
               /\ \E n \in 0..MaxOthers : \E others \in [1..n -> OtherScores] : report' = Report(others)'
    <3>1. pc = "done" /\ \E n \in 0..MaxOthers : \E others \in [1..n -> OtherScores] : report = Report(others)
      BY <2>1 DEF ReportInv, Made
    <3>2. UNCHANGED <<pc, findings>>
      BY <1>1, <3>1, Over
    <3> QED
      BY ZenonT(30), <1>4, <3>1, <3>2 DEF Report
  <2> QED
    BY <1>2, <1>3, <1>4, <2>1 DEF ReportInv, Made, Aggregated
<1>5. CASE Aggregate
  <2>1. pc' = "done" /\ UNCHANGED findings
    BY <1>5 DEF Aggregate, vars
  <2>2. \E n \in 0..MaxOthers : \E others \in [1..n -> OtherScores] : report' = Report(others)
    BY <1>5 DEF Aggregate
  <2> QED
    BY ZenonT(30), <1>2, <1>3, <2>1, <2>2 DEF ReportInv, Made, Report
<1> QED
  BY <1>4, <1>5 DEF NextReport

LEMMA ReportReaches == ReportInv => HijackReachesNarrative
<1> SUFFICES ASSUME ReportInv, Aggregated, NEW i \in DOMAIN findings, "hijack" \in findings[i].attck_tags
             PROVE  Reaches(i, Priority, PriorityMax) /\ Reaches(i, CriticalFindings, ToolMax)
  BY DEF HijackReachesNarrative
<1>1. PICK n \in 0..MaxOthers : \E others \in [1..n -> OtherScores] : report = Report(others)
  BY DEF ReportInv, Made
<1>2. PICK others \in [1..n -> OtherScores] : report = Report(others)
  BY <1>1
<1> DEFINE t == ByRisk(All(others))
<1>3. report.findings = t
  BY <1>2, ReportFindings
<1>4. findings \in Seq(Finding) /\ n \in Nat /\ PriorityMax \in Nat /\ ToolMax \in Nat
  BY ReportAssumption DEF ReportAssumption, ReportInv, TypeInv, TypeOK
<1>5. findings[i].risk_score >= 80
  BY DEF ReportInv, HijackScored
<1>6. \A r \in DOMAIN t : t[r].risk_score \in Nat
  <2> DEFINE s == All(others)
             l == n + Len(findings)
  <2>1. l \in Nat /\ DOMAIN s = 1..l /\ \A j \in 1..l : s[j].risk_score \in Nat
    BY <1>4, AllTyped
  <2> HIDE DEF s, l
  <2>2. t = ByRisk(s)
    BY DEF s
  <2> HIDE DEF t
  <2>3. DOMAIN t = 1..l /\ \A r \in 1..l : \E k \in 1..l : t[r] = s[k]
    <3>1. t = [r \in 1..l |-> t[r]] /\ \A r \in 1..l : \E k \in 1..l : t[r] = s[k]
      <4>1. Scored(s, l)
        BY <2>1 DEF Scored
      <4>2. Sorts(t, s, l)
        BY <2>2, <4>1, ByRiskSorts
      <4> QED
        BY <4>2 DEF Sorts
    <3> QED
      BY <3>1
  <2> QED
    BY <2>1, <2>3
<1> HIDE DEF t
<1>7. Reaches(i, Priority, PriorityMax)
  <2> DEFINE S == {r \in DOMAIN t : t[r].risk_level \in {"CRITICAL", "HIGH"} \/ t[r].risk_score >= 55}
  <2>1. Priority = FirstOf(Chosen(t, S), PriorityMax)
    BY <1>3 DEF Priority
  <2>2. \A r \in DOMAIN t : t[r].risk_score >= 80 => r \in S
    BY <1>6
  <2>3. S \in SUBSET DOMAIN t
    OBVIOUS
  <2> HIDE DEF S
  <2> QED
    BY <1>4, <1>5, <2>1, <2>2, <2>3, CriticalReaches DEF t
<1>8. Reaches(i, CriticalFindings, ToolMax)
  <2> DEFINE S == {r \in DOMAIN t : t[r].risk_level = "CRITICAL" \/ t[r].risk_score >= 80}
  <2>1. CriticalFindings = FirstOf(Chosen(t, S), ToolMax)
    BY <1>3 DEF CriticalFindings
  <2>2. \A r \in DOMAIN t : t[r].risk_score >= 80 => r \in S
    OBVIOUS
  <2>3. S \in SUBSET DOMAIN t
    OBVIOUS
  <2> HIDE DEF S
  <2> QED
    BY <1>4, <1>5, <2>1, <2>2, <2>3, CriticalReaches DEF t
<1> QED
  BY <1>7, <1>8

-----------------------------------------------------------------------------
(* The theorems                                                            *)

\* With the report, the detector does what it does without.
THEOREM ReportKeepsDetector == SpecReport => Spec
<1>1. InitReport => Init
  BY DEF InitReport
<1>2. [NextReport]_<<vars, report>> => [Next]_vars
  BY DEF NextReport, Aggregate
<1> QED
  BY <1>1, <1>2, PTL DEF SpecReport, Spec

\* A hijack in the report reaches the narrative and the agent, unless what they are
\* given is full of findings at least as bad, for any number of findings.
THEOREM HijacksReach == SpecReport => []HijackReachesNarrative
<1>1. InitReport => ReportInv
  BY InitTypeInv DEF InitReport, Init, ReportInv, HijackScored, Made, Aggregated
<1> QED
  BY <1>1, ReportStep, ReportReaches, PTL DEF SpecReport

=============================================================================
