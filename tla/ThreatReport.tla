---------------------------- MODULE ThreatReport ----------------------------
(***************************************************************************)
(* ai_pcap_analyst/aggregator.py and what langchain_agent.py reads from its *)
(* report: the findings of the three detectors are put into one report,    *)
(* and the tools of the agent and the payload of the narrative are made    *)
(* from it.  BgpHijack produces the findings about BGP; of the others only *)
(* the score matters.                                                      *)
(***************************************************************************)
EXTENDS BgpHijack

CONSTANTS
  OtherScores, \* risk scores of the findings about DNS and beaconing
  MaxOthers,   \* bound: how many there are
  ToolMax,     \* what a tool returns at most: 10
  PriorityMax  \* what goes into the narrative at most: 15

ASSUME ReportAssumption ==
  /\ OtherScores \subseteq 0..100
  /\ {MaxOthers, ToolMax, PriorityMax} \subseteq Nat

VARIABLE report  \* the dict made of the report, or <<>>

Levels == {"CRITICAL", "HIGH", "MEDIUM", "LOW"}

InitReport == Init /\ report = <<>>

-----------------------------------------------------------------------------
(* aggregate()                                                             *)

RiskLevel(score) ==
  CASE score >= 80 -> "CRITICAL" [] score >= 55 -> "HIGH" [] score >= 30 -> "MEDIUM"
    [] OTHER -> "LOW"

\* Mutant: the findings stay in the order of the detectors.
ByRiskUnsorted(s) == s

\* The members of S in an order given as a set of pairs: the r-th has r - 1 before it.
Ranked(S, order) ==
  [r \in 1..Cardinality(S) |->
     CHOOSE j \in S : Cardinality({i \in S : <<i, j>> \in order}) = r - 1]

WorseFirst(s) ==
  {p \in (DOMAIN s) \X (DOMAIN s) :
     \/ s[p[1]].risk_score > s[p[2]].risk_score
     \/ s[p[1]].risk_score = s[p[2]].risk_score /\ p[1] < p[2]}

\* The highest score first; equal scores keep their order.
ByRisk(s) == LET order == Ranked(DOMAIN s, WorseFirst(s)) IN [r \in DOMAIN s |-> s[order[r]]]

Report(others) ==
  LET found(type, n, score) ==
        [type |-> type, update |-> n, risk_score |-> score, risk_level |-> RiskLevel(score)]
      bgp == [i \in DOMAIN findings |->
                found("bgp_hijack", findings[i].update, findings[i].risk_score)]
      all == ByRisk([i \in DOMAIN others |-> found("other", 0, others[i])] \o bgp)
  IN  [findings |-> all,
       total_findings |-> Len(all),
       counts |-> [l \in Levels |-> Cardinality({i \in DOMAIN all : all[i].risk_level = l})]]

Aggregate ==
  /\ pc = "done" /\ report = <<>>
  /\ \E n \in 0..MaxOthers : \E others \in [1..n -> OtherScores] : report' = Report(others)
  /\ UNCHANGED vars

NextReport == (Next /\ UNCHANGED report) \/ Aggregate

SpecReport == InitReport /\ [][NextReport]_<<vars, report>>

-----------------------------------------------------------------------------
(* langchain_agent.py                                                      *)

FirstOf(s, n) == SubSeq(s, 1, IF Len(s) < n THEN Len(s) ELSE n)

\* A list comprehension: what is at the positions S of s.
Chosen(s, S) ==
  LET order == Ranked(S, {p \in S \X S : p[1] < p[2]})
  IN  [r \in 1..Cardinality(S) |-> s[order[r]]]

\* get_critical_findings
CriticalFindings ==
  LET all == report.findings
      critical(f) == f.risk_level = "CRITICAL" \/ f.risk_score >= 80
  IN  FirstOf(Chosen(all, {i \in DOMAIN all : critical(all[i])}), ToolMax)

\* The findings run_threat_agent sends.
Priority ==
  LET all == report.findings
      prior(f) == f.risk_level \in {"CRITICAL", "HIGH"} \/ f.risk_score >= 55
  IN  FirstOf(Chosen(all, {i \in DOMAIN all : prior(all[i])}), PriorityMax)

-----------------------------------------------------------------------------
(* Properties                                                              *)

Aggregated == report # <<>>

\* Of the findings the agent is given, at most max: the i-th of the detector is
\* among them, or max findings at least as bad are.
Reaches(i, given, max) ==
  \/ \E j \in DOMAIN given :
       given[j].type = "bgp_hijack" /\ given[j].update = findings[i].update
  \/ /\ Len(given) = max
     /\ \A j \in DOMAIN given : given[j].risk_score >= findings[i].risk_score

\* A reported hijack reaches the narrative and the tool of the agent, unless they
\* are full of findings at least as bad.
HijackReachesNarrative ==
  Aggregated =>
    \A i \in DOMAIN findings :
      "hijack" \in findings[i].attck_tags =>
        Reaches(i, Priority, PriorityMax) /\ Reaches(i, CriticalFindings, ToolMax)

=============================================================================
