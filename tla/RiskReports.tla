---------------------------- MODULE RiskReports ----------------------------
(* What is told about the portfolio of registered assets: the risk metrics
   (agents/compliance/risk_metrics.py), the trends and forecasts
   (agents/compliance/trend_analysis.py) and the compliance reports
   (agents/compliance/compliance_reporting.py), read through the dashboard
   (api/routes/dashboard.py).

   Asking for the score of an asset calculates and caches it when there is none
   or the cached one is older than 30 days, so reading changes what the next
   reader sees. Time is in days. Scores are whole numbers; means are multiplied
   by Unit, which every number of scores in a mean divides.                 *)
EXTENDS Integers, SequencesExt

CONSTANTS Assets,
          Profiles,       \* what an asset may be: type, status, tagged, risk
          Days,           \* days on which something happens
          Window,         \* days of history that a trend looks at
          MaxSnapshots    \* bound on the snapshots of a behaviour

Unregistered == [registered |-> FALSE]
Unscored == [at |-> -1, score |-> 0]
Unit == 12
ValidFor == 30

\* What the values of the constants satisfy.
ReportsAssumption ==
  /\ Days \subseteq Nat /\ 0 \in Days
  /\ {Window, MaxSnapshots} \subseteq Nat
  /\ \A p \in Profiles : p.risk \in 0..100 /\ p.tagged \in BOOLEAN

VARIABLES
  day,
  assets,   \* the registry; "scored" is the cached score
  history,  \* per asset: day and score at every snapshot, kept after deletion
  counts    \* day and number of assets at every snapshot

vars == <<day, assets, history, counts>>

Init ==
  /\ day = 0
  /\ assets = [a \in Assets |-> Unregistered]
  /\ history = [a \in Assets |-> <<>>]
  /\ counts = <<>>

Registered == {a \in Assets : assets[a] # Unregistered}

(* get_score. *)
Scored(a) ==
  LET cached == assets[a].scored
  IN IF cached # Unscored /\ cached.at + ValidFor >= day THEN cached
     ELSE [at |-> day, score |-> assets[a].profile.risk]

Score(a) == Scored(a).score

(* The registry once the scores of all its assets have been asked for. *)
AllScored ==
  [a \in Assets |-> IF a \in Registered THEN [assets[a] EXCEPT !.scored = Scored(a)]
                    ELSE Unregistered]

Tier(score) ==
  CASE score >= 80 -> "critical" [] score >= 60 /\ score < 80 -> "high"
    [] score >= 40 /\ score < 60 -> "medium" [] score >= 20 /\ score < 40 -> "low"
    [] OTHER -> "minimal"

OfTier(tiers) == Cardinality({a \in Registered : Tier(Score(a)) \in tiers})
SumOver(S, f(_)) == MapThenSumSet(f, S)

(***************************************************************************)
(* Metrics: all but the posture ask for every score                         *)
(***************************************************************************)
PortfolioMetrics ==
  LET n == Cardinality(Registered)
      ascending == SetToSortSeq(Registered, LAMBDA a, b : Score(a) < Score(b))
  IN [total |-> n,
      average |-> IF n = 0 THEN 0 ELSE (Unit * SumOver(Registered, Score)) \div n,
      median |-> IF n = 0 THEN 0 ELSE Score(ascending[n \div 2 + 1]),
      buckets |-> [b \in {10 * (Score(a) \div 10) : a \in Registered} |->
                     Cardinality({a \in Registered : 10 * (Score(a) \div 10) = b})],
      requiringApproval |-> OfTier({"medium", "high", "critical"})]

TopRisks(limit) ==
  LET descending == SetToSortSeq(Registered, LAMBDA a, b : Score(a) > Score(b))
  IN SubSeq(descending, 1, IF Len(descending) < limit THEN Len(descending) ELSE limit)

Heatmap ==
  [cell \in {<<assets[a].profile.type, Tier(Score(a))>> : a \in Registered} |->
     Cardinality({a \in Registered : <<assets[a].profile.type, Tier(Score(a))>> = cell})]

RiskDistribution == [t \in {Tier(Score(a)) : a \in Registered} |-> OfTier({t})]

ApprovalQueueStats ==
  [none |-> OfTier({"minimal"}), operator |-> OfTier({"low"}), admin |-> OfTier({"medium"}),
   compliance |-> OfTier({"high", "critical"})]

(* The posture looks at the cached scores of a registry without asking. *)
Posture(registry) ==
  LET present == {a \in Assets : registry[a] # Unregistered}
      assessed == {a \in present : registry[a].scored # Unscored}
  IN [total |-> Cardinality(present), assessed |-> Cardinality(assessed),
      gaps |-> Cardinality(present)
                 - Cardinality({a \in assessed : registry[a].profile.tagged})]

(* The buckets of scores calculated within the window. *)
RiskTrends(bucketDays) ==
  LET recent == {a \in Registered : Scored(a).at >= day - Window}
  IN [b \in {Scored(a).at \div bucketDays : a \in recent} |->
        Cardinality({a \in recent : Scored(a).at \div bucketDays = b})]

(***************************************************************************)
(* Trends                                                                  *)
(***************************************************************************)
Since(series) == SelectSeq(series, LAMBDA p : p.at >= day - Window)
Now(value) == <<[at |-> day, value |-> value]>>

AssetSeries(a) ==
  LET recent == Since(history[a])
      n == Cardinality(Registered)
  IN IF recent # <<>> THEN [i \in DOMAIN recent |-> [at |-> recent[i].at, value |-> Unit * recent[i].value]]
     ELSE Now(IF n = 0 THEN 0 ELSE (Unit * SumOver(Registered, Score)) \div n)

(* The mean over all the scores snapshot on a day, of assets deleted since too. *)
PortfolioSeries ==
  LET points == {<<a, i>> : a \in Assets, i \in 1..MaxSnapshots}
      recent == {p \in points : p[2] \in DOMAIN history[p[1]] /\ history[p[1]][p[2]].at >= day - Window}
      value(p) == history[p[1]][p[2]].value
      on(d) == {p \in recent : history[p[1]][p[2]].at = d}
      dates == SetToSortSeq({history[p[1]][p[2]].at : p \in recent}, <)
      n == Cardinality(Registered)
  IN IF dates # <<>>
     THEN [i \in DOMAIN dates |->
             [at |-> dates[i],
              value |-> (Unit * SumOver(on(dates[i]), value)) \div Cardinality(on(dates[i]))]]
     ELSE Now(IF n = 0 THEN 0 ELSE (Unit * SumOver(Registered, Score)) \div n)

GrowthSeries ==
  IF Since(counts) # <<>> THEN Since(counts) ELSE Now(Cardinality(Registered))

(* No snapshot records approvals, so that this is always the present. *)
ApprovalSeries == Now(OfTier({"medium", "high", "critical"}))

Total(series, f(_)) == SumOver(DOMAIN series, f)

MovingAverage(series, days) ==
  [i \in DOMAIN series |->
     LET near == {j \in DOMAIN series : series[j].at \in (series[i].at - days)..series[i].at}
         v(j) == series[j].value
     IN [total |-> SumOver(near, v), of |-> Cardinality(near)]]

Velocity(series) ==
  LET first == series[1]
      last == series[Len(series)]
  IN IF Len(series) < 2 \/ last.at = first.at THEN [change |-> 0, over |-> 1]
     ELSE [change |-> last.value - first.value, over |-> last.at - first.at]

\* Mutant: the days are counted from the first point, not from the last.
ForecastFromTheStart(series, days) ==
  LET n == Len(series)
      x(i) == series[i].at - series[1].at
      y(i) == series[i].value
      xx(i) == x(i) * x(i)
      xy(i) == x(i) * y(i)
      spread == n * Total(series, xx) - Total(series, x) * Total(series, x)
      slope == n * Total(series, xy) - Total(series, x) * Total(series, y)
      value == Total(series, y) * spread + slope * (n * days - Total(series, x))
  IN CASE n < 2 -> [value |-> y(1), of |-> 1]
       [] n >= 2 /\ spread = 0 -> [value |-> Total(series, y), of |-> n]
       [] OTHER -> [value |-> IF value < 0 THEN 0 ELSE value, of |-> n * spread]

(* The least squares line at "days" after the last point, as a fraction; what
   would be negative is zero.                                                *)
Forecast(series, days) ==
  LET n == Len(series)
      x(i) == series[i].at - series[1].at
      y(i) == series[i].value
      xx(i) == x(i) * x(i)
      xy(i) == x(i) * y(i)
      spread == n * Total(series, xx) - Total(series, x) * Total(series, x)
      slope == n * Total(series, xy) - Total(series, x) * Total(series, y)
      value == Total(series, y) * spread
                 + slope * (n * (x(n) + days) - Total(series, x))
  IN CASE n < 2 -> [value |-> y(1), of |-> 1]
       [] n >= 2 /\ spread = 0 -> [value |-> Total(series, y), of |-> n]
       [] OTHER -> [value |-> IF value < 0 THEN 0 ELSE value, of |-> n * spread]

(***************************************************************************)
(* Reports                                                                 *)
(***************************************************************************)
(* The metrics come first, and leave no asset unassessed for the posture. *)
ExecutiveSummary ==
  [high |-> OfTier({"high", "critical"}),
   gap |-> Posture(AllScored).assessed < Posture(AllScored).total,
   requiringApproval |-> PortfolioMetrics.requiringApproval]

DetailedAudit ==
  [audited |-> Registered,
   deprecated |-> {a \in Registered : assets[a].profile.status = "deprecated"},
   untagged |-> {a \in Registered : ~assets[a].profile.tagged}]

RiskAssessment ==
  [critical |-> OfTier({"critical"}),
   highAverage |-> PortfolioMetrics.average > 60 * Unit,
   tooMany |-> 5 * OfTier({"high", "critical"}) > Cardinality(Registered)]

(***************************************************************************)
(* The specification                                                       *)
(***************************************************************************)
(* Any of the reports and metrics but the posture. *)
AskForScores ==
  /\ assets # AllScored /\ assets' = AllScored
  /\ UNCHANGED <<day, history, counts>>

RecordSnapshot ==
  /\ Len(counts) < MaxSnapshots
  /\ counts' = Append(counts, [at |-> day, value |-> Cardinality(Registered)])
  /\ history' = [a \in Assets |-> IF a \in Registered
                                  THEN Append(history[a], [at |-> day, value |-> Score(a)])
                                  ELSE history[a]]
  /\ assets' = AllScored
  /\ UNCHANGED day

(* The registry changes: an asset is registered, changes or is deleted. *)
ChangeAsset(a) ==
  /\ \/ \E p \in Profiles :
          /\ assets[a] # Unregistered => assets[a].profile # p
          /\ assets' = [assets EXCEPT ![a] =
               [registered |-> TRUE, profile |-> p,
                scored |-> IF assets[a] = Unregistered THEN Unscored ELSE assets[a].scored]]
     \/ a \in Registered /\ assets' = [assets EXCEPT ![a] = Unregistered]
  /\ UNCHANGED <<day, history, counts>>

Tick ==
  /\ \E d \in Days : d > day /\ day' = d
  /\ UNCHANGED <<assets, history, counts>>

Next ==
  \/ AskForScores \/ RecordSnapshot \/ Tick
  \/ \E a \in Assets : ChangeAsset(a)

Spec == Init /\ [][Next]_vars

(***************************************************************************)
(* Properties                                                              *)
(***************************************************************************)
TypeOK ==
  /\ day \in Days
  /\ \A a \in Registered : assets[a].profile \in Profiles /\ assets[a].scored.at <= day
  /\ Len(counts) <= MaxSnapshots
  /\ \A a \in Assets : Len(history[a]) <= MaxSnapshots

(* Snapshots lie days apart in any rhythm: a history that lies on a line is
   forecast on that line, down to nothing; one that never changed is forecast
   unchanged, and the velocity is the slope of the line.                     *)
ForecastExtendsALine ==
  \A series \in {GrowthSeries, PortfolioSeries} \cup {AssetSeries(a) : a \in Assets} :
    LET n == Len(series)
        run == series[n].at - series[1].at
        rise == series[n].value - series[1].value
        straight == \A i \in DOMAIN series :
          (series[i].value - series[1].value) * run = rise * (series[i].at - series[1].at)
        expected == series[n].value * run + rise * 30
        f == Forecast(series, 30)
    IN (n >= 2 /\ run > 0 /\ straight) =>
         /\ f.value * run = (IF expected < 0 THEN 0 ELSE expected) * f.of
         /\ Velocity(series) = [change |-> rise, over |-> run]

=============================================================================
