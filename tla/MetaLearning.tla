---------------------------- MODULE MetaLearning ----------------------------
(***************************************************************************)
(* Meta-learning: the tracker records the outcome of every mission and     *)
(* keeps the figures of each agent and of each level of complexity, the    *)
(* engine proposes a model and a complexity to an agent and stores them as *)
(* its configuration.  All of it is in the memory of one process.          *)
(*                                                                         *)
(* The tracker appends an outcome before it counts it, and the route hands *)
(* it any JSON: an outcome whose cost or quality is no number is refused   *)
(* with a 400 when some of the figures have already moved.  A bad quality  *)
(* stays in the log and makes every later outcome of that agent fail, too. *)
(*                                                                         *)
(* Asked for the recent outcomes of all agents without a time window, the  *)
(* tracker sorts its own log, newest first; what is recorded next comes    *)
(* behind the oldest.                                                      *)
(***************************************************************************)
EXTENDS Integers, Sequences, FiniteSets, FiniteSetsExt, TLC

CONSTANTS
  Agents, Results, Complexities, Models,
  Qualities,     \* quality scores, in tenths
  Costs,         \* costs of a mission, in tenths
  Flaws,         \* fields of an outcome that may be no number: "cost", "quality"
  Window,        \* outcomes that make a trend; the code has 10
  Enough,        \* missions an analysis needs; the code has 10
  MaxOutcomes    \* bound on the log

\* What the values of the constants satisfy.
LearningAssumption ==
  /\ Window \in Nat \ {0} /\ Enough \in Nat \ {0} /\ MaxOutcomes \in Nat
  /\ Qualities \subseteq 0 .. 10 /\ Costs \subseteq Nat /\ Flaws \subseteq {"cost", "quality"}
  /\ "none" \notin Models /\ IsFiniteSet(Agents) /\ IsFiniteSet(Complexities)

VARIABLES
  outcomes,     \* the log of the tracker
  performance,  \* figures of an agent
  levels,       \* figures of a complexity: how many, and how many succeeded
  configured,   \* configurations of the engine
  recorded      \* outcomes recorded since the start or the last clear

learnVars == <<outcomes, performance, levels, configured, recorded>>

Nothing == [absent |-> TRUE]
NoFigures == [total |-> 0, succeeded |-> 0, failed |-> 0, cost |-> 0,
              levels |-> <<>>, models |-> <<>>, quality |-> 0, trend |-> "stable"]

LearnInit ==
  /\ outcomes = <<>>
  /\ performance = [a \in Agents |-> Nothing]
  /\ levels = [c \in Complexities |-> [count |-> 0, succeeded |-> 0]]
  /\ configured = [a \in Agents |-> Nothing]
  /\ recorded = 0

-----------------------------------------------------------------------------
(***************************************************************************)
(* Figures.                                                                *)
(***************************************************************************)
OfAgent(log, a) == SelectSeq(log, LAMBDA o : o.agent = a)
Successes(log) == Len(SelectSeq(log, LAMBDA o : o.result = "success"))
SumOf(log, f(_)) == MapThenSumSet(LAMBDA i : f(log[i]), DOMAIN log)
Qual(o) == o.quality
Cost(o) == o.cost

\* A dictionary of counters, in the order in which its keys came.
CountIn(d, name) ==
  IF \E i \in DOMAIN d : d[i].name = name
  THEN [i \in DOMAIN d |-> IF d[i].name = name THEN [d[i] EXCEPT !.count = @ + 1] ELSE d[i]]
  ELSE Append(d, [name |-> name, count |-> 1])
\* max(items, key = count): the first of those that were counted most often.
MostCounted(d) ==
  IF d = <<>> THEN "unknown"
  ELSE d[Min({i \in DOMAIN d : \A j \in DOMAIN d : d[j].count <= d[i].count})].name

\* _calculate_trend: the last Window outcomes of the log against those before.
Latest(log, n) == SubSeq(log, Len(log) - n + 1, Len(log))
Trend(log) ==
  LET recent == Successes(Latest(log, Window))
      previous == Successes(Latest(log, 2 * Window)) - recent
  IN IF Len(log) < 2 * Window THEN "stable"
     ELSE IF 10 * (recent - previous) > Window THEN "improving"
     ELSE IF 10 * (previous - recent) > Window THEN "declining" ELSE "stable"

-----------------------------------------------------------------------------
(***************************************************************************)
(* record_outcome: the log, then the agent, then the level of complexity,  *)
(* up to the first operation that raises.                                  *)
(***************************************************************************)
\* The qualities of an agent are added up; a bad one in the log raises.
Spoilt(log, a) == \E i \in DOMAIN log : log[i].agent = a /\ log[i].flaw = "quality"

\* _update_agent_performance, the log holding the outcome already: a cost that is
\* no number raises once the mission is counted, a bad quality before the average
\* and the trend.
Updated(p, o, log) ==
  LET costed == o.flaw # "cost"
      assessed == costed /\ ~Spoilt(log, o.agent)
      own == OfAgent(log, o.agent)
      Tick(counts) == IF costed /\ counts THEN 1 ELSE 0
  IN [total |-> p.total + 1,
      cost |-> IF costed THEN p.cost + o.cost ELSE p.cost,
      succeeded |-> p.succeeded + Tick(o.result = "success"),
      failed |-> p.failed + Tick(o.result = "failure"),
      levels |-> IF costed THEN CountIn(p.levels, o.complexity) ELSE p.levels,
      models |-> IF costed /\ o.model # "none" THEN CountIn(p.models, o.model) ELSE p.models,
      quality |-> IF assessed THEN SumOf(own, Qual) ELSE p.quality,
      trend |-> IF assessed THEN Trend(own) ELSE p.trend]

FigureOf(a) == IF performance[a] = Nothing THEN NoFigures ELSE performance[a]
Record(o) ==
  LET log == Append(outcomes, o)
      before == FigureOf(o.agent)
  IN /\ recorded < MaxOutcomes
     /\ recorded' = recorded + 1
     /\ outcomes' = log
     /\ performance' = [performance EXCEPT ![o.agent] = Updated(before, o, log)]
     /\ levels' = IF o.flaw = "cost" \/ Spoilt(log, o.agent) THEN levels
                  ELSE [levels EXCEPT ![o.complexity] =
                          [count |-> @.count + 1,
                           succeeded |-> @.succeeded + IF o.result = "success" THEN 1 ELSE 0]]
     /\ UNCHANGED configured

\* What POST /record-outcome may bring; the tracker's clock orders outcomes.
Incoming ==
  [agent : Agents, result : Results, complexity : Complexities, model : Models \cup {"none"},
   quality : Qualities, cost : Costs, flaw : Flaws \cup {"none"}, at : {recorded + 1}]

-----------------------------------------------------------------------------
(***************************************************************************)
(* Reading the log, and what the engine makes of it.                       *)
(***************************************************************************)
\* An outcome comes behind all that are newer.
Place(log, i) == Cardinality({j \in DOMAIN log : log[j].at >= log[i].at})
NewestFirst(log) == [k \in DOMAIN log |-> log[CHOOSE i \in DOMAIN log : Place(log, i) = k]]

\* get_recent_outcomes: of one agent, a copy is sorted; of all, the log itself.
ReadRecent == outcomes' = NewestFirst(outcomes)
              /\ UNCHANGED <<performance, levels, configured, recorded>>

\* The names in a log, in the order of their first outcome; "none" is skipped.
NamesOf(log, f(_)) ==
  SelectSeq([i \in DOMAIN log |->
               IF f(log[i]) = "none" \/ \E j \in 1 .. i - 1 : f(log[j]) = f(log[i])
               THEN "none" ELSE f(log[i])], LAMBDA n : n # "none")
\* The first of the names whose score, a fraction, is above 0 and highest.
BestOf(names, over(_), under(_)) ==
  LET Better(i, j) == over(names[i]) * under(names[j]) > over(names[j]) * under(names[i])
      best == {i \in DOMAIN names : over(names[i]) > 0 /\ \A j \in DOMAIN names : ~Better(j, i)}
  IN IF best = {} THEN "none" ELSE names[Min(best)]

\* _analyze_model_performance: success rate times quality, for its cost, which
\* counts as one tenth at least.
Model(o) == o.model
With(log, m) == SelectSeq(log, LAMBDA o : o.model = m)
BestModel(log) ==
  BestOf(NamesOf(log, Model),
         LAMBDA m : Successes(With(log, m)) * SumOf(With(log, m), Qual),
         LAMBDA m : Len(With(log, m)) * Max({Len(With(log, m)), SumOf(With(log, m), Cost)}))

\* _analyze_complexity_performance: the success rate.
Level(o) == o.complexity
AtLevel(log, c) == SelectSeq(log, LAMBDA o : o.complexity = c)
BestLevel(log) ==
  BestOf(NamesOf(log, Level), LAMBDA c : Successes(AtLevel(log, c)), LAMBDA c : Len(AtLevel(log, c)))

\* What the analyses read: the agent's outcomes, the newest first, which raises
\* on an outcome that has no number for its cost or its quality.
Analysed(a) == NewestFirst(OfAgent(outcomes, a))
Known(a) == performance[a] # Nothing /\ performance[a].total >= Enough
Analysable(a) == Known(a) /\ \A i \in DOMAIN Analysed(a) : Analysed(a)[i].flaw = "none"

\* _analyze_cost_efficiency and _analyze_quality, as sums and counts: the cost
\* of what succeeded and of what was wasted, and the scores above 0.
CostAnalysis(log) ==
  [spent |-> SumOf(SelectSeq(log, LAMBDA o : o.result = "success"), Cost),
   successes |-> Successes(log),
   wasted |-> SumOf(SelectSeq(log, LAMBDA o : o.result = "failure"), Cost)]
QualityAnalysis(log) ==
  [sum |-> SumOf(log, Qual), scored |-> Len(SelectSeq(log, LAMBDA o : o.quality > 0))]

\* get_recommendations
Recommended(a) ==
  LET log == Analysed(a)
      p == performance[a]
  IN {r \in {"model", "complexity", "cost", "quality"} :
        CASE r = "model" -> BestModel(log) \notin {"none", MostCounted(p.models)}
          [] r = "complexity" -> BestLevel(log) \notin {"none", MostCounted(p.levels)}
          [] r = "cost" -> p.cost > 50 * p.total
          [] r = "quality" -> p.quality < 7 * p.total}

\* auto_optimize: without enough outcomes a default is answered and nothing is
\* stored.
Optimize(a) ==
  /\ Analysable(a)
  /\ LET log == Analysed(a) IN
     configured' = [configured EXCEPT ![a] =
       [model |-> BestModel(log), complexity |-> BestLevel(log), cost |-> CostAnalysis(log),
        quality |-> QualityAnalysis(log), advice |-> Recommended(a)]]
  /\ UNCHANGED <<outcomes, performance, levels, recorded>>

\* Mutant: the figures of the levels of complexity are not cleared.
ClearAgents ==
  /\ outcomes' = <<>> /\ recorded' = 0
  /\ performance' = [a \in Agents |-> Nothing]
  /\ UNCHANGED <<levels, configured>>
\* clear_data; the engine keeps its configurations.
ClearData ==
  /\ outcomes' = <<>> /\ recorded' = 0
  /\ performance' = [a \in Agents |-> Nothing]
  /\ levels' = [c \in Complexities |-> [count |-> 0, succeeded |-> 0]]
  /\ UNCHANGED configured

LearnNext ==
  \/ \E o \in Incoming : Record(o)
  \/ ReadRecent
  \/ \E a \in Agents : Optimize(a)
  \/ ClearData

LearnSpec == LearnInit /\ [][LearnNext]_learnVars

-----------------------------------------------------------------------------
\* get_system_insights, /stats and get_complexity_insights.
TotalOf(f) == MapThenSumSet(LAMBDA x : f[x], DOMAIN f)
SystemTotals ==
  [missions |-> TotalOf([a \in Agents |-> FigureOf(a).total]),
   successes |-> TotalOf([a \in Agents |-> FigureOf(a).succeeded])]
LevelTotals ==
  [missions |-> TotalOf([c \in Complexities |-> levels[c].count]),
   successes |-> TotalOf([c \in Complexities |-> levels[c].succeeded])]

LearnTypeOK ==
  /\ Len(outcomes) = recorded
  /\ \A i \in DOMAIN outcomes : outcomes[i].agent \in Agents /\ outcomes[i].at \in 1 .. recorded
  /\ \A a \in Agents : performance[a] # Nothing =>
       /\ performance[a].succeeded + performance[a].failed <= performance[a].total
       /\ performance[a].trend \in {"improving", "declining", "stable"}
  /\ \A c \in Complexities : levels[c].succeeded <= levels[c].count

\* Whatever the order the log has been sorted into, the figures say the same:
\* each agent's are those of its outcomes in the log, the levels of complexity
\* together have as many missions and successes as all agents together, unless
\* an outcome was bad, and then never more.
StatsAgree ==
  /\ \A a \in Agents :
       LET own == {i \in DOMAIN outcomes : outcomes[i].agent = a}
           sound == {i \in own : outcomes[i].result = "success" /\ outcomes[i].flaw # "cost"}
       IN IF performance[a] = Nothing THEN own = {}
          ELSE performance[a].total = Cardinality(own) /\ performance[a].succeeded = Cardinality(sound)
  /\ SystemTotals.missions = Len(outcomes)
  /\ LevelTotals.missions <= SystemTotals.missions /\ LevelTotals.successes <= SystemTotals.successes
  /\ (\A i \in DOMAIN outcomes : outcomes[i].flaw = "none") => LevelTotals = SystemTotals

\* What the docstring of _calculate_trend says: the trend compares the agent's
\* recent missions with those before.
Chronological(log) == SortSeq(log, LAMBDA o, p : o.at < p.at)
TrendIsOfTheLatest ==
  \A a \in Agents :
    performance[a] # Nothing => performance[a].trend = Trend(Chronological(OfAgent(outcomes, a)))
=============================================================================
