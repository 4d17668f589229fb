---------------------------- MODULE RiskScoring ----------------------------
(* The tags and the risk of one asset of the registry: the rules that tag it
   from the context in which it is used (agents/compliance/contextual_tagging.py),
   the endpoints that apply, remove and list tags (api/routes/tags.py), the EU
   AI Act level that its tags map to (agents/compliance/regulatory_mapping.py),
   the weighted score with its tier (agents/compliance/risk_scoring.py), and
   who may use the asset.

   Every endpoint of tags makes a rule object of its own, with the default
   definitions: a definition that is created or deleted through the API is gone
   with the request. A context is what the definitions look at: the words found
   in the data accessed, the domain, the location and the metadata that is set.

   The score is cached on the asset for 30 days; the level is kept from the
   last assessment; tags and incidents change without touching either. Time is
   in hours and passes between handlers only. Weighted sums are multiplied by
   20, which makes all of them integers.                                    *)
EXTENDS Integers, FiniteSets, Sequences, FiniteSetsExt, TLC

CONSTANTS Contexts,      \* contexts in which the asset is used
          TagSets,       \* sets of tags that an update of the asset carries
          Tags,          \* tags whose effect is looked at
          Severities,    \* severities of the incidents that are reported
          Instants,      \* hours at which something happens
          MaxIncidents   \* bound on the incidents of a behaviour

\* What the values of the constants satisfy.
RiskAssumption ==
  /\ Severities \subseteq {"critical", "major", "minor"}
  /\ 0 \in Instants /\ Instants \subseteq Nat /\ MaxIncidents \in Nat

VARIABLES
  tags,        \* tags of the asset
  contextual,  \* names of its contextual tags
  hour,        \* the present
  level,       \* level of its last assessment, or "none"
  incidents,   \* lineage events of incidents: severity and hour
  score        \* the cached RiskScore: tier and hour, or tier "none"

tagVars == <<tags, contextual>>
assetVars == <<tagVars, level, incidents, score>>

-----------------------------------------------------------------------------
Words(l) == [condition |-> "data_accessed", patterns |-> l]
Domain(d) == [condition |-> "domain", patterns |-> {d}]
Location(l) == [condition |-> "location", patterns |-> {l}]
Metadata(f) == [condition |-> "metadata", patterns |-> {f}]
Rule(category, condition) == [category |-> category, conditions |-> {condition}]

Contact == {"email", "phone", "address", "name", "user", "customer"}
Health == {"patient", "medical", "health", "diagnosis"}

(* _load_default_rules, per name of the tag. *)
DataRules ==
  [pii |-> Rule("data_sensitivity", Words(Contact \cup {"ssn", "contact"})),
   phi |-> Rule("data_sensitivity", Words(Health \cup {"prescription", "treatment"})),
   financial |-> Rule("data_sensitivity", Words({"credit_card", "bank_account", "transaction",
                                                "payment", "invoice", "financial"})),
   biometric |-> Rule("data_sensitivity", Words({"fingerprint", "facial_recognition",
                                                "iris_scan", "voice_print", "biometric"})),
   healthcare |-> Rule("domain", Domain("healthcare")),
   finance |-> Rule("domain", Domain("finance"))]

UseRules ==
  [volume |-> Rule("risk_indicator", Metadata("high_volume")),
   external |-> Rule("risk_indicator", Metadata("uses_external_api")),
   facing |-> Rule("risk_indicator", Location("production")),
   decision |-> Rule("risk_indicator", Metadata("makes_decisions")),
   gdpr |-> Rule("compliance", Words(Contact)),
   hipaa |-> Rule("compliance", Words(Health)),
   sox |-> Rule("compliance", Words({"financial", "transaction", "audit", "accounting"})),
   act |-> Rule("compliance", Metadata("makes_decisions"))]

DefaultRules == DataRules @@ UseRules

(* Names that are no identifiers of TLA+. *)
Name(field) == CASE field = "volume" -> "high-volume" [] field = "external" -> "external-api"
                 [] field = "facing" -> "user-facing" [] field = "decision" -> "automated-decision"
                 [] field = "act" -> "eu-ai-act" [] OTHER -> field

\* Mutant: a single word beside the patterns hides the tag.
MatchesOnlyWords(rule, context) ==
  \A c \in rule.conditions :
    CASE c.condition = "data_accessed" -> context.data # {} /\ context.data \subseteq c.patterns
      [] c.condition = "domain" -> context.domain \in c.patterns
      [] c.condition = "location" -> context.location \in c.patterns
      [] c.condition = "metadata" -> c.patterns \subseteq context.metadata

Matches(rule, context) ==
  \A c \in rule.conditions :
    CASE c.condition = "data_accessed" -> c.patterns \cap context.data # {}
      [] c.condition = "domain" -> context.domain \in c.patterns
      [] c.condition = "location" -> context.location \in c.patterns
      [] c.condition = "metadata" -> c.patterns \subseteq context.metadata

MatchedTags(context) ==
  {Name(f) : f \in {f \in DOMAIN DefaultRules : Matches(DefaultRules[f], context)}}

TagInit == tags = {} /\ contextual = {}

(* ContextualTaggingRule.check through the endpoint: no match, no change. *)
ApplyTags(context) ==
  /\ tags' = tags \cup MatchedTags(context)
  /\ contextual' = contextual \cup MatchedTags(context)

RemoveTag(t) ==
  /\ t \in tags \cup contextual
  /\ tags' = tags \ {t}
  /\ contextual' = contextual \ {t}

(* The update of the asset in the registry replaces its list. *)
ReplaceTags(T) ==
  /\ tags' = T
  /\ UNCHANGED contextual

(* get_tag_statistics: how often each category occurs among contextual tags. *)
TagsByCategory ==
  [c \in {r.category : r \in {DefaultRules[f] : f \in DOMAIN DefaultRules}} |->
     Cardinality({f \in DOMAIN DefaultRules :
                    DefaultRules[f].category = c /\ Name(f) \in contextual})]

-----------------------------------------------------------------------------
Levels == <<"minimal", "limited", "high", "unacceptable">>
Tiers == <<"minimal", "low", "medium", "high", "critical">>
Position(s, x) == CHOOSE i \in DOMAIN s : s[i] = x

ValidFor == 30 * 24
DecayAfter == 90 * 24

(* The tags of each level; what no mapping names is minimal. *)
LevelTags ==
  [unacceptable |-> {"social-scoring", "subliminal-manipulation",
                     "real-time-biometric-public", "exploit-vulnerabilities"},
   high |-> {"medical-diagnosis", "credit-scoring", "hiring", "law-enforcement",
             "critical-infrastructure", "education-assessment",
             "employment-management", "essential-services", "biometric"},
   limited |-> {"chatbot", "emotion-recognition", "deepfake", "content-generation"}]

\* Mutant: the limited mappings are tried before the high ones.
LimitedFirst(T) ==
  CASE T \cap LevelTags.unacceptable # {} -> "unacceptable"
    [] T \cap LevelTags.unacceptable = {} /\ T \cap LevelTags.limited # {} -> "limited"
    [] T \cap (LevelTags.unacceptable \cup LevelTags.limited) = {}
         /\ T \cap LevelTags.high # {} -> "high"
    [] OTHER -> "minimal"

DetermineRiskLevel(T) ==
  LET has(l) == T \cap LevelTags[l] # {}
  IN CASE has("unacceptable") -> "unacceptable"
       [] ~has("unacceptable") /\ has("high") -> "high"
       [] ~has("unacceptable") /\ ~has("high") /\ has("limited") -> "limited"
       [] OTHER -> "minimal"

InherentScores == [none |-> 10, minimal |-> 10, limited |-> 40, high |-> 75,
                   unacceptable |-> 100]

(* DATA_SENSITIVITY_SCORES and OPERATIONAL_SCORES, each summed and capped. *)
Sensitivity(t) ==
  CASE t \in {"phi", "biometric"} -> 25 [] t \in {"pii", "financial"} -> 20
    [] t = "sensitive" -> 15 [] OTHER -> 0
Operation(t) ==
  CASE t \in {"production", "automated-decision"} -> 20
    [] t \in {"user-facing", "external-api"} -> 15
    [] t \in {"high-volume", "staging"} -> 10 [] t = "development" -> 5 [] OTHER -> 0

AtMost100(n) == IF n > 100 THEN 100 ELSE n
DataSensitivity(T) == AtMost100(MapThenSumSet(Sensitivity, T))
OperationalContext(T) == AtMost100(MapThenSumSet(Operation, T))

Severity == [critical |-> 30, major |-> 20, minor |-> 10]

(* An incident counts half once it is more than 90 days old. *)
HistoricalRisk(h) ==
  AtMost100(MapThenSumSet(
    LAMBDA i : IF h - incidents[i].at > DecayAfter
               THEN Severity[incidents[i].severity] \div 2
               ELSE Severity[incidents[i].severity],
    DOMAIN incidents))

Weighted(l, T, h) ==
  10 * InherentScores[l] + 4 * DataSensitivity(T) + 4 * OperationalContext(T)
    + 2 * HistoricalRisk(h)

RiskTier(n) ==
  CASE n >= 1600 -> "critical" [] n >= 1200 /\ n < 1600 -> "high"
    [] n >= 800 /\ n < 1200 -> "medium" [] n >= 400 /\ n < 800 -> "low"
    [] OTHER -> "minimal"

(* What calculate_risk_score stores on the asset. *)
Calculated == [tier |-> RiskTier(Weighted(level, tags, hour)), at |-> hour]

CalculateRiskScore == score' = Calculated

(* get_score answers from the cache until it expires. *)
Current == IF score.tier # "none" /\ hour <= score.at + ValidFor THEN score ELSE Calculated

GetScore == score' = Current

AuthorityLevels == 0..4

\* Mutant: oversight is enough whoever the user is.
OversightSuffices(user, l, oversight) ==
  user >= 4 \/ l \in {"none", "minimal"} \/ (l = "limited" /\ user >= 1)
    \/ (l = "high" /\ (user >= 3 \/ oversight)) 

(* AutonomousAuthorityRule: an asset that was never assessed is minimal. *)
CheckAuthority(user, l, oversight) ==
  \/ user >= 4
  \/ l = "high" /\ (user >= 3 \/ (user >= 2 /\ oversight))
  \/ l = "limited" /\ user >= 1
  \/ l \in {"minimal", "none"}

AssetInit ==
  /\ hour = 0
  /\ TagInit
  /\ level = "none"
  /\ incidents = <<>>
  /\ score = [tier |-> "none", at |-> 0]

ChangeTags ==
  /\ \/ \E c \in Contexts : ApplyTags(c)
     \/ \E t \in tags \cup contextual : RemoveTag(t)
     \/ \E T \in TagSets : ReplaceTags(T)
  /\ UNCHANGED <<hour, level, incidents, score>>

(* RegulatoryMappingRule.check takes the tags of its context, those of the
   asset if there are none, and keeps the assessment on the asset. *)
Assess(given) ==
  /\ level' = DetermineRiskLevel(IF given = {} THEN tags ELSE given)
  /\ level' # level
  /\ UNCHANGED <<hour, tagVars, incidents, score>>

ReportIncident(s) ==
  /\ Len(incidents) < MaxIncidents
  /\ incidents' = Append(incidents, [severity |-> s, at |-> hour])
  /\ UNCHANGED <<hour, tagVars, level, score>>

(* The endpoints calculate, breakdown and recalculate-all. *)
Recalculate ==
  /\ CalculateRiskScore
  /\ UNCHANGED <<hour, tagVars, level, incidents>>

(* The endpoint score. *)
AskForScore ==
  /\ GetScore
  /\ UNCHANGED <<hour, tagVars, level, incidents>>

Tick ==
  /\ \E h \in Instants : h > hour /\ hour' = h
  /\ UNCHANGED assetVars

AssetNext ==
  \/ ChangeTags
  \/ \E T \in TagSets \cup {{}} : Assess(T)
  \/ \E s \in Severities : ReportIncident(s)
  \/ Recalculate
  \/ AskForScore
  \/ Tick

(***************************************************************************)
(* Properties                                                              *)
(***************************************************************************)
AssetTypeOK ==
  /\ hour \in Instants
  /\ tags \cup contextual \subseteq STRING
  /\ level \in Range(Levels) \cup {"none"}
  /\ incidents \in Seq([severity : Severities, at : Instants])
  /\ score \in [tier : Range(Tiers) \cup {"none"}, at : Instants]

Rank(l) == IF l = "none" THEN 1 ELSE Position(Levels, l)

(* From contexts to tags, levels, caps, weights, tiers and authority: to use
   more data, or to carry one more tag, never makes an asset freer. Its tags,
   its level and its tier only grow, and the users who may use it get fewer;
   and without an assessment above minimal no tags make it high or critical. *)
NeverFreer ==
  /\ \A c \in Contexts, d \in Contexts :
       MatchedTags(c) \subseteq MatchedTags([c EXCEPT !.data = @ \cup d.data])
  /\ \A t \in Tags :
       LET more == tags \cup {t}
           before == DetermineRiskLevel(tags)
           after == DetermineRiskLevel(more)
           tier(l, set) == Position(Tiers, RiskTier(Weighted(l, set, hour)))
       IN /\ Rank(before) <= Rank(after)
          /\ tier(before, tags) <= tier(after, more)
          /\ \A u \in AuthorityLevels, o \in BOOLEAN :
               CheckAuthority(u, after, o) => CheckAuthority(u, before, o)
          /\ Rank(level) = 1 => tier(level, more) < Position(Tiers, "high")
=============================================================================
