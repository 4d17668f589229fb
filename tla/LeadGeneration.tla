--------------------------- MODULE LeadGeneration ---------------------------
(***************************************************************************)
(* LeadGenerationWorkflow: one run searches the web, optionally visits the *)
(* page of every result with the browser tool, has a model score every     *)
(* result, sorts the leads by score and cuts the list.                     *)
(*                                                                         *)
(* The visits of one run are gathered, and so are the scorings: the calls  *)
(* of different results interleave, the results keep their places.         *)
(*                                                                         *)
(* PlaywrightBrowserTool.execute launches a browser for every call, opens  *)
(* a page in it and closes it again: no page survives a call.  A tool that *)
(* fails answers the error; MCPToolBridge.call_tool raises only for a tool *)
(* that is not registered, and the browser tool always is.                 *)
(*                                                                         *)
(* Scores are hundredths.  The text of a page is named by the page.        *)
(***************************************************************************)
EXTENDS Integers, Sequences, FiniteSets, FiniteSetsExt, TLC

CONSTANTS
  Urls,        \* addresses a search may answer
  Playwright,  \* whether the playwright package is installed
  MaxLeads,    \* max_leads of the run; twice as many results are asked for
  MinScore,    \* min_score of the run
  Scores       \* scores the model may give

\* What the values of the constants satisfy.
LeadAssumption == MaxLeads \in Nat \ {0} /\ Playwright \in BOOLEAN /\ Scores \subseteq 0 .. 100

NoUrl == ""
Blank == "about:blank"
NoText == ""
NoScore == -1

VARIABLES
  phase,     \* the step of the run
  enrich,    \* whether the run was asked to visit the pages
  found,     \* raw_results: address, progress of the visit, extracted text
  score,     \* the lead made of each result, by its score
  browsed,   \* the last answer of the browser tool
  outcome    \* the LeadGenerationResult

leadVars == <<phase, enrich, found, score, browsed, outcome>>

NoOutcome == [leads |-> <<>>, found |-> 0, qualified |-> 0, error |-> FALSE]

LeadInit ==
  /\ phase = "search"
  /\ enrich \in BOOLEAN
  /\ found = <<>>
  /\ score = <<>>
  /\ browsed = [success |-> FALSE, url |-> NoUrl, text |-> NoText]
  /\ outcome = NoOutcome

-----------------------------------------------------------------------------
(***************************************************************************)
(* The browser tool.                                                       *)
(***************************************************************************)
TextOf(page) == IF page = Blank THEN NoText ELSE page

Answer(page, text) == [success |-> TRUE, url |-> page, text |-> text]
BrowserError == [success |-> FALSE, url |-> NoUrl, text |-> NoText]

\* What an action does to a page.  Clicking, typing and finding need a
\* selector, typing also a text; none of them is used by the workflow.
Dispatch(page, call) ==
  CASE call.action = "navigate"   -> IF call.url = NoUrl THEN BrowserError ELSE Answer(call.url, NoText)
    [] call.action = "get_text"   -> Answer(page, TextOf(page))
    [] call.action = "screenshot" -> Answer(page, NoText)
    [] call.action \in {"click", "find"} ->
         IF ~call.selector THEN BrowserError ELSE Answer(page, NoText)
    [] call.action = "type_text"  ->
         IF ~call.selector \/ ~call.typed THEN BrowserError ELSE Answer(page, NoText)
    [] OTHER -> BrowserError

\* execute: every call gets a page of its own.
Execute(call, fails) ==
  IF ~Playwright \/ fails THEN BrowserError ELSE Dispatch(Blank, call)

Call(action, url) == [action |-> action, url |-> url, selector |-> FALSE, typed |-> FALSE]

-----------------------------------------------------------------------------
(***************************************************************************)
(* _search: an answer that is no JSON object, an unregistered tool and an  *)
(* empty result list all end the run with an error.                        *)
(***************************************************************************)
Search ==
  /\ phase = "search"
  /\ \E n \in 0 .. 2 * MaxLeads :
       /\ found' \in [1 .. n -> [url : Urls \cup {NoUrl}, visit : {"none"}, text : {NoText}]]
       /\ score' = [i \in 1 .. n |-> NoScore]
       /\ IF n = 0
          THEN /\ phase' = "done"
               /\ outcome' = [NoOutcome EXCEPT !.error = TRUE]
          ELSE /\ phase' = IF enrich THEN "enrich" ELSE "qualify"
               /\ UNCHANGED outcome
  /\ UNCHANGED <<enrich, browsed>>

(***************************************************************************)
(* _enrich_one, one action per call of the browser.  The answer of the     *)
(* navigation is not looked at; the text is what the second call extracts. *)
(***************************************************************************)
Navigate(i) ==
  /\ phase = "enrich"
  /\ found[i].visit = "none"
  /\ found[i].url # NoUrl
  /\ \E fails \in BOOLEAN : browsed' = Execute(Call("navigate", found[i].url), fails)
  /\ found' = [found EXCEPT ![i].visit = IF browsed'.success THEN "open" ELSE "failed"]
  /\ UNCHANGED <<phase, enrich, score, outcome>>

ExtractText(i) ==
  /\ phase = "enrich"
  /\ found[i].visit \in {"open", "failed"}
  /\ \E fails \in BOOLEAN : browsed' = Execute(Call("get_text", NoUrl), fails)
  /\ found' = [found EXCEPT ![i].text = browsed'.text,
                            ![i].visit = IF found[i].visit = "open" /\ browsed'.success
                                         THEN "read" ELSE "missed"]
  /\ UNCHANGED <<phase, enrich, score, outcome>>

Enriched ==
  /\ phase = "enrich"
  /\ \A i \in DOMAIN found : found[i].url = NoUrl \/ found[i].visit \in {"read", "missed"}
  /\ phase' = "qualify"
  /\ UNCHANGED <<enrich, found, score, browsed, outcome>>

(***************************************************************************)
(* _qualify_one: the model reads the extracted text, or the snippet when   *)
(* there is none.  An answer that is no JSON scores 30, an error scores 0. *)
(***************************************************************************)
ScoreOf(reply) ==
  CASE reply = "not_json" -> 30
    [] reply = "error"    -> 0
    [] OTHER              -> reply

Qualify(i) ==
  /\ phase = "qualify"
  /\ score[i] = NoScore
  /\ \/ \E s \in Scores : score' = [score EXCEPT ![i] = s]
     \/ \E reply \in {"not_json", "error"} : score' = [score EXCEPT ![i] = ScoreOf(reply)]
  /\ UNCHANGED <<phase, enrich, found, browsed, outcome>>

-----------------------------------------------------------------------------
Lead(i) == [place |-> i, score |-> score[i]]
ByScore(leads) == SortSeq(leads, LAMBDA a, b : a.score > b.score)
Cut(leads) == SubSeq(leads, 1, Min({Len(leads), MaxLeads}))

\* Mutant: the list is cut before it is sorted.
KeptUnsorted == ByScore(Cut([i \in DOMAIN score |-> Lead(i)]))

\* Mutant: the list is not cut.
KeptWhole == ByScore([i \in DOMAIN score |-> Lead(i)])

\* The leads of a run, sorted and then cut.
Kept == Cut(ByScore([i \in DOMAIN score |-> Lead(i)]))

Finish ==
  /\ phase = "qualify"
  /\ \A i \in DOMAIN score : score[i] # NoScore
  /\ phase' = "done"
  /\ outcome' = [leads |-> Kept, found |-> Len(found), error |-> FALSE,
                 qualified |-> Cardinality({k \in DOMAIN Kept : Kept[k].score >= MinScore})]
  /\ UNCHANGED <<enrich, found, score, browsed>>

LeadNext ==
  \/ Search \/ Enriched \/ Finish
  \/ \E i \in DOMAIN found : Navigate(i) \/ ExtractText(i) \/ Qualify(i)

LeadSpec == LeadInit /\ [][LeadNext]_leadVars

-----------------------------------------------------------------------------
LeadTypeOK ==
  /\ phase \in {"search", "enrich", "qualify", "done"}
  /\ enrich \in BOOLEAN
  /\ Len(found) <= 2 * MaxLeads
  /\ DOMAIN score = DOMAIN found
  /\ outcome.found \in Nat /\ Len(outcome.leads) <= MaxLeads

\* No lead that was cut scored higher than a lead that was returned, and the
\* number of qualified leads in the answer is right although it is counted
\* after the cut.
CutKeepsTheBest ==
  phase = "done" =>
    LET places == {outcome.leads[k].place : k \in DOMAIN outcome.leads}
        good == {i \in DOMAIN score : score[i] >= MinScore}
    IN /\ \A i \in places, j \in DOMAIN score \ places : score[i] >= score[j]
       /\ outcome.qualified = Min({Cardinality(good), MaxLeads})

\* "Visit each result URL and extract page text."  The text of a result whose
\* page was opened and whose text was extracted is the text of that page.
PageTextIsExtracted ==
  \A i \in DOMAIN found : found[i].visit = "read" => found[i].text = TextOf(found[i].url)
=============================================================================
