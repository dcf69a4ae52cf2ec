--------------------------- MODULE GroundedAnswer ---------------------------
(***************************************************************************)
(* One call of a grounded service: ComplianceQAService.answer, or one of   *)
(* the three artifact generators (checklist, test cases, regulator         *)
(* questions), which share its skeleton.  The call redacts, screens,       *)
(* retrieves, asks the model, screens what the model wrote, audits and, if *)
(* it is an answer, hands it to a human reviewer.                          *)
(*                                                                         *)
(* Services keep no state between calls, so one call at a time is modelled *)
(* and its locals live in `call'.  Every call of a port is one action and  *)
(* may raise if the adapter bound to that port is one that can.            *)
(*                                                                         *)
(* A text is the set of marks it carries, the only thing that redaction    *)
(* and screening tell apart:                                               *)
(*   "identifier"  the user's NRIC, e-mail or phone: the local regexes     *)
(*                 and DLP see it                                          *)
(*   "name"        a person, a card, an IBAN of the user: only DLP sees it *)
(*   "attack"      what a guardrail blocks, asked or written               *)
(*   "leak"        what Model Armor de-identifies in a text that it allows *)
(***************************************************************************)
EXTENDS Deployment, FiniteSets

CONSTANTS
  Sources,      \* ids of the documents in the index
  Invented,     \* an id the model made up
  Confidences,  \* the model's confidences, in tenths
  UserTexts,    \* what users write
  ModelTexts,   \* what the model writes
  HighRisk,     \* the sources of a high-risk topic
  Environments, \* the environments a process may be started in
  MaxFaults     \* bound on the calls that raise in a request

Marks == {"identifier", "name", "attack", "leak"}
Text  == SUBSET Marks

\* What a text can only have from the user, or from a text that had it.
Personal == {"identifier", "name"}

\* The empty text, which is falsy, as opposed to a text without marks.
NoText == {"no text"}

ASSUME GroundedAnswerAssumption ==
  /\ Invented \notin Sources
  /\ Confidences \subseteq 0..10
  /\ UserTexts \subseteq Text
  /\ ModelTexts \subseteq Text
  /\ HighRisk \subseteq Sources
  /\ Environments \subseteq Environment
  /\ MaxFaults \in Nat

VARIABLES
  bound,    \* what this process bound at start-up
  pc,       \* the next step of the call, "idle" before and "done" after it
  call,     \* the locals of the call
  trail,    \* the audit rows of the call
  console,  \* the reviews that reached the console from the call
  exposed,  \* history: the marks each outside party has been shown by the call
  faults    \* calls that have raised in this request, or in this turn of the agent

serviceVars == <<bound, pc, call, trail, console, exposed, faults>>

Parties == {"guardrail", "index", "web", "model", "audit", "console"}
Nobody  == [p \in Parties |-> {}]

Unbound == [process |-> "none"]

NoCall == [kind |-> "answer", actor |-> "nobody", question |-> {}, prompt |-> {}, safe |-> {}, found |-> {},
           text |-> NoText, lead |-> NoText, cited |-> {}, confidence |-> 0, supported |-> FALSE,
           caveats |-> NoText, review |-> FALSE, outcome |-> "none", routing |-> "not_required"]

Least(a, b) == IF a <= b THEN a ELSE b

(***************************************************************************)
(* Redaction and screening, per adapter.                                   *)
(***************************************************************************)
Masked(redaction) == CASE redaction = "off"   -> {}
                       [] redaction = "regex" -> {"identifier"}
                       [] redaction \in {"dlp", "placeholder"} -> Personal

Redacted(text) == text \ Masked(bound.redaction)

Blocked(text)     == [allowed |-> FALSE, text |-> text]
Allowed(sanitized) == [allowed |-> TRUE, text |-> sanitized]

\* The local patterns decide, and the text comes back as it was.
HeuristicVerdicts(text) == {IF "attack" \in text THEN Blocked(text) ELSE Allowed(text)}

\* Mutant: what could not be screened is let through.
FailsOpen(text) == {Blocked(text), Allowed(text), Allowed(text \ {"leak"})}

\* Only a complete and clean screen allows; an incomplete one blocks anything.
ArmorVerdicts(text) ==
  {Blocked(text)} \union IF "attack" \in text THEN {} ELSE {Allowed(text), Allowed(text \ {"leak"})}

\* The gateway may leave sanitized_text out, which leaves the text as it was.
GatewayVerdicts(text) ==
  IF "attack" \in text THEN {Blocked(text)} ELSE {Allowed(text), Allowed(text \ {"leak"})}

Verdicts(text) == CASE bound.guardrail = "off"       -> {Allowed(text)}
                    [] bound.guardrail = "heuristic" -> HeuristicVerdicts(text)
                    [] bound.guardrail = "armor"     -> ArmorVerdicts(text)
                    [] bound.guardrail = "gateway"   -> GatewayVerdicts(text)
                    [] bound.guardrail = "placeholder" -> {}

\* The in-process adapters do not raise; the placeholders do nothing else.
ScreenMayRaise == bound.guardrail \in {"armor", "gateway", "placeholder"}
RedactMayRaise == bound.redaction \in {"dlp", "placeholder"}

(***************************************************************************)
(* The index, the web search, the model and the audit log, per adapter.    *)
(***************************************************************************)
\* The seeded full-text index is never empty but may match nothing; the live one
\* holds what was ingested, and refuses to answer while that is nothing.
FtsPassages     == SUBSET Sources
IndexMayRaise   == bound.index # "fts"

\* One passage per segment of a result, or one of its snippet if it has none.
SearchPassages  == SUBSET Sources

Passages == IF bound.index = "search" THEN SearchPassages ELSE FtsPassages

\* The optional search stays off where its credentials do not resolve.
OptionalQueries(text) == {{}, text}
GeminiQueries(text)   == {text}

WebQueries(text) == IF bound.search = "optional" THEN OptionalQueries(text) ELSE GeminiQueries(text)

\* A model may repeat what it was shown of the user, and cannot know the rest.
Writes(shown) == {text \in ModelTexts : text \intersect Personal \subseteq shown}

\* The structured answer of a model; one that cannot be parsed reads as an empty
\* text of confidence 0 that claims no support.
Answers(shown) == [text : Writes(shown) \union {NoText}, used : SUBSET (Sources \union {Invented}),
                   confidence : Confidences, supported : BOOLEAN]

\* The stub names every bracketed id it finds in its prompt, which holds the question too.
StubIds(found)     == {found, found \union {Invented}}
StubAnswers(found) == [text : {{}}, used : StubIds(found), confidence : {8}, supported : {TRUE}]
StubItems(found)   == [lead : {{}}, rest : {{}}, used : StubIds(found)]
StubCritiques      == [grounded : {TRUE}, confidence : {8}, caveats : {{}}]

\* The stub and the hash chain work in the process, everything else is called over a network.
ModelMayRaise == bound.model # "stub"
AuditMayRaise == bound.sink # "chain"

(***************************************************************************)
(* Grounding: citations come from what was retrieved and from nowhere else.*)
(***************************************************************************)
\* Mutant: what the model names is not looked up among the passages.
CitesWhatIsNamed(used, found) == IF used = {} THEN found ELSE used

CitationsFor(used, found) ==
  LET known == used \intersect found IN IF known = {} THEN found ELSE known

\* Mutant: the cap is above the console's threshold.
GenerousCap == 5

UnsupportedCap == 2
UngroundedCap  == 4

Replies(c) == IF bound.model = "stub" THEN StubAnswers(c.found) ELSE Answers(c.safe)

\* An answer without a text, or that claims no support, cites nothing and is capped.
Drafted(c, reply) ==
  LET supported == reply.supported /\ reply.text # NoText IN
  [c EXCEPT !.text       = IF reply.text = NoText THEN {} ELSE reply.text,
            !.supported  = supported,
            !.cited      = IF supported THEN CitationsFor(reply.used, c.found) ELSE {},
            !.confidence = IF supported THEN reply.confidence
                           ELSE Least(reply.confidence, UnsupportedCap)]

Critiques(shown) ==
  IF bound.model = "stub" THEN StubCritiques
  ELSE [grounded : BOOLEAN, confidence : Confidences, caveats : Writes(shown) \union {NoText}]

Lowered(confidence, critique) ==
  LET both == Least(confidence, critique.confidence)
  IN  IF critique.grounded THEN both ELSE Least(both, UngroundedCap)

\* An ungrounded answer always carries a caveat, a canned one if the critic wrote none.
CritiqueCaveats(critique) ==
  IF critique.caveats = NoText /\ ~critique.grounded THEN {} ELSE critique.caveats

\* A cited topic is high or it is medium; with both thresholds at high, only that counts.
HighRiskCited(cited) == cited \intersect HighRisk # {}

\* Mutant: the switch of the policy is not read.
ReviewsWhatIsListed(kind, confidence, cited) ==
  \/ kind \in bound.policy.always
  \/ confidence < bound.policy.floor
  \/ HighRiskCited(cited)

RequiresReview(kind, confidence, cited) ==
  \/ kind \in bound.policy.always
  \/ kind = "answer" /\ bound.policy.reviewAll
  \/ confidence < bound.policy.floor
  \/ HighRiskCited(cited)

(***************************************************************************)
(* The items of an artifact, taken together: their leading fields (control,*)
(* title, question), their other fields and the sources they name.  Items  *)
(* without a leading field are dropped, and the rest is rendered as one    *)
(* text for the screen; the audit row has the leading fields only.         *)
(***************************************************************************)
Items(shown) == [lead : Writes(shown) \union {NoText}, rest : Writes(shown),
                 used : SUBSET (Sources \union {Invented})]

ItemReplies(c) == IF bound.model = "stub" THEN StubItems(c.found) ELSE Items(c.safe)

Rendered(items) == IF items.lead = NoText THEN NoText ELSE items.lead \union items.rest

Artifact(c, items) ==
  [c EXCEPT !.text  = Rendered(items),
            !.lead  = items.lead,
            !.cited = IF items.lead = NoText THEN {} ELSE CitationsFor(items.used, c.found)]

-----------------------------------------------------------------------------
ServiceInit ==
  /\ bound = Unbound
  /\ pc = "boot"
  /\ call = NoCall
  /\ trail = {}
  /\ console = {}
  /\ exposed = Nobody
  /\ faults = 0

Show(party, text) == exposed' = [exposed EXCEPT ![party] = @ \union text]

\* A placeholder raises whenever it is called, the rest of what raises is counted.
CountRaise == IF bound.placeholder THEN faults' = faults
                   ELSE faults < MaxFaults /\ faults' = faults + 1

\* The call ends with an exception that no handler of the service sees.
Abort ==
  /\ pc' = "done"
  /\ call' = [call EXCEPT !.outcome = "error", !.text = NoText, !.lead = NoText,
                          !.caveats = NoText, !.cited = {}]
  /\ UNCHANGED <<bound, trail, console>>

Fail == CountRaise /\ Abort

\* Mutant: a blocked draft keeps its citations.
BlockedKeepsSources(c) == [c EXCEPT !.outcome = "blocked", !.text = NoText, !.lead = NoText,
                                    !.caveats = NoText, !.confidence = 0, !.review = TRUE]

\* An answer, or the exception of a generator, that carries nothing of the model's.
BlockedCall(c) == [c EXCEPT !.outcome = "blocked", !.text = NoText, !.lead = NoText,
                            !.caveats = NoText, !.cited = {}, !.confidence = 0, !.review = TRUE]

Begin(kind, question, actor) ==
  /\ pc' = "redact"
  /\ call' = [NoCall EXCEPT !.kind = kind, !.question = question, !.actor = actor]
  /\ trail' = {}
  /\ console' = {}
  /\ exposed' = Nobody
  /\ UNCHANGED <<bound, faults>>

\* Only the service of an answer is built with a router, and not without one.
Buildable == call.kind = "answer" => bound.builds

BuildRaises == pc = "redact" /\ ~Buildable /\ Abort /\ UNCHANGED <<exposed, faults>>

Redact ==
  /\ pc = "redact"
  /\ Buildable
  /\ bound.redaction # "placeholder"
  /\ pc' = "screen_input"
  /\ call' = [call EXCEPT !.prompt = Redacted(call.question)]
  /\ UNCHANGED <<bound, trail, console, exposed, faults>>

RedactRaises == pc = "redact" /\ Buildable /\ RedactMayRaise /\ Fail /\ UNCHANGED exposed

ScreenInput ==
  /\ pc = "screen_input"
  /\ Show("guardrail", call.prompt)
  /\ \E v \in Verdicts(call.prompt) :
       IF v.allowed THEN /\ pc' = "retrieve"
                         /\ call' = [call EXCEPT !.safe = v.text]
                    ELSE /\ pc' = "audit"
                         /\ call' = BlockedCall(call)
  /\ UNCHANGED <<bound, trail, console, faults>>

\* No passage at all: a hard refusal, audited as escalated before it is raised.
Retrieve ==
  /\ pc = "retrieve"
  /\ ~bound.placeholder
  /\ Show("index", call.safe)
  /\ \E found \in Passages :
       IF found = {}
         THEN /\ pc' = "audit"
              /\ call' = [call EXCEPT !.outcome = "refused", !.review = TRUE]
         ELSE /\ pc' = IF call.kind = "answer" /\ bound.search # "off" THEN "ground" ELSE "generate"
              /\ call' = [call EXCEPT !.found = found]
  /\ UNCHANGED <<bound, trail, console, faults>>

RetrieveRaises == pc = "retrieve" /\ IndexMayRaise /\ Fail /\ Show("index", call.safe)

\* Web evidence is secondary: whatever becomes of the search, the answer goes on.
Ground ==
  /\ pc = "ground"
  /\ pc' = "generate"
  /\ \E query \in WebQueries(call.safe) : Show("web", query)
  /\ UNCHANGED <<bound, call, trail, console, faults>>

GenerateAnswer ==
  /\ pc = "generate"
  /\ call.kind = "answer"
  /\ Show("model", call.safe)
  /\ pc' = "critique"
  /\ \E reply \in Replies(call) : call' = Drafted(call, reply)
  /\ UNCHANGED <<bound, trail, console, faults>>

\* An artifact without any item skips the screen.
GenerateArtifact(kind, items) ==
  /\ pc = "generate"
  /\ call.kind = kind
  /\ Show("model", call.safe)
  /\ call' = Artifact(call, items)
  /\ pc' = IF call'.text = NoText THEN "audit" ELSE "screen_output"
  /\ UNCHANGED <<bound, trail, console, faults>>

BuildChecklist(items)             == GenerateArtifact("checklist", items)
GenerateTestCases(items)          == GenerateArtifact("testcases", items)
GenerateRegulatorQuestions(items) == GenerateArtifact("regulator_questions", items)

GenerateRaises == pc = "generate" /\ ModelMayRaise /\ Fail /\ Show("model", call.safe)

\* The review decision is taken here, before the output is screened.
Judge(confidence, caveats) ==
  call' = [call EXCEPT !.confidence = confidence, !.caveats = caveats,
                       !.review = RequiresReview(call.kind, confidence, call.cited)]

\* A critique that raises or cannot be parsed leaves the answer as it was.
SelfCritique ==
  /\ pc = "critique"
  /\ pc' = "screen_output"
  /\ Show("model", call.safe \union call.text)
  /\ \/ \E c \in Critiques(call.safe \union call.text) : Judge(Lowered(call.confidence, c), CritiqueCaveats(c))
     \/ ModelMayRaise /\ Judge(call.confidence, NoText)
  /\ UNCHANGED <<bound, trail, console, faults>>

\* An answer takes the sanitized form of its text, an artifact keeps its own.
ScreenOutput ==
  /\ pc = "screen_output"
  /\ Show("guardrail", call.text)
  /\ \E v \in Verdicts(call.text) :
       \/ /\ ~v.allowed
          /\ pc' = "audit"
          /\ call' = BlockedCall(call)
       \/ /\ v.allowed
          /\ call.kind = "answer"
          /\ pc' = IF call.caveats = NoText THEN "audit" ELSE "screen_caveats"
          /\ call' = [call EXCEPT !.text = v.text]
       \/ /\ v.allowed
          /\ call.kind \in Artifacts
          /\ pc' = "audit"
          /\ UNCHANGED call
  /\ UNCHANGED <<bound, trail, console, faults>>

ScreenCaveats ==
  /\ pc = "screen_caveats"
  /\ Show("guardrail", call.caveats)
  /\ pc' = "audit"
  /\ \E v \in Verdicts(call.caveats) :
       call' = IF v.allowed THEN call ELSE BlockedCall(call)
  /\ UNCHANGED <<bound, trail, console, faults>>

ScreenRaises ==
  /\ \/ pc = "screen_input"   /\ Show("guardrail", call.prompt)
     \/ pc = "screen_output"  /\ Show("guardrail", call.text)
     \/ pc = "screen_caveats" /\ Show("guardrail", call.caveats)
  /\ ScreenMayRaise
  /\ Fail

Decision(c) == CASE c.outcome = "blocked"              -> "blocked"
                 [] c.outcome = "refused"              -> "escalated"
                 [] c.outcome = "none" /\ c.kind = "answer"     -> "allowed"
                 [] c.outcome = "none" /\ c.kind \in Artifacts  -> "escalated"

\* Mutant: the row has the question as it was asked.
RawRow(c) == [actor |-> c.actor, decision |-> Decision(c), prompt |-> c.question,
              response |-> IF c.kind = "answer" THEN c.text ELSE c.lead,
              cited |-> c.cited, confidence |-> c.confidence]

Row(c) == [actor |-> c.actor, decision |-> Decision(c), prompt |-> c.prompt,
           response |-> IF c.kind = "answer" THEN c.text ELSE c.lead,
           cited |-> c.cited, confidence |-> c.confidence]

\* Only an answer is handed off, and a refusal has raised by then.
AfterAudit(c) ==
  /\ pc' = IF c.kind = "answer" /\ c.outcome # "refused" /\ c.review THEN "route" ELSE "done"
  /\ call' = [c EXCEPT !.outcome = IF @ = "none" THEN "answered" ELSE @]

ShowRow(row) == Show("audit", row.prompt \union IF row.response = NoText THEN {} ELSE row.response)

Audit ==
  /\ pc = "audit"
  /\ trail' = {Row(call)}
  /\ ShowRow(Row(call))
  /\ AfterAudit(call)
  /\ UNCHANGED <<bound, console, faults>>

\* Mutant: an exception of the audit sink skips the hand-off behind it.
AuditFailureSkipsReview ==
  /\ pc = "audit"
  /\ AuditMayRaise
  /\ CountRaise
  /\ \E written \in BOOLEAN : trail' = IF written THEN {Row(call)} ELSE {}
  /\ ShowRow(Row(call))
  /\ pc' = "done"
  /\ call' = [call EXCEPT !.outcome = IF @ = "none" THEN "answered" ELSE @]
  /\ UNCHANGED <<bound, console>>

\* The audit sink's failure is suppressed; the row may have been written.
AuditRaises ==
  /\ pc = "audit"
  /\ AuditMayRaise
  /\ CountRaise
  /\ \E written \in BOOLEAN : trail' = IF written THEN {Row(call)} ELSE {}
  /\ ShowRow(Row(call))
  /\ AfterAudit(call)
  /\ UNCHANGED <<bound, console>>

\* The payload masks with patterns of its own, whatever the deployment bound;
\* the subject is the question as it was asked.
PayloadMask == {"identifier"}

HighStakes(c) == c.confidence < 4 \/ HighRiskCited(c.cited)

Review(c) == [subject |-> c.question \ PayloadMask, cited |-> c.cited,
              confidence |-> c.confidence, approvals |-> IF HighStakes(c) THEN 2 ELSE 1]

Route ==
  /\ pc = "route"
  /\ pc' = "done"
  /\ \/ /\ bound.router = "outbox" \/ (bound.router = "console" /\ bound.reachable)
        /\ console' = {Review(call)}
        /\ Show("console", Review(call).subject)
        /\ call' = [call EXCEPT !.routing = "routed"]
     \/ /\ bound.router = "off"
        /\ call' = [call EXCEPT !.routing = "off"]
        /\ UNCHANGED <<console, exposed>>
  /\ UNCHANGED <<bound, trail, faults>>

\* The console's failure is suppressed; the review may have been submitted.
RouteRaises ==
  /\ pc = "route"
  /\ bound.router = "console"
  /\ IF bound.reachable THEN CountRaise ELSE UNCHANGED faults
  /\ pc' = "done"
  /\ \E taken \in {FALSE, bound.reachable} : console' = IF taken THEN {Review(call)} ELSE {}
  /\ Show("console", Review(call).subject)
  /\ call' = [call EXCEPT !.routing = "failed"]
  /\ UNCHANGED <<bound, trail>>

Serve ==
  \/ Redact \/ ScreenInput \/ Retrieve \/ Ground \/ GenerateAnswer
  \/ /\ pc = "generate"
     /\ \E items \in ItemReplies(call) :
          BuildChecklist(items) \/ GenerateTestCases(items) \/ GenerateRegulatorQuestions(items)
  \/ SelfCritique \/ ScreenOutput \/ ScreenCaveats \/ Audit \/ Route

Raise == BuildRaises \/ RedactRaises \/ RetrieveRaises \/ GenerateRaises \/ ScreenRaises
         \/ AuditRaises \/ RouteRaises
=============================================================================
