--------------------------- MODULE FrontDoor_types ---------------------------
(***************************************************************************)
(* The inductive invariant of FrontDoor, and the proof of its first layer. *)
(* Each layer may use those before it: what the variables are (TypeInv),   *)
(* how far a call has come (FlowInv), what its citations, rows and reviews *)
(* say (WorkInv), what marks texts have (MarksInv, ScreenInv), and who was *)
(* told what (ReplyInv, CallerInv, TurnInv).                               *)
(***************************************************************************)
EXTENDS FrontDoor, TLAPS

Answer == Text \union {NoText}

Actors    == {"nobody", "persona", "verified", "service", "operator",
              "model_named", "agent_default"}
Outcomes  == {"none", "answered", "blocked", "refused", "error"}
Routings  == {"not_required", "routed", "failed", "off"}
Decisions == {"allowed", "blocked", "escalated"}

Statuses  == {"none", "200", "401", "403", "422", "500", "503", "refused_peer", "result",
              "tool_error", "exit_0", "exit_1", "exit_2", "turn_error", "withheld", "told"}

CallRecord ==
  [kind : Kinds, actor : Actors, question : Text, prompt : Text, safe : Text,
   found : SUBSET Sources, text : Answer, lead : Answer, cited : SUBSET Sources,
   confidence : 0..10, supported : BOOLEAN, caveats : Answer, review : BOOLEAN,
   outcome : Outcomes, routing : Routings]

RowRecord == [actor : Actors, decision : Decisions, prompt : Text, response : Answer,
              cited : SUBSET Sources, confidence : 0..10]

ReviewRecord == [subject : Text, cited : SUBSET Sources, confidence : 0..10, approvals : {1, 2}]

ReplyRecord == [status : Statuses, text : Answer, caveats : Answer, cited : SUBSET Sources,
                routing : Routings \union {"undisclosed"}]

SessionRecord == [asked : Text, prompt : Text, response : Answer, blocked : BOOLEAN]

TurnRowRecord == [decision : Decisions, prompt : Text, response : Answer]

TurnRecord == [number : 0..MaxTurns, tools : 0..MaxTools, blocked : BOOLEAN, shown : Text,
               row : SUBSET TurnRowRecord]

BoundRecord ==
  [process : {"api", "mcp", "cli", "agent"}, placeholder : BOOLEAN,
   guardrail : {"heuristic", "armor", "gateway", "placeholder", "off"},
   redaction : {"regex", "dlp", "placeholder", "off"},
   router : {"outbox", "console", "placeholder", "off"},
   builds : BOOLEAN, reachable : BOOLEAN,
   index : {"fts", "live", "search", "placeholder"},
   model : {"stub", "open_weight", "gemini", "placeholder"},
   sink : {"chain", "logging", "gateway", "placeholder"},
   search : {"off", "optional", "gemini", "placeholder"},
   policy : Policy, identity : {"persona", "iap", "placeholder"},
   explicit : BOOLEAN, audience : BOOLEAN, tenants : BOOLEAN, demo : BOOLEAN]

\* What boot guarantees of the bindings: every answer is reviewed, the console that
\* is bound can be reached, and a placeholder profile screens with a placeholder.
Deployed(b) ==
  /\ b \in BoundRecord
  /\ b.policy.reviewAll
  /\ b.router = "console" => b.reachable /\ ~b.placeholder
  /\ b.placeholder => b.guardrail \in {"off", "placeholder"}

Before == {"redact", "screen_input", "retrieve", "ground", "generate"}
Writing == {"critique", "screen_output", "screen_caveats"}
Audited == {"route", "done", "replied"}
Ended   == {"done", "replied"}

BoundInv == /\ pc \in {"boot", "refused", "idle"} \union InCall \union InTurn
            /\ IF pc \in {"boot", "refused"} THEN bound = Unbound ELSE Deployed(bound)
            /\ pc = "boot" => env \in Environments
            /\ pc \in InTurn => bound.process = "agent"

\* Where a call stands says whether it has been decided.
Undecided ==
  /\ pc \in Before \union Writing => call.outcome = "none"
  /\ pc = "audit" => call.outcome \in {"none", "blocked", "refused"}
  /\ pc = "route" => call.outcome \in {"answered", "blocked"} /\ call.kind = "answer"
  /\ pc \in Ended => call.outcome # "none"

\* What is screened has been written.
Written == /\ pc \in {"critique", "screen_output", "screen_caveats"} => call.text # NoText
           /\ pc = "screen_caveats" => call.caveats # NoText

TypeInv ==
  /\ BoundInv
  /\ Undecided
  /\ Written
  /\ call \in CallRecord
  /\ trail \in SUBSET RowRecord
  /\ console \in SUBSET ReviewRecord
  /\ exposed \in [Parties -> Text]
  /\ faults \in 0..MaxFaults
  /\ caller \in [peer : Peers, credential : Credentials]
  /\ reply \in ReplyRecord
  /\ session \in SessionRecord
  /\ turn \in TurnRecord

\* Outside a call nothing is left of one.
NothingLeft == pc \notin InCall => /\ call = NoCall /\ trail = {} /\ console = {}
                                   /\ exposed = Nobody

\* A call holds nothing before a model has written something.
Unwritten == pc \in Before => /\ call.text = NoText /\ call.lead = NoText /\ call.caveats = NoText
                              /\ call.cited = {} /\ call.confidence = 0

\* Artifacts are neither criticised nor handed over.
Skipped == call.kind \in Artifacts => /\ pc \notin {"ground", "critique", "screen_caveats", "route"}
                                      /\ call.caveats = NoText

\* Every answer that gets past the critique is to be reviewed.
ToReview == /\ pc \in {"screen_output", "screen_caveats"} /\ call.kind = "answer" => call.review
            /\ pc = "audit" /\ call.kind = "answer" /\ call.outcome # "refused" => call.review

\* A blocked call carries nothing, and a placeholder profile decides nothing.
BlockedIsEmpty == call.outcome = "blocked" => /\ call.text = NoText /\ call.lead = NoText
                                              /\ call.caveats = NoText /\ call.cited = {}

PlaceholdersOnlyRaise ==
  pc \in InCall /\ bound.placeholder =>
    /\ pc \in {"redact", "screen_input", "retrieve"} \union Ended
    /\ call.outcome \in {"none", "error"}

FlowInv == NothingLeft /\ Unwritten /\ Skipped /\ ToReview /\ BlockedIsEmpty
           /\ PlaceholdersOnlyRaise

\* Citations come from the passages, and what cites nothing has a capped confidence.
Citing == /\ call.cited \subseteq call.found
          /\ pc \in {"ground", "generate"} => call.found # {}
          /\ call.kind = "answer" /\ call.cited = {} /\ call.outcome # "error" =>
               call.confidence <= UnsupportedCap

\* A row is the one of the call it is found with.
Stated(o, k) == CASE o = "answered" /\ k = "answer"     -> "allowed"
                  [] o = "answered" /\ k \in Artifacts  -> "escalated"
                  [] o = "blocked"                      -> "blocked"
                  [] o = "refused"                      -> "escalated"

LeadIsShown == call.kind \in Artifacts => call.lead \subseteq call.text

Rows == /\ pc \notin Audited \/ call.outcome = "error" => trail = {}
        /\ \A row \in trail : /\ row.actor = call.actor
                              /\ row.decision = Stated(call.outcome, call.kind)
                              /\ row.response \subseteq call.text
                              /\ row.cited = call.cited
        /\ pc \in Audited /\ call.outcome # "error" /\ faults = 0 => trail # {}

\* What became of a hand-off is what the call says of it.
HandedOver ==
  /\ call.routing # "not_required" =>
       pc \in Ended /\ call.kind = "answer" /\ call.outcome \in {"answered", "blocked"}
  /\ pc \in Ended /\ call.kind = "answer" /\ call.outcome \in {"answered", "blocked"} =>
       call.routing # "not_required"
  /\ call.routing \in {"not_required", "off"} => console = {}
  /\ call.routing = "routed" => console # {}
  /\ call.routing = "off" => bound.router = "off"
  /\ call.routing = "failed" => faults > 0

WorkInv == Citing /\ LeadIsShown /\ Rows /\ HandedOver /\ WeakAnswersNeedTwo

\* Redacted once, a text stays so, and nobody writes what was not shown to them.
Clean(text) == text \intersect Masked(bound.redaction) = {}

CallClean == /\ Clean(call.prompt) /\ Clean(call.safe)
             /\ Clean(call.text) /\ Clean(call.lead) /\ Clean(call.caveats)

ExposedClean == /\ \A p \in Parties \ {"console"} : Clean(exposed[p])
                /\ exposed["console"] \intersect PayloadMask = {}

SessionClean == /\ Clean(session.prompt) /\ Clean(session.response)
                /\ \A row \in turn.row : Clean(row.prompt) /\ Clean(row.response)

MarksInv ==
  /\ pc = "boot" => session.prompt = {} /\ session.response = NoText /\ turn.row = {}
  /\ pc \notin {"boot", "refused"} => CallClean /\ ExposedClean /\ SessionClean

\* From its screen on, a text has nothing in it that a guardrail blocks.
Screening == bound # Unbound /\ bound.guardrail # "off"

CallScreened ==
  Screening =>
    /\ pc \in {"screen_caveats", "audit"} \union Audited => ~Attacks(call.text)
    /\ pc \in {"audit"} \union Audited => ~Attacks(call.caveats)

ReplyScreened == /\ pc = "boot" => reply = NoReply
                 /\ Screening => ~Attacks(reply.text) /\ ~Attacks(reply.caveats)

ScreenInv == CallScreened /\ ReplyScreened

\* A caller of a service is told what the call holds, and that only once it is over.
ReplyInv ==
  /\ pc = "replied" =>
       /\ reply.text = call.text /\ reply.caveats = call.caveats /\ reply.cited = call.cited
       /\ reply.status \in {"200", "result", "exit_0"} => call.outcome \in {"answered", "blocked"}
  /\ reply.routing # "undisclosed" =>
       pc = "replied" /\ reply.routing = call.routing /\ call.routing # "not_required"

Vouched(actor) == \/ actor = "verified" /\ caller.credential = "assertion"
                  \/ /\ actor = "persona" /\ bound.explicit
                     /\ caller.peer = "loopback" \/ bound.demo

CallerInv == pc \in InCall /\ bound.process = "api" => Vouched(call.actor)

\* A turn that was blocked has blocked its session, and the row comes last.
TurnInv ==
  /\ turn.blocked => session.blocked
  /\ turn.row # {} => pc = "idle" /\ bound.process = "agent"
  /\ pc = "after_agent" /\ ~session.blocked => session.response = reply.text
  /\ AllowedTurnsAreTrue

-----------------------------------------------------------------------------
(***************************************************************************)
(* Texts, verdicts and what a model writes.                                *)
(***************************************************************************)
\* Texts are closed under what redaction, screening and rendering do to them.
LEMMA TextClosed ==
  /\ {} \in Text
  /\ NoText \notin Text
  /\ \A t \in Text : \A s : t \ s \in Text
  /\ \A t, u \in Text : t \union u \in Text
BY DEF Text, Marks, NoText

\* An answer that is there is a text.
LEMMA AnswerIsText == ASSUME NEW t \in Answer, t # NoText PROVE t \in Text
BY DEF Answer

\* A verdict shortens the text at most, and one that allows it found no attack.
LEMMA VerdictFacts ==
  ASSUME NEW t \in Text, NEW v \in Verdicts(t), bound \in BoundRecord
  PROVE  /\ v.allowed \in BOOLEAN /\ v.text \in Text /\ v.text \subseteq t
         /\ v.allowed /\ bound.guardrail # "off" => "attack" \notin t
         /\ bound.placeholder /\ bound.guardrail \in {"off", "placeholder"} => v.allowed
<1>1. v = Blocked(t) \/ v = Allowed(t) \/ v = Allowed(t \ {"leak"})
  <2>1. CASE bound.guardrail = "off"
    BY <2>1 DEF Verdicts
  <2>2. CASE bound.guardrail = "heuristic"
    BY <2>2 DEF Verdicts, HeuristicVerdicts
  <2>3. CASE bound.guardrail = "armor"
    BY <2>3 DEF Verdicts, ArmorVerdicts
  <2>4. CASE bound.guardrail = "gateway"
    BY <2>4 DEF Verdicts, GatewayVerdicts
  <2>5. CASE bound.guardrail = "placeholder"
    BY <2>5 DEF Verdicts
  <2>6. QED
    BY <2>1, <2>2, <2>3, <2>4, <2>5 DEF BoundRecord
<1>2. v.allowed \in BOOLEAN /\ v.text \in Text /\ v.text \subseteq t
  <2>1. t \ {"leak"} \in Text
    BY TextClosed
  <2>2. CASE v = Blocked(t)
    BY <2>2 DEF Blocked
  <2>3. CASE v = Allowed(t)
    BY <2>3 DEF Allowed
  <2>4. CASE v = Allowed(t \ {"leak"})
    BY <2>1, <2>4 DEF Allowed
  <2>5. QED
    BY <1>1, <2>2, <2>3, <2>4
<1>3. v.allowed /\ bound.guardrail # "off" => "attack" \notin t
  <2>1. CASE bound.guardrail = "heuristic"
    BY <2>1 DEF Verdicts, HeuristicVerdicts, Blocked, Allowed
  <2>2. CASE bound.guardrail = "armor"
    BY <2>2 DEF Verdicts, ArmorVerdicts, Blocked, Allowed
  <2>3. CASE bound.guardrail = "gateway"
    BY <2>3 DEF Verdicts, GatewayVerdicts, Blocked, Allowed
  <2>4. CASE bound.guardrail = "placeholder"
    BY <2>4 DEF Verdicts
  <2>5. QED
    BY <2>1, <2>2, <2>3, <2>4 DEF BoundRecord
<1>4. bound.guardrail \in {"off", "placeholder"} => v.allowed
  BY DEF Verdicts, Allowed
<1>5. QED
  BY <1>2, <1>3, <1>4

\* What a model writes is a text, and has nothing of the user that it was not shown.
LEMMA WritesFacts ==
  ASSUME NEW shown, NEW t \in Writes(shown)
  PROVE  t \in Text /\ t \intersect Personal \subseteq shown
BY GroundedAnswerAssumption DEF Writes

\* Every adapter masks marks of the user only.
LEMMA MaskedIsPersonal == ASSUME bound \in BoundRecord PROVE Masked(bound.redaction) \subseteq Personal
BY DEF BoundRecord, Masked, Personal

(***************************************************************************)
(* What boot guarantees: a process whose environment none of the checks of *)
(* config.py and api/app.py refuses reviews every answer, reaches the      *)
(* console it is bound to, and screens with what its profile deploys.      *)
(***************************************************************************)
THEOREM BindingsAreDeployed ==
  ASSUME NEW e \in Environment, ~Refused(e)
  PROVE  Deployed(Bindings(e)) /\ Bindings(e) # Unbound
<1> DEFINE p == ProfileOf(e)
           b == Bindings(e)
<1>1. p \in Profiles
  BY DEF Environment, Refused, ProfileRefused, ProfileOf, Explicit, Profiles
<1>2. e.process \in {"api", "mcp", "cli", "agent"} /\ e.demo \in BOOLEAN /\ e.policy \in Policy
  BY DEF Environment
<1>3. PolicyOf(e) \in Policy /\ PolicyOf(e).reviewAll
  <2>1. ReferencePolicy \in Policy /\ ReferencePolicy.reviewAll
    BY DEF ReferencePolicy, Policy, Kinds
  <2>2. e.policy.reviewAll
    BY DEF Refused, ValidPolicy
  <2>3. QED
    BY <1>2, <2>1, <2>2 DEF PolicyOf
<1>4. b \in BoundRecord
  <2>1. /\ Guardrails[p] \in {"heuristic", "armor", "gateway", "placeholder"}
        /\ Redactions[p] \in {"regex", "dlp", "placeholder"}
        /\ Routers[p] \in {"outbox", "console", "placeholder"}
        /\ Indexes[p] \in {"fts", "live", "search", "placeholder"}
        /\ Models[p] \in {"stub", "open_weight", "gemini", "placeholder"}
        /\ Sinks[p] \in {"chain", "logging", "gateway", "placeholder"}
        /\ Searches[p] \in {"off", "optional", "gemini", "placeholder"}
        /\ Identities[p] \in {"persona", "iap", "placeholder"}
    BY <1>1 DEF Profiles, Guardrails, Redactions, Routers, Indexes, Models, Sinks, Searches,
                Identities
  <2>2. RouterBuilds(e) \in BOOLEAN /\ ConsoleReachable(e) \in BOOLEAN
        /\ TenantsRead(e) \in BOOLEAN /\ Explicit(e) \in BOOLEAN
    BY DEF RouterBuilds, ConsoleReachable, TenantsRead, Explicit
  <2>3. /\ (IF Reads(e.guardrail, TRUE) THEN Guardrails[p] ELSE "off")
             \in {"heuristic", "armor", "gateway", "placeholder", "off"}
        /\ (IF Reads(e.redaction, TRUE) THEN Redactions[p] ELSE "off")
             \in {"regex", "dlp", "placeholder", "off"}
        /\ (IF Reads(e.routing, TRUE) THEN Routers[p] ELSE "off")
             \in {"outbox", "console", "placeholder", "off"}
        /\ (IF Grounding(e) THEN Searches[p] ELSE "off")
             \in {"off", "optional", "gemini", "placeholder"}
    BY <2>1
  <2>4. /\ (p = "onprem") \in BOOLEAN
        /\ (Routers[p] = "console" /\ ConsoleReachable(e)) \in BOOLEAN
        /\ (Identities[p] = "iap" /\ e.audience = "set") \in BOOLEAN
        /\ (Identities[p] = "iap" /\ TenantsRead(e)) \in BOOLEAN
    OBVIOUS
  <2>5. /\ b.process \in {"api", "mcp", "cli", "agent"}
        /\ b.placeholder \in BOOLEAN /\ b.builds \in BOOLEAN /\ b.reachable \in BOOLEAN
    BY <1>2, <2>2, <2>4 DEF Bindings
  <2>6. /\ b.guardrail \in {"heuristic", "armor", "gateway", "placeholder", "off"}
        /\ b.redaction \in {"regex", "dlp", "placeholder", "off"}
        /\ b.router \in {"outbox", "console", "placeholder", "off"}
    BY <2>3 DEF Bindings
  <2>7. /\ b.index \in {"fts", "live", "search", "placeholder"}
        /\ b.model \in {"stub", "open_weight", "gemini", "placeholder"}
        /\ b.sink \in {"chain", "logging", "gateway", "placeholder"}
        /\ b.search \in {"off", "optional", "gemini", "placeholder"}
        /\ b.policy \in Policy /\ b.identity \in {"persona", "iap", "placeholder"}
        /\ b.explicit \in BOOLEAN /\ b.audience \in BOOLEAN /\ b.tenants \in BOOLEAN
        /\ b.demo \in BOOLEAN
    BY <1>2, <1>3, <2>1, <2>2, <2>3, <2>4 DEF Bindings
  <2>8. b = [process |-> b.process, placeholder |-> b.placeholder, guardrail |-> b.guardrail,
             redaction |-> b.redaction, router |-> b.router, builds |-> b.builds,
             reachable |-> b.reachable, index |-> b.index, model |-> b.model, sink |-> b.sink,
             search |-> b.search, policy |-> b.policy, identity |-> b.identity,
             explicit |-> b.explicit, audience |-> b.audience, tenants |-> b.tenants,
             demo |-> b.demo]
    BY DEF Bindings
  <2> HIDE DEF b
  <2>9. QED
    BY <2>5, <2>6, <2>7, <2>8 DEF BoundRecord
<1>5. b.policy.reviewAll
  BY <1>3 DEF Bindings
<1>6. b.router = "console" => b.reachable /\ ~b.placeholder
  <2> SUFFICES ASSUME b.router = "console" PROVE b.reachable /\ ~b.placeholder
    OBVIOUS
  <2>1. Reads(e.routing, TRUE) /\ Routers[p] = "console"
    BY DEF Bindings
  <2>2. p \in Managed
    BY <1>1, <2>1 DEF Profiles, Routers, Managed
  <2>3. e.profile = p
    BY <2>2 DEF ProfileOf, Explicit, Managed
  <2>4. ~RoutingRefused(e)
    BY <2>2, <2>3 DEF Refused, ControlsRefused
  <2>5. ConsoleReachable(e)
    BY <2>1, <2>4 DEF RoutingRefused, ConsoleReachable
  <2>6. QED
    BY <2>1, <2>2, <2>5 DEF Bindings, Managed
<1>7. b.placeholder => b.guardrail \in {"off", "placeholder"}
  <2> SUFFICES ASSUME b.placeholder PROVE b.guardrail \in {"off", "placeholder"}
    OBVIOUS
  <2>1. p = "onprem" /\ b.guardrail \in {"off", Guardrails[p]}
    BY DEF Bindings
  <2>2. QED
    BY <2>1 DEF Guardrails
<1>8. b # Unbound
  <2>1. b.process = e.process /\ Unbound.process = "none"
    BY DEF Bindings, Unbound
  <2>2. QED
    BY <1>2, <2>1
<1>9. QED
  BY <1>4, <1>5, <1>6, <1>7, <1>8 DEF Deployed

(***************************************************************************)
(* What the steps of a call make of it.                                    *)
(***************************************************************************)
\* Of a call: what was asked and found, and what has been decided.
Asked(c)   == <<c.kind, c.actor, c.question, c.prompt, c.safe, c.found>>
Settled(c) == <<c.review, c.outcome, c.routing>>

LEMMA NoCallTyped == NoCall \in CallRecord
BY TextClosed DEF NoCall, CallRecord, Answer, Kinds, Actors, Outcomes, Routings

LEMMA NobodyTyped == Nobody \in [Parties -> Text]
BY TextClosed DEF Nobody

LEMMA ShowTyped ==
  ASSUME exposed \in [Parties -> Text], NEW p \in Parties, NEW t \in Text, Show(p, t)
  PROVE  exposed' \in [Parties -> Text]
BY TextClosed DEF Show

LEMMA RedactedTyped == ASSUME NEW t \in Text PROVE Redacted(t) \in Text
BY TextClosed DEF Redacted

LEMMA BegunTyped ==
  ASSUME NEW k \in Kinds, NEW q \in Text, NEW a \in Actors
  PROVE  [NoCall EXCEPT !.kind = k, !.question = q, !.actor = a] \in CallRecord
BY NoCallTyped DEF CallRecord

\* What is left of a call that is blocked, and of one that raised.
LEMMA BlockedTyped == ASSUME NEW c \in CallRecord PROVE BlockedCall(c) \in CallRecord
<1>1. NoText \in Answer /\ 0 \in 0..10 /\ "blocked" \in Outcomes
  BY DEF Answer, Outcomes
<1>2. QED
  BY <1>1 DEF BlockedCall, CallRecord

LEMMA BrokenTyped ==
  ASSUME NEW c \in CallRecord
  PROVE  [c EXCEPT !.outcome = "error", !.text = NoText, !.lead = NoText, !.caveats = NoText,
                   !.cited = {}] \in CallRecord
BY DEF CallRecord, Answer, Outcomes

\* Citations are passages, and there are some if there is a passage.
LEMMA CitationsFacts ==
  ASSUME NEW used, NEW found
  PROVE  /\ CitationsFor(used, found) \subseteq found
         /\ found # {} => CitationsFor(used, found) # {}
BY DEF CitationsFor

LEMMA LeastFacts ==
  ASSUME NEW a \in 0..10, NEW b \in 0..10
  PROVE  Least(a, b) \in 0..10 /\ Least(a, b) <= a /\ Least(a, b) <= b
BY DEF Least

\* What comes back of a request for an answer, whichever model is bound.
LEMMA ReplyFacts ==
  ASSUME NEW c \in CallRecord, NEW r \in Replies(c)
  PROVE  /\ r.text \in Answer /\ r.confidence \in 0..10 /\ r.supported \in BOOLEAN
         /\ r.text # NoText => r.text \intersect Personal \subseteq c.safe
<1>1. CASE bound.model = "stub"
  <2>1. r.text = {} /\ r.confidence = 8 /\ r.supported \in BOOLEAN
    BY <1>1 DEF Replies, StubAnswers
  <2>2. QED
    BY <2>1, TextClosed DEF Answer
<1>2. CASE bound.model # "stub"
  <2>1. r.text \in Writes(c.safe) \union {NoText} /\ r.confidence \in Confidences
        /\ r.supported \in BOOLEAN
    BY <1>2 DEF Replies, Answers
  <2>2. QED
    BY <2>1, WritesFacts, GroundedAnswerAssumption DEF Answer
<1>3. QED
  BY <1>1, <1>2

LEMMA CritiqueFacts ==
  ASSUME NEW shown, NEW q \in Critiques(shown)
  PROVE  /\ q.grounded \in BOOLEAN /\ q.confidence \in 0..10
         /\ CritiqueCaveats(q) \in Answer
         /\ CritiqueCaveats(q) # NoText => CritiqueCaveats(q) \intersect Personal \subseteq shown
<1>1. CASE bound.model = "stub"
  <2>1. q.grounded \in BOOLEAN /\ q.confidence = 8 /\ q.caveats = {}
    BY <1>1 DEF Critiques, StubCritiques
  <2>2. CritiqueCaveats(q) = {}
    BY <2>1 DEF CritiqueCaveats
  <2>3. QED
    BY <2>1, <2>2, TextClosed DEF Answer
<1>2. CASE bound.model # "stub"
  <2>1. q.caveats \in Writes(shown) \union {NoText} /\ q.confidence \in Confidences
        /\ q.grounded \in BOOLEAN
    BY <1>2 DEF Critiques
  <2>2. q.caveats = NoText \/ (q.caveats \in Text /\ q.caveats \intersect Personal \subseteq shown)
    BY <2>1, WritesFacts
  <2>3. CritiqueCaveats(q) = q.caveats \/ CritiqueCaveats(q) = {}
    BY DEF CritiqueCaveats
  <2>4. q.confidence \in 0..10
    BY <2>1, GroundedAnswerAssumption
  <2>5. QED
    BY <2>1, <2>2, <2>3, <2>4, TextClosed DEF Answer
<1>3. QED
  BY <1>1, <1>2

LEMMA LoweredFacts ==
  ASSUME NEW n \in 0..10, NEW q, q.confidence \in 0..10
  PROVE  Lowered(n, q) \in 0..10 /\ Lowered(n, q) <= n
BY LeastFacts DEF Lowered, UngroundedCap, Least

LEMMA ItemFacts ==
  ASSUME NEW c \in CallRecord, NEW i \in ItemReplies(c)
  PROVE  /\ i.lead \in Answer /\ Rendered(i) \in Answer
         /\ i.lead = NoText <=> Rendered(i) = NoText
         /\ i.lead # NoText => /\ i.lead \subseteq Rendered(i)
                               /\ Rendered(i) \intersect Personal \subseteq c.safe
<1>1. /\ i.lead \in Answer /\ i.rest \in Text
      /\ i.lead # NoText => (i.lead \union i.rest) \intersect Personal \subseteq c.safe
  <2>1. CASE bound.model = "stub"
    BY <2>1, TextClosed DEF ItemReplies, StubItems, Answer
  <2>2. CASE bound.model # "stub"
    <3>1. i.lead \in Writes(c.safe) \union {NoText} /\ i.rest \in Writes(c.safe)
      BY <2>2 DEF ItemReplies, Items
    <3>2. QED
      BY <3>1, WritesFacts DEF Answer
  <2>3. QED
    BY <2>1, <2>2
<1>2. CASE i.lead = NoText
  BY <1>2 DEF Rendered, Answer
<1>3. CASE i.lead # NoText
  <2>1. Rendered(i) = i.lead \union i.rest /\ i.lead \in Text
    BY <1>1, <1>3, AnswerIsText DEF Rendered
  <2>2. Rendered(i) \in Text
    BY <1>1, <2>1, TextClosed
  <2>3. Rendered(i) # NoText
    BY <2>2, TextClosed
  <2>4. QED
    BY <1>1, <1>3, <2>1, <2>2, <2>3 DEF Answer
<1>4. QED
  BY <1>2, <1>3

\* A draft cites passages; one that cites nothing has a capped confidence.
LEMMA DraftedFacts ==
  ASSUME NEW c \in CallRecord, NEW r \in Replies(c)
  PROVE  /\ Drafted(c, r) \in CallRecord
         /\ Drafted(c, r).text \in Text
         /\ Drafted(c, r).text \intersect Personal \subseteq c.safe
         /\ Drafted(c, r).cited \subseteq c.found
         /\ c.found # {} /\ Drafted(c, r).cited = {} =>
              Drafted(c, r).confidence <= UnsupportedCap
         /\ Drafted(c, r).lead = c.lead /\ Drafted(c, r).caveats = c.caveats
         /\ Settled(Drafted(c, r)) = Settled(c) /\ Asked(Drafted(c, r)) = Asked(c)
<1> DEFINE supported == r.supported /\ r.text # NoText
           t == IF r.text = NoText THEN {} ELSE r.text
           z == IF supported THEN CitationsFor(r.used, c.found) ELSE {}
           n == IF supported THEN r.confidence ELSE Least(r.confidence, UnsupportedCap)
<1>1. Drafted(c, r) = [c EXCEPT !.text = t, !.supported = supported, !.cited = z, !.confidence = n]
  BY DEF Drafted
<1>2. t \in Text /\ t \in Answer /\ t \intersect Personal \subseteq c.safe
  BY ReplyFacts, TextClosed, AnswerIsText DEF Answer
<1>3. supported \in BOOLEAN
  OBVIOUS
<1>4. z \subseteq c.found /\ (c.found # {} /\ z = {} => ~supported)
  BY CitationsFacts
<1>5. n \in 0..10 /\ (~supported => n <= UnsupportedCap)
  BY ReplyFacts, LeastFacts DEF UnsupportedCap
<1>6. c.found \subseteq Sources
  BY DEF CallRecord
<1> HIDE DEF supported, t, z, n
<1>7. Drafted(c, r) \in CallRecord
  BY <1>1, <1>2, <1>3, <1>4, <1>5, <1>6 DEF CallRecord
<1>8. Drafted(c, r).text = t /\ Drafted(c, r).cited = z /\ Drafted(c, r).confidence = n
  BY <1>1 DEF CallRecord
<1>9. /\ Drafted(c, r).lead = c.lead /\ Drafted(c, r).caveats = c.caveats
      /\ Settled(Drafted(c, r)) = Settled(c) /\ Asked(Drafted(c, r)) = Asked(c)
  BY <1>1 DEF CallRecord, Settled, Asked
<1>10. QED
  BY <1>2, <1>4, <1>5, <1>7, <1>8, <1>9 DEF supported

LEMMA ArtifactFacts ==
  ASSUME NEW c \in CallRecord, NEW i \in ItemReplies(c)
  PROVE  /\ Artifact(c, i) \in CallRecord
         /\ Artifact(c, i).cited \subseteq c.found
         /\ Artifact(c, i).text = Rendered(i) /\ Artifact(c, i).lead = i.lead
         /\ Artifact(c, i).caveats = c.caveats /\ Artifact(c, i).confidence = c.confidence
         /\ Settled(Artifact(c, i)) = Settled(c) /\ Asked(Artifact(c, i)) = Asked(c)
<1> DEFINE z == IF i.lead = NoText THEN {} ELSE CitationsFor(i.used, c.found)
<1>1. Artifact(c, i) = [c EXCEPT !.text = Rendered(i), !.lead = i.lead, !.cited = z]
  BY DEF Artifact
<1>2. z \subseteq c.found
  BY CitationsFacts
<1> HIDE DEF z
<1>3. Artifact(c, i) \in CallRecord
  BY <1>1, <1>2, ItemFacts DEF CallRecord
<1>4. Artifact(c, i).cited = z /\ Artifact(c, i).text = Rendered(i) /\ Artifact(c, i).lead = i.lead
  BY <1>1 DEF CallRecord
<1>5. /\ Artifact(c, i).caveats = c.caveats /\ Artifact(c, i).confidence = c.confidence
      /\ Settled(Artifact(c, i)) = Settled(c) /\ Asked(Artifact(c, i)) = Asked(c)
  BY <1>1 DEF CallRecord, Settled, Asked
<1>6. QED
  BY <1>2, <1>3, <1>4, <1>5

\* The row and the review made from a call.
LEMMA RowTyped ==
  ASSUME NEW c \in CallRecord, c.outcome \in {"none", "blocked", "refused"}
  PROVE  Row(c) \in RowRecord
<1>1. Decision(c) \in Decisions
  BY DEF CallRecord, Kinds, Decision, Decisions
<1>2. QED
  BY <1>1 DEF Row, RowRecord, CallRecord

LEMMA ReviewTyped ==
  ASSUME NEW c \in CallRecord
  PROVE  Review(c) \in ReviewRecord
<1>1. c.question \ PayloadMask \in Text
  BY TextClosed DEF CallRecord
<1>2. QED
  BY <1>1 DEF Review, ReviewRecord, CallRecord

-----------------------------------------------------------------------------
(***************************************************************************)
(* Type correctness, one lemma per action.                                 *)
(***************************************************************************)
LEMMA NoReplyTyped ==
  /\ NoReply \in ReplyRecord
  /\ \A s \in Statuses : [NoReply EXCEPT !.status = s] \in ReplyRecord
<1>1. ASSUME NEW s \in Statuses PROVE [NoReply EXCEPT !.status = s] \in ReplyRecord
  BY DEF NoReply, ReplyRecord, Answer
<1>2. "none" \in Statuses /\ NoReply = [NoReply EXCEPT !.status = "none"]
  BY DEF NoReply, Statuses
<1>3. [NoReply EXCEPT !.status = "none"] \in ReplyRecord
  BY <1>1, <1>2
<1>4. QED
  BY <1>1, <1>2, <1>3

LEMMA InitTyped == Init => TypeInv
<1> SUFFICES ASSUME Init PROVE TypeInv
  OBVIOUS
<1>1. BoundInv /\ Undecided /\ Written
  BY DEF Init, ServiceInit, BoundInv, Undecided, Written, InTurn, Before, Writing, Ended
<1>2. call \in CallRecord /\ trail \in SUBSET RowRecord /\ console \in SUBSET ReviewRecord
  BY NoCallTyped DEF Init, ServiceInit
<1>3. exposed \in [Parties -> Text] /\ faults \in 0..MaxFaults
  BY NobodyTyped, GroundedAnswerAssumption DEF Init, ServiceInit
<1>4. caller \in [peer : Peers, credential : Credentials]
  BY DEF Init, NoCaller, Peers, Credentials
<1>5. reply \in ReplyRecord
  BY NoReplyTyped DEF Init
<1>6. session \in SessionRecord
  BY TextClosed DEF Init, SessionRecord, Answer
<1>7. turn \in TurnRecord
  BY TextClosed, FrontDoorAssumption DEF Init, NoTurn, TurnRecord
<1>8. QED
  BY <1>1, <1>2, <1>3, <1>4, <1>5, <1>6, <1>7 DEF TypeInv

LEMMA RaiseCounted == ASSUME faults \in 0..MaxFaults, CountRaise PROVE faults' \in 0..MaxFaults
BY GroundedAnswerAssumption DEF CountRaise

\* A step of a service: what it may change, and where it may go.
LEMMA ServiceTyped ==
  ASSUME TypeInv, UNCHANGED <<env, caller, reply, agentVars>>, bound' = bound,
         pc \in InCall, pc' \in InCall, Undecided', Written', call' \in CallRecord,
         trail' \in SUBSET RowRecord, console' \in SUBSET ReviewRecord,
         exposed' \in [Parties -> Text], faults' \in 0..MaxFaults
  PROVE  TypeInv'
<1>1. BoundInv'
  BY DEF TypeInv, BoundInv, InCall, InTurn
<1>2. QED
  BY <1>1 DEF TypeInv, agentVars

\* A call that raises has nothing left but its error.
LEMMA AbortTyped ==
  ASSUME TypeInv, UNCHANGED <<env, caller, reply, agentVars>>, pc \in InCall, Abort,
         exposed' \in [Parties -> Text], faults' \in 0..MaxFaults
  PROVE  TypeInv'
<1>1. /\ pc' \in InCall /\ bound' = bound
      /\ trail' \in SUBSET RowRecord /\ console' \in SUBSET ReviewRecord
  BY DEF TypeInv, Abort, InCall
<1>2. call' \in CallRecord
  BY BrokenTyped DEF TypeInv, Abort
<1>3. Undecided' /\ Written'
  <2>1. pc' = "done" /\ call'.outcome = "error"
    BY DEF Abort, TypeInv, CallRecord
  <2>2. QED
    BY <2>1 DEF Undecided, Written, Before, Writing, Ended
<1>4. QED
  BY <1>1, <1>2, <1>3, ServiceTyped

LEMMA RaisesTyped ==
  ASSUME TypeInv, UNCHANGED <<env, caller, reply, agentVars>>,
         BuildRaises \/ RedactRaises \/ RetrieveRaises \/ GenerateRaises \/ ScreenRaises
  PROVE  TypeInv'
<1> USE DEF TypeInv
<1>1. /\ call.prompt \in Text /\ call.safe \in Text
      /\ pc = "screen_output" => call.text \in Text
      /\ pc = "screen_caveats" => call.caveats \in Text
  BY AnswerIsText DEF CallRecord, Written
<1>2. CASE BuildRaises
  BY <1>2, AbortTyped DEF BuildRaises, InCall
<1>3. CASE RedactRaises
  BY <1>3, AbortTyped, RaiseCounted DEF RedactRaises, Fail, InCall
<1>4. CASE RetrieveRaises
  BY <1>1, <1>4, AbortTyped, RaiseCounted, ShowTyped DEF RetrieveRaises, Fail, InCall, Parties
<1>5. CASE GenerateRaises
  BY <1>1, <1>5, AbortTyped, RaiseCounted, ShowTyped DEF GenerateRaises, Fail, InCall, Parties
<1>6. CASE ScreenRaises
  <2>1. exposed' \in [Parties -> Text]
    BY <1>1, <1>6, ShowTyped DEF ScreenRaises, Parties
  <2>2. QED
    BY <1>6, <2>1, AbortTyped, RaiseCounted DEF ScreenRaises, Fail, InCall
<1>7. QED
  BY <1>2, <1>3, <1>4, <1>5, <1>6

LEMMA RedactTyped ==
  ASSUME TypeInv, UNCHANGED <<env, caller, reply, agentVars>>, Redact
  PROVE  TypeInv'
<1>1. Redacted(call.question) \in Text
  BY RedactedTyped DEF TypeInv, CallRecord
<1>2. call' \in CallRecord /\ call'.outcome = call.outcome
  BY <1>1 DEF TypeInv, Redact, CallRecord
<1>3. Undecided' /\ Written'
  BY <1>2 DEF TypeInv, Undecided, Written, Redact, Before, Writing, Ended
<1>4. QED
  BY <1>2, <1>3, ServiceTyped DEF Redact, InCall, TypeInv

LEMMA ScreenInputTyped ==
  ASSUME TypeInv, UNCHANGED <<env, caller, reply, agentVars>>, ScreenInput
  PROVE  TypeInv'
<1>1. bound \in BoundRecord
  BY DEF TypeInv, BoundInv, Deployed, ScreenInput
<1>2. call.prompt \in Text /\ exposed' \in [Parties -> Text]
  BY ShowTyped DEF TypeInv, CallRecord, ScreenInput, Parties
<1>3. PICK v \in Verdicts(call.prompt) :
        IF v.allowed THEN pc' = "retrieve" /\ call' = [call EXCEPT !.safe = v.text]
                     ELSE pc' = "audit" /\ call' = BlockedCall(call)
  BY DEF ScreenInput
<1>4. v.text \in Text
  BY <1>1, <1>2, VerdictFacts
<1>5. call' \in CallRecord
  BY <1>3, <1>4, BlockedTyped DEF TypeInv, CallRecord
<1>6. Undecided' /\ Written'
  <2>1. CASE v.allowed
    <3>1. call'.outcome = call.outcome
      BY <1>3, <2>1 DEF TypeInv, CallRecord
    <3>2. QED
      BY <1>3, <2>1, <3>1 DEF TypeInv, Undecided, Written, ScreenInput, Before, Writing, Ended
  <2>2. CASE ~v.allowed
    <3>1. call'.outcome = "blocked"
      BY <1>3, <2>2 DEF TypeInv, CallRecord, BlockedCall
    <3>2. QED
      BY <1>3, <2>2, <3>1 DEF Undecided, Written, Before, Writing, Ended
  <2>3. QED
    BY <2>1, <2>2
<1>7. QED
  BY <1>2, <1>3, <1>5, <1>6, ServiceTyped DEF ScreenInput, InCall, TypeInv

LEMMA RetrieveTyped ==
  ASSUME TypeInv, UNCHANGED <<env, caller, reply, agentVars>>, Retrieve
  PROVE  TypeInv'
<1>1. PICK found \in Passages :
        IF found = {}
          THEN pc' = "audit" /\ call' = [call EXCEPT !.outcome = "refused", !.review = TRUE]
          ELSE /\ pc' \in {"ground", "generate"}
               /\ call' = [call EXCEPT !.found = found]
  BY DEF Retrieve
<1>2. exposed' \in [Parties -> Text]
  BY ShowTyped DEF TypeInv, CallRecord, Retrieve, Parties
<1>3. found \subseteq Sources
  BY DEF Passages, FtsPassages, SearchPassages
<1>4. /\ call' \in CallRecord
      /\ call'.outcome = IF found = {} THEN "refused" ELSE call.outcome
  <2>1. CASE found = {}
    <3>1. call' = [call EXCEPT !.outcome = "refused", !.review = TRUE] /\ call \in CallRecord
      BY <1>1, <2>1 DEF TypeInv
    <3>2. call' \in CallRecord
      BY <3>1 DEF CallRecord, Outcomes
    <3>3. call'.outcome = "refused"
      BY <3>1 DEF CallRecord
    <3>4. QED
      BY <2>1, <3>2, <3>3
  <2>2. CASE found # {}
    BY <1>1, <1>3, <2>2 DEF TypeInv, CallRecord
  <2>3. QED
    BY <2>1, <2>2
<1>5. Undecided' /\ Written'
  BY <1>1, <1>4 DEF TypeInv, Undecided, Written, Retrieve, Before, Writing, Ended
<1>6. QED
  BY <1>1, <1>2, <1>4, <1>5, ServiceTyped DEF Retrieve, InCall, TypeInv

LEMMA GroundTyped ==
  ASSUME TypeInv, UNCHANGED <<env, caller, reply, agentVars>>, Ground
  PROVE  TypeInv'
<1>1. PICK query \in WebQueries(call.safe) : Show("web", query)
  BY DEF Ground
<1>2. query \in Text
  BY TextClosed DEF WebQueries, OptionalQueries, GeminiQueries, TypeInv, CallRecord
<1>3. exposed' \in [Parties -> Text]
  BY <1>1, <1>2, ShowTyped DEF TypeInv, Parties
<1>4. Undecided' /\ Written'
  BY DEF TypeInv, Undecided, Written, Ground, Before, Writing, Ended
<1>5. QED
  BY <1>3, <1>4, ServiceTyped DEF Ground, InCall, TypeInv

LEMMA GenerateAnswerTyped ==
  ASSUME TypeInv, UNCHANGED <<env, caller, reply, agentVars>>, GenerateAnswer
  PROVE  TypeInv'
<1>1. PICK r \in Replies(call) : call' = Drafted(call, r)
  BY DEF GenerateAnswer
<1>2. call \in CallRecord
  BY DEF TypeInv
<1>3. call' \in CallRecord /\ call'.text \in Text /\ call'.outcome = call.outcome
  BY <1>1, <1>2, DraftedFacts DEF Settled
<1>4. exposed' \in [Parties -> Text]
  BY ShowTyped DEF TypeInv, CallRecord, GenerateAnswer, Parties
<1>5. Undecided' /\ Written'
  BY <1>3, TextClosed DEF TypeInv, Undecided, Written, GenerateAnswer, Before, Writing, Ended
<1>6. QED
  BY <1>3, <1>4, <1>5, ServiceTyped DEF GenerateAnswer, InCall, TypeInv

LEMMA GenerateArtifactTyped ==
  ASSUME TypeInv, UNCHANGED <<env, caller, reply, agentVars>>,
         NEW kind, NEW items \in ItemReplies(call), GenerateArtifact(kind, items)
  PROVE  TypeInv'
<1>1. call \in CallRecord
  BY DEF TypeInv
<1>2. call' \in CallRecord /\ call'.outcome = call.outcome
  BY <1>1, ArtifactFacts DEF GenerateArtifact, Settled
<1>3. exposed' \in [Parties -> Text]
  BY ShowTyped DEF TypeInv, CallRecord, GenerateArtifact, Parties
<1>4. Undecided' /\ Written'
  BY <1>2 DEF TypeInv, Undecided, Written, GenerateArtifact, Before, Writing, Ended
<1>5. QED
  BY <1>2, <1>3, <1>4, ServiceTyped DEF GenerateArtifact, InCall, TypeInv

LEMMA SelfCritiqueTyped ==
  ASSUME TypeInv, UNCHANGED <<env, caller, reply, agentVars>>, SelfCritique
  PROVE  TypeInv'
<1>1. call \in CallRecord /\ call.text \in Text /\ call.safe \in Text
  BY AnswerIsText DEF TypeInv, CallRecord, Written, SelfCritique
<1>2. PICK n \in 0..10, t \in Answer : Judge(n, t)
  <2>1. ASSUME NEW q \in Critiques(call.safe \union call.text),
               Judge(Lowered(call.confidence, q), CritiqueCaveats(q))
        PROVE  \E n \in 0..10, t \in Answer : Judge(n, t)
    BY <1>1, <2>1, CritiqueFacts, LoweredFacts DEF CallRecord
  <2>2. ASSUME Judge(call.confidence, NoText)
        PROVE  \E n \in 0..10, t \in Answer : Judge(n, t)
    BY <1>1, <2>2 DEF CallRecord, Answer
  <2>3. QED
    BY <2>1, <2>2 DEF SelfCritique
<1>3. RequiresReview(call.kind, n, call.cited) \in BOOLEAN
  BY DEF RequiresReview
<1>4. call' \in CallRecord /\ call'.outcome = call.outcome /\ call'.text = call.text
  BY <1>1, <1>2, <1>3 DEF Judge, CallRecord
<1>5. exposed' \in [Parties -> Text]
  BY <1>1, ShowTyped, TextClosed DEF TypeInv, SelfCritique, Parties
<1>6. Undecided' /\ Written'
  BY <1>4 DEF TypeInv, Undecided, Written, SelfCritique, Before, Writing, Ended
<1>7. QED
  BY <1>4, <1>5, <1>6, ServiceTyped DEF SelfCritique, InCall, TypeInv

LEMMA ScreenOutputTyped ==
  ASSUME TypeInv, UNCHANGED <<env, caller, reply, agentVars>>, ScreenOutput
  PROVE  TypeInv'
<1>1. /\ bound \in BoundRecord /\ call \in CallRecord /\ call.text \in Text
      /\ exposed \in [Parties -> Text]
  BY AnswerIsText DEF TypeInv, BoundInv, Deployed, ScreenOutput, CallRecord, Written
<1>2. exposed' \in [Parties -> Text]
  BY <1>1, ShowTyped DEF ScreenOutput, Parties
<1>3. PICK v \in Verdicts(call.text) :
        \/ ~v.allowed /\ pc' = "audit" /\ call' = BlockedCall(call)
        \/ /\ pc' = IF call.caveats = NoText THEN "audit" ELSE "screen_caveats"
           /\ call' = [call EXCEPT !.text = v.text]
        \/ pc' = "audit" /\ call' = call
  BY DEF ScreenOutput
<1>4. v.text \in Text
  BY <1>1, VerdictFacts
<1>5. CASE pc' = "audit" /\ call' = BlockedCall(call)
  <2>1. call'.outcome = "blocked"
    BY <1>1, <1>5 DEF CallRecord, BlockedCall
  <2>2. Undecided' /\ Written'
    BY <1>5, <2>1 DEF Undecided, Written, Before, Writing, Ended
  <2>3. QED
    BY <1>1, <1>2, <1>5, <2>2, BlockedTyped, ServiceTyped DEF ScreenOutput, InCall, TypeInv
<1>6. CASE /\ pc' = IF call.caveats = NoText THEN "audit" ELSE "screen_caveats"
           /\ call' = [call EXCEPT !.text = v.text]
  <2>1. /\ call' \in CallRecord /\ call'.outcome = call.outcome
        /\ call'.text = v.text /\ call'.caveats = call.caveats
    BY <1>1, <1>4, <1>6 DEF CallRecord, Answer
  <2>2. Undecided' /\ Written'
    BY <1>4, <1>6, <2>1, TextClosed DEF TypeInv, ScreenOutput, Undecided, Written, Before, Writing, Ended
  <2>3. QED
    BY <1>2, <1>6, <2>1, <2>2, ServiceTyped DEF ScreenOutput, InCall, TypeInv
<1>7. CASE pc' = "audit" /\ call' = call
  <2>1. Undecided' /\ Written'
    BY <1>7 DEF TypeInv, ScreenOutput, Undecided, Written, Before, Writing, Ended
  <2>2. QED
    BY <1>1, <1>2, <1>7, <2>1, ServiceTyped DEF ScreenOutput, InCall, TypeInv
<1>8. QED
  BY <1>3, <1>5, <1>6, <1>7

LEMMA ScreenCaveatsTyped ==
  ASSUME TypeInv, UNCHANGED <<env, caller, reply, agentVars>>, ScreenCaveats
  PROVE  TypeInv'
<1>1. /\ call \in CallRecord /\ call.caveats \in Text
      /\ exposed \in [Parties -> Text]
  BY AnswerIsText DEF TypeInv, ScreenCaveats, CallRecord, Written
<1>2. exposed' \in [Parties -> Text]
  BY <1>1, ShowTyped DEF ScreenCaveats, Parties
<1>3. call' = call \/ call' = BlockedCall(call)
  BY DEF ScreenCaveats
<1>4. call' \in CallRecord /\ call'.outcome \in {call.outcome, "blocked"}
  BY <1>1, <1>3, BlockedTyped DEF CallRecord, BlockedCall
<1>5. Undecided' /\ Written'
  BY <1>4 DEF TypeInv, ScreenCaveats, Undecided, Written, Before, Writing, Ended
<1>6. QED
  BY <1>2, <1>4, <1>5, ServiceTyped DEF ScreenCaveats, InCall, TypeInv

\* The audit, and the audit whose sink fails.
LEMMA AuditTyped ==
  ASSUME TypeInv, UNCHANGED <<env, caller, reply, agentVars>>, Audit \/ AuditRaises
  PROVE  TypeInv'
<1>1. /\ call \in CallRecord /\ call.outcome \in {"none", "blocked", "refused"}
      /\ exposed \in [Parties -> Text] /\ pc = "audit" /\ bound' = bound /\ console' = console
      /\ faults' \in 0..MaxFaults
  BY RaiseCounted DEF TypeInv, Undecided, Audit, AuditRaises
<1>2. Row(call) \in RowRecord /\ trail' \in SUBSET RowRecord
  <2>1. Row(call) \in RowRecord
    BY <1>1, RowTyped
  <2>2. trail' = {Row(call)} \/ trail' = {}
    BY DEF Audit, AuditRaises
  <2>3. QED
    BY <2>1, <2>2
<1>3. exposed' \in [Parties -> Text]
  <2>1. Row(call).prompt \in Text /\ Row(call).response \in Answer
    BY <1>2 DEF RowRecord
  <2>2. Row(call).prompt \union (IF Row(call).response = NoText THEN {} ELSE Row(call).response)
          \in Text
    BY <2>1, TextClosed, AnswerIsText
  <2>3. QED
    BY <1>1, <2>2, ShowTyped DEF Audit, AuditRaises, ShowRow, Parties
<1>4. AfterAudit(call)
  BY DEF Audit, AuditRaises
<1>5. /\ call' \in CallRecord /\ call'.kind = call.kind
      /\ call'.outcome = IF call.outcome = "none" THEN "answered" ELSE call.outcome
  BY <1>1, <1>4 DEF AfterAudit, CallRecord, Outcomes
<1>6. Undecided' /\ Written'
  BY <1>1, <1>4, <1>5 DEF AfterAudit, Undecided, Written, Before, Writing, Ended
<1>7. pc' \in InCall
  BY <1>4 DEF AfterAudit, InCall
<1>8. QED
  BY <1>1, <1>2, <1>3, <1>5, <1>6, <1>7, ServiceTyped DEF InCall, TypeInv

\* The hand-off, and the hand-off that fails.
LEMMA RouteTyped ==
  ASSUME TypeInv, UNCHANGED <<env, caller, reply, agentVars>>, Route \/ RouteRaises
  PROVE  TypeInv'
<1>1. /\ call \in CallRecord /\ exposed \in [Parties -> Text]
      /\ pc = "route" /\ pc' = "done" /\ bound' = bound /\ trail' = trail
      /\ faults' \in 0..MaxFaults
  BY RaiseCounted DEF TypeInv, Route, RouteRaises
<1>2. Review(call) \in ReviewRecord /\ Review(call).subject \in Text
  BY <1>1, ReviewTyped DEF ReviewRecord
<1>3. console' \in SUBSET ReviewRecord
  <2>1. console' \in {{}, {Review(call)}, console}
    BY DEF Route, RouteRaises
  <2>2. QED
    BY <1>2, <2>1 DEF TypeInv
<1>4. exposed' \in [Parties -> Text]
  <2>1. Show("console", Review(call).subject) \/ exposed' = exposed
    BY DEF Route, RouteRaises
  <2>2. QED
    BY <1>1, <1>2, <2>1, ShowTyped DEF Parties
<1>5. PICK o \in {"routed", "off", "failed"} : call' = [call EXCEPT !.routing = o]
  BY DEF Route, RouteRaises
<1>6. call' \in CallRecord /\ call'.outcome = call.outcome
  BY <1>1, <1>5 DEF CallRecord, Routings
<1>7. Undecided' /\ Written'
  BY <1>1, <1>6 DEF TypeInv, Undecided, Written, Before, Writing, Ended
<1>8. QED
  BY <1>1, <1>3, <1>4, <1>6, <1>7, ServiceTyped DEF InCall, TypeInv

LEMMA ServiceStepTyped == ASSUME TypeInv, Service PROVE TypeInv'
<1>1. UNCHANGED <<env, caller, reply, agentVars>>
  BY DEF Service
<1>2. ASSUME NEW items \in ItemReplies(call), 
             BuildChecklist(items) \/ GenerateTestCases(items) \/ GenerateRegulatorQuestions(items)
      PROVE  TypeInv'
  BY <1>1, <1>2, GenerateArtifactTyped
     DEF BuildChecklist, GenerateTestCases, GenerateRegulatorQuestions
<1>3. CASE Serve
  BY <1>1, <1>2, <1>3, RedactTyped, ScreenInputTyped, RetrieveTyped, GroundTyped,
     GenerateAnswerTyped, SelfCritiqueTyped, ScreenOutputTyped, ScreenCaveatsTyped, AuditTyped,
     RouteTyped DEF Serve
<1>4. CASE Raise
  BY <1>1, <1>4, RaisesTyped, AuditTyped, RouteTyped DEF Raise
<1>5. QED
  BY <1>3, <1>4 DEF Service

-----------------------------------------------------------------------------
\* The steps outside the services, which hand them a call and take its result.
LEMMA BootTyped == ASSUME TypeInv, Boot PROVE TypeInv'
<1>1. UNCHANGED <<call, trail, console, exposed, faults, caller, reply, session, turn>>
  BY DEF Boot, agentVars
<1>2. BoundInv'
  <2>1. env \in Environment
    BY GroundedAnswerAssumption DEF TypeInv, BoundInv, Boot
  <2>2. CASE Refused(env)
    BY <2>2 DEF TypeInv, BoundInv, Boot, InTurn
  <2>3. CASE ~Refused(env)
    BY <2>1, <2>3, BindingsAreDeployed DEF Boot, BoundInv, InTurn
  <2>4. QED
    BY <2>2, <2>3
<1>3. Undecided' /\ Written'
  BY DEF Boot, Undecided, Written, Before, Writing, Ended
<1>4. QED
  BY <1>1, <1>2, <1>3 DEF TypeInv

LEMMA UserTextTyped == UserTexts \subseteq Text
BY GroundedAnswerAssumption

LEMMA BegunCallTyped ==
  ASSUME TypeInv, NEW kind \in Kinds, NEW question \in Text, NEW actor \in Actors,
         Begin(kind, question, actor), pc \notin {"boot", "refused"},
         caller' \in [peer : Peers, credential : Credentials], reply' \in ReplyRecord,
         session' \in SessionRecord, turn' \in TurnRecord
  PROVE  TypeInv'
<1>1. call' \in CallRecord /\ call'.outcome = "none"
  <2>1. call' \in CallRecord
    BY BegunTyped DEF Begin
  <2>2. call'.outcome = "none"
    BY DEF Begin, NoCall
  <2>3. QED
    BY <2>1, <2>2
<1>2. BoundInv' /\ Undecided' /\ Written'
  BY <1>1 DEF TypeInv, BoundInv, Undecided, Written, Begin, Before, Writing, Ended, InCall, InTurn
<1>3. QED
  BY <1>1, <1>2, NobodyTyped DEF TypeInv, Begin

\* Identity is resolved to an answer of the API and to an actor.
LEMMA ResolveTyped ==
  ASSUME NEW b \in BoundRecord, NEW credential
  PROVE  Resolve(b, credential).status \in Statuses /\ Resolve(b, credential).actor \in Actors
<1>1. b.identity \in {"persona", "iap", "placeholder"}
  BY DEF BoundRecord
<1>2. CASE b.identity = "persona"
  BY <1>2 DEF Resolve, ResolvePersona, Granted, Denied, Statuses, Actors
<1>3. CASE b.identity = "placeholder"
  BY <1>3 DEF Resolve, Granted, Denied, Statuses, Actors
<1>4. CASE b.identity = "iap"
  BY <1>4 DEF Resolve, ResolveAssertion, Verified, Granted, Denied, Statuses, Actors, BoundRecord
<1>5. QED
  BY <1>1, <1>2, <1>3, <1>4

LEMMA ApiRequestTyped ==
  ASSUME TypeInv, NEW peer \in Peers, NEW credential \in Credentials, NEW kind \in Kinds,
         NEW question \in UserTexts, ApiRequest(peer, credential, kind, question)
  PROVE  TypeInv'
<1>1. Deployed(bound) /\ bound \in BoundRecord /\ pc = "idle"
  BY DEF TypeInv, BoundInv, ApiRequest, Deployed
<1>2. /\ Resolve(bound, credential).status \in Statuses
      /\ Resolve(bound, credential).actor \in Actors
  BY <1>1, ResolveTyped
<1>3. CASE \E s \in Statuses : Refuse(s)
  <2>1. PICK s \in Statuses : Refuse(s)
    BY <1>3
  <2>2. reply' \in ReplyRecord
    BY <2>1, NoReplyTyped DEF Refuse
  <2>3. UNCHANGED <<bound, pc, call, trail, console, exposed, faults, env, caller, session, turn>>
    BY <2>1 DEF ApiRequest, Refuse, serviceVars, agentVars
  <2>4. BoundInv' /\ Undecided' /\ Written'
    BY <2>3 DEF TypeInv, BoundInv, Undecided, Written
  <2>5. QED
    BY <2>2, <2>3, <2>4 DEF TypeInv
<1>4. CASE /\ caller' = [peer |-> peer, credential |-> credential]
           /\ reply' = NoReply
           /\ Begin(kind, question, Resolve(bound, credential).actor)
  <2>1. caller' \in [peer : Peers, credential : Credentials] /\ reply' \in ReplyRecord
    BY <1>4, NoReplyTyped
  <2>2. UNCHANGED <<env, session, turn>>
    BY DEF ApiRequest, agentVars
  <2>3. QED
    BY <1>1, <1>2, <1>4, <2>1, <2>2, UserTextTyped, BegunCallTyped DEF TypeInv
<1>5. QED
  BY <1>2, <1>3, <1>4 DEF ApiRequest, Statuses

LEMMA ReplyTyped ==
  ASSUME TypeInv, NEW status \in Statuses, NEW disclosed \in BOOLEAN,
         pc = "done", pc' = "replied", reply' = Answered(status, disclosed),
         UNCHANGED <<bound, call, trail, console, exposed, faults, env, caller, agentVars>>
  PROVE  TypeInv'
<1>1. reply' \in ReplyRecord
  BY DEF TypeInv, Answered, CallRecord, ReplyRecord
<1>2. BoundInv' /\ Undecided' /\ Written'
  BY DEF TypeInv, BoundInv, Undecided, Written, Before, Writing, Ended, InCall, InTurn
<1>3. QED
  BY <1>1, <1>2 DEF TypeInv, agentVars

LEMMA RepliesTyped == ASSUME TypeInv, ApiReply \/ McpReply \/ CliReply PROVE TypeInv'
<1>1. CASE ApiReply
  <2>1. ApiStatus(call) \in Statuses
    BY <1>1 DEF ApiReply, TypeInv, Undecided, Ended, ApiStatus, CallRecord, Outcomes, Kinds, Statuses
  <2>2. (call.kind = "answer" /\ ApiStatus(call) = "200") \in BOOLEAN
    OBVIOUS
  <2>3. QED
    BY <1>1, <2>1, <2>2, ReplyTyped DEF ApiReply
<1>2. CASE McpReply
  <2>1. McpStatus(call) \in Statuses
    BY DEF McpStatus, Statuses
  <2>2. QED
    BY <1>2, <2>1, ReplyTyped DEF McpReply, DirectReply
<1>3. CASE CliReply
  <2>1. ExitCode(call) \in Statuses
    <3>1. bound.placeholder \in BOOLEAN
      BY <1>3 DEF CliReply, DirectReply, TypeInv, BoundInv, Deployed, BoundRecord
    <3>2. QED
      BY <3>1 DEF ExitCode, Statuses
  <2>2. QED
    BY <1>3, <2>1, ReplyTyped DEF CliReply, DirectReply
<1>4. QED
  BY <1>1, <1>2, <1>3

LEMMA DirectCallTyped ==
  ASSUME TypeInv, NEW kind \in Kinds, NEW question \in UserTexts,
         McpCall(kind, question) \/ CliCommand(kind, question)
  PROVE  TypeInv'
<1>1. PICK actor \in Actors : Begin(kind, question, actor)
  BY DEF McpCall, CliCommand, Actors
<1>2. reply' \in ReplyRecord
  BY NoReplyTyped DEF McpCall, CliCommand
<1>3. pc = "idle" /\ UNCHANGED <<caller, session, turn>>
  BY DEF McpCall, CliCommand, agentVars
<1>4. QED
  BY <1>1, <1>2, <1>3, UserTextTyped, BegunCallTyped DEF TypeInv

\* A step of the agent, or one that ends a call: what it may change, and where it may go.
LEMMA OutsideTyped ==
  ASSUME TypeInv, bound' = bound, pc \notin {"boot", "refused"}, pc' \in {"idle"} \union InTurn,
         pc' \in InTurn => bound.process = "agent",
         UNCHANGED <<call, trail, console, exposed>> \/ Forgotten,
         faults' \in 0..MaxFaults, caller' \in {caller, NoCaller}, reply' \in ReplyRecord,
         session' \in SessionRecord, turn' \in TurnRecord
  PROVE  TypeInv'
<1>1. /\ call' \in CallRecord /\ trail' \in SUBSET RowRecord /\ console' \in SUBSET ReviewRecord
      /\ exposed' \in [Parties -> Text]
  BY NoCallTyped, NobodyTyped DEF TypeInv, Forgotten
<1>2. caller' \in [peer : Peers, credential : Credentials]
  BY DEF TypeInv, NoCaller, Peers, Credentials
<1>3. BoundInv' /\ Undecided' /\ Written'
  BY DEF TypeInv, BoundInv, Undecided, Written, Before, Writing, Ended, InCall, InTurn
<1>4. QED
  BY <1>1, <1>2, <1>3 DEF TypeInv

LEMMA ForgetTyped == ASSUME TypeInv, Forget PROVE TypeInv'
<1>1. UNCHANGED <<bound, session, turn>> /\ pc' = "idle" /\ faults' \in 0..MaxFaults
      /\ reply' \in ReplyRecord
  BY NoReplyTyped, GroundedAnswerAssumption DEF Forget, agentVars
<1>2. QED
  BY <1>1, OutsideTyped DEF Forget, TypeInv, InTurn

LEMMA BeginTurnTyped == ASSUME TypeInv, NEW text \in UserTexts, BeginTurn(text) PROVE TypeInv'
<1>1. turn' \in TurnRecord
  <2>1. turn.number + 1 \in 0..MaxTurns
    BY FrontDoorAssumption DEF TypeInv, TurnRecord, BeginTurn
  <2>2. NoTurn \in TurnRecord
    BY FrontDoorAssumption, TextClosed DEF NoTurn, TurnRecord
  <2>3. QED
    BY <2>1, <2>2 DEF BeginTurn, TurnRecord
<1>2. session' \in SessionRecord
  BY UserTextTyped, TextClosed DEF TypeInv, SessionRecord, BeginTurn
<1>3. reply' \in ReplyRecord /\ faults' \in 0..MaxFaults
  BY NoReplyTyped, GroundedAnswerAssumption DEF BeginTurn
<1>4. QED
  BY <1>1, <1>2, <1>3, OutsideTyped DEF BeginTurn, InTurn

LEMMA TurnBreaksTyped ==
  ASSUME TypeInv, TurnBreaks, pc \notin {"boot", "refused"}, faults' \in 0..MaxFaults
  PROVE  TypeInv'
<1>1. reply' \in ReplyRecord
  BY NoReplyTyped DEF TurnBreaks, Statuses
<1>2. QED
  BY <1>1, OutsideTyped DEF TurnBreaks, agentVars, TypeInv, InTurn

\* What the callbacks make of the text that they screen.
LEMMA CallbackTyped ==
  ASSUME TypeInv, pc \in InTurn, NEW t \in Text, NEW v \in Verdicts(Redacted(t))
  PROVE  /\ v.allowed \in BOOLEAN /\ v.text \in Text /\ v.text \in Answer
         /\ Remembers(v) \in BOOLEAN
         /\ v.text \intersect Masked(bound.redaction) = {}
         /\ v.allowed /\ bound.guardrail # "off" => "attack" \notin v.text
<1>1. bound \in BoundRecord /\ Redacted(t) \in Text
  BY RedactedTyped DEF TypeInv, BoundInv, Deployed, InTurn
<1>2. /\ v.allowed \in BOOLEAN /\ v.text \in Text /\ v.text \subseteq Redacted(t)
      /\ v.allowed /\ bound.guardrail # "off" => "attack" \notin Redacted(t)
  BY <1>1, VerdictFacts
<1>3. Remembers(v) \in BOOLEAN
  BY DEF Remembers
<1>4. QED
  BY <1>2, <1>3 DEF Redacted, Answer

LEMMA BeforeModelTyped == ASSUME TypeInv, BeforeModel PROVE TypeInv'
<1>1. session \in SessionRecord /\ session.asked \in Text /\ turn \in TurnRecord /\ pc = "before_model"
  BY DEF TypeInv, SessionRecord, BeforeModel
<1>2. PICK v \in Verdicts(Redacted(session.asked)) :
        /\ session' = [session EXCEPT !.prompt = v.text, !.blocked = Remembers(v)]
        /\ turn' = [turn EXCEPT !.blocked = @ \/ ~v.allowed]
        /\ pc' = IF v.allowed THEN "agent_model" ELSE "after_agent"
        /\ reply' = IF v.allowed THEN reply ELSE [NoReply EXCEPT !.status = "withheld"]
  BY DEF BeforeModel
<1>3. v.allowed \in BOOLEAN /\ v.text \in Text /\ Remembers(v) \in BOOLEAN
  BY <1>1, CallbackTyped DEF InTurn
<1>4. session' \in SessionRecord /\ turn' \in TurnRecord
  BY <1>1, <1>2, <1>3 DEF SessionRecord, TurnRecord
<1>5. reply' \in ReplyRecord
  BY <1>2, NoReplyTyped DEF TypeInv, Statuses
<1>6. QED
  BY <1>1, <1>2, <1>4, <1>5, OutsideTyped DEF BeforeModel, TypeInv, BoundInv, InTurn

LEMMA AfterModelTyped == ASSUME TypeInv, AfterModel PROVE TypeInv'
<1>1. session \in SessionRecord /\ turn.shown \in Text /\ turn \in TurnRecord /\ pc = "after_model"
  BY DEF TypeInv, TurnRecord, AfterModel
<1>2. PICK v \in Verdicts(Redacted(turn.shown)) :
        /\ session' = [session EXCEPT !.response = v.text, !.blocked = Remembers(v)]
        /\ turn' = [turn EXCEPT !.blocked = @ \/ ~v.allowed]
        /\ reply' = IF v.allowed THEN [NoReply EXCEPT !.status = "told", !.text = v.text]
                    ELSE [NoReply EXCEPT !.status = "withheld"]
  BY DEF AfterModel
<1>3. v.allowed \in BOOLEAN /\ v.text \in Answer /\ Remembers(v) \in BOOLEAN
  BY <1>1, CallbackTyped DEF InTurn
<1>4. session' \in SessionRecord /\ turn' \in TurnRecord
  BY <1>1, <1>2, <1>3 DEF SessionRecord, TurnRecord
<1>5. reply' \in ReplyRecord
  <2>1. [NoReply EXCEPT !.status = "told", !.text = v.text] \in ReplyRecord
    <3>1. NoReply \in ReplyRecord /\ "told" \in Statuses
      BY NoReplyTyped DEF Statuses
    <3>2. QED
      BY <1>3, <3>1 DEF ReplyRecord
  <2>2. QED
    BY <1>2, <2>1, NoReplyTyped DEF Statuses
<1>6. QED
  BY <1>1, <1>4, <1>5, OutsideTyped DEF AfterModel, TypeInv, BoundInv, InTurn

LEMMA AgentSpeaksTyped ==
  ASSUME TypeInv, NEW text \in Writes(session.asked) \union {{}}, AgentSpeaks(text) PROVE TypeInv'
<1>1. turn' \in TurnRecord
  <2>1. text \in Text
    BY WritesFacts DEF TypeInv, Text
  <2>2. QED
    BY <2>1 DEF TypeInv, TurnRecord, AgentSpeaks
<1>2. QED
  BY <1>1, OutsideTyped DEF AgentSpeaks, TypeInv, BoundInv, InTurn

\* Both kinds of tool call take one of the turn's tools and forget the response.
LEMMA ToolTyped ==
  ASSUME TypeInv, turn.tools < MaxTools, turn' = [turn EXCEPT !.tools = @ + 1],
         session' = [session EXCEPT !.response = NoText]
  PROVE  turn' \in TurnRecord /\ session' \in SessionRecord
<1>1. turn.tools + 1 \in 0..MaxTools
  BY FrontDoorAssumption DEF TypeInv, TurnRecord
<1>2. turn' \in TurnRecord
  BY <1>1 DEF TypeInv, TurnRecord
<1>3. session' \in SessionRecord
  BY DEF TypeInv, SessionRecord, Answer
<1>4. QED
  BY <1>2, <1>3

LEMMA AgentCallsToolTyped ==
  ASSUME TypeInv, NEW kind \in Kinds, NEW actor \in {"model_named", "agent_default"},
         AgentCallsTool(kind, actor)
  PROVE  TypeInv'
<1>1. actor \in Actors /\ session.asked \in Text
  BY DEF Actors, TypeInv, SessionRecord
<1>2. turn' \in TurnRecord /\ session' \in SessionRecord
  BY ToolTyped DEF AgentCallsTool
<1>3. QED
  BY <1>1, <1>2, BegunCallTyped DEF AgentCallsTool, TypeInv

LEMMA AgentSearchesWebTyped == ASSUME TypeInv, AgentSearchesWeb PROVE TypeInv'
<1>1. turn' \in TurnRecord /\ session' \in SessionRecord
  BY ToolTyped DEF AgentSearchesWeb
<1>2. QED
  BY <1>1, OutsideTyped DEF AgentSearchesWeb, TypeInv, BoundInv, InTurn

LEMMA ToolReturnsTyped == ASSUME TypeInv, ToolReturns PROVE TypeInv'
<1>1. CASE TurnBreaks
  BY <1>1, TurnBreaksTyped DEF ToolReturns, TypeInv
<1>2. CASE /\ pc' = "before_model" /\ Forgotten
           /\ UNCHANGED <<bound, env, caller, reply, agentVars>>
  BY <1>2, OutsideTyped DEF ToolReturns, TypeInv, InTurn, agentVars
<1>3. QED
  BY <1>1, <1>2 DEF ToolReturns

LEMMA AfterAgentTyped == ASSUME TypeInv, AfterAgent PROVE TypeInv'
<1>1. TurnRow \in TurnRowRecord
  BY DEF TurnRow, TurnRowRecord, TypeInv, SessionRecord, Decisions
<1>2. turn' \in TurnRecord
  BY <1>1 DEF TypeInv, TurnRecord, AfterAgent
<1>3. QED
  BY <1>2, OutsideTyped DEF AfterAgent, TypeInv, InTurn

LEMMA AgentRaisesTyped == ASSUME TypeInv, AgentRaises PROVE TypeInv'
<1>1. faults' \in 0..MaxFaults
  BY RaiseCounted DEF TypeInv, AgentRaises
<1>2. QED
  BY <1>1, TurnBreaksTyped DEF AgentRaises

LEMMA StepTyped == ASSUME TypeInv, [Next]_vars PROVE TypeInv'
<1>1. CASE Boot
  BY <1>1, BootTyped
<1>2. CASE Service
  BY <1>2, ServiceStepTyped
<1>3. CASE ApiReply \/ McpReply \/ CliReply
  BY <1>3, RepliesTyped
<1>4. CASE Forget
  BY <1>4, ForgetTyped
<1>5. CASE AgentStep
  BY <1>5, BeforeModelTyped, AfterModelTyped, AfterAgentTyped, AgentRaisesTyped, ToolReturnsTyped,
     AgentSearchesWebTyped, AgentSpeaksTyped, AgentCallsToolTyped DEF AgentStep
<1>6. ASSUME NEW peer \in Peers, NEW credential \in Credentials, NEW kind \in Kinds,
             NEW question \in UserTexts, ApiRequest(peer, credential, kind, question)
      PROVE  TypeInv'
  BY <1>6, ApiRequestTyped
<1>7. ASSUME NEW kind \in Kinds, NEW question \in UserTexts,
             McpCall(kind, question) \/ CliCommand(kind, question)
      PROVE  TypeInv'
  BY <1>7, DirectCallTyped
<1>8. ASSUME NEW text \in UserTexts, BeginTurn(text) PROVE TypeInv'
  BY <1>8, BeginTurnTyped
<1>9. CASE UNCHANGED vars
  BY <1>9 DEF vars, serviceVars, agentVars, TypeInv, BoundInv, Undecided, Written
<1>10. QED
  BY <1>1, <1>2, <1>3, <1>4, <1>5, <1>6, <1>7, <1>8, <1>9 DEF Next, Progress

LEMMA AlwaysTyped == Spec => []TypeInv
<1>1. Init => TypeInv
  BY InitTyped
<1>2. TypeInv /\ [Next]_vars => TypeInv'
  BY StepTyped
<1>3. QED
  BY <1>1, <1>2, PTL DEF Spec
=============================================================================
