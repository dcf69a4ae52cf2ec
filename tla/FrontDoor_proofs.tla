-------------------------- MODULE FrontDoor_proofs --------------------------
(***************************************************************************)
(* What holds of FrontDoor for every index, policy, environment, text and  *)
(* bound: the other layers of its inductive invariant, the safety          *)
(* invariants that follow from them, and that every step is one that       *)
(* Accountable allows.                                                     *)
(***************************************************************************)
EXTENDS FrontDoor_types

-----------------------------------------------------------------------------
(***************************************************************************)
(* The fields that the steps of a call change, and those they keep.        *)
(***************************************************************************)
Content(c) == <<c.text, c.lead, c.caveats, c.cited>>
Nothing    == <<NoText, NoText, NoText, {}>>

LEMMA NoCallFields ==
  /\ NoCall.kind = "answer" /\ NoCall.actor = "nobody" /\ NoCall.prompt = {} /\ NoCall.safe = {}
  /\ NoCall.found = {} /\ Content(NoCall) = Nothing /\ NoCall.confidence = 0
  /\ NoCall.outcome = "none" /\ NoCall.routing = "not_required"
BY DEF NoCall, Content, Nothing

LEMMA BeginFields ==
  ASSUME NEW kind, NEW question, NEW actor, Begin(kind, question, actor)
  PROVE  /\ call'.kind = kind /\ call'.actor = actor /\ call'.prompt = {} /\ call'.safe = {}
         /\ call'.found = {} /\ Content(call') = Nothing /\ call'.confidence = 0
         /\ call'.outcome = "none" /\ call'.routing = "not_required"
BY DEF Begin, NoCall, Content, Nothing

LEMMA RedactFields ==
  ASSUME TypeInv, Redact
  PROVE  /\ call'.prompt = Redacted(call.question) /\ call'.safe = call.safe
         /\ call'.kind = call.kind /\ call'.actor = call.actor /\ call'.found = call.found
         /\ Content(call') = Content(call) /\ call'.confidence = call.confidence
         /\ Settled(call') = Settled(call)
BY DEF TypeInv, CallRecord, Redact, Content, Settled

LEMMA BlockedFields ==
  ASSUME NEW c \in CallRecord
  PROVE  /\ Asked(BlockedCall(c)) = Asked(c) /\ Content(BlockedCall(c)) = Nothing
         /\ BlockedCall(c).confidence = 0 /\ BlockedCall(c).review
         /\ BlockedCall(c).outcome = "blocked" /\ BlockedCall(c).routing = c.routing
BY DEF CallRecord, BlockedCall, Asked, Content, Nothing

LEMMA AbortFields ==
  ASSUME TypeInv, Abort
  PROVE  /\ Asked(call') = Asked(call) /\ Content(call') = Nothing
         /\ call'.outcome = "error" /\ call'.routing = call.routing
BY DEF TypeInv, CallRecord, Abort, Asked, Content, Nothing

LEMMA ScreenInputFields ==
  ASSUME TypeInv, ScreenInput
  PROVE  \/ /\ pc' = "retrieve"
            /\ call'.safe \subseteq call.prompt
            /\ call'.kind = call.kind /\ call'.actor = call.actor /\ call'.prompt = call.prompt
            /\ call'.found = call.found /\ Content(call') = Content(call)
            /\ call'.confidence = call.confidence /\ Settled(call') = Settled(call)
         \/ pc' = "audit" /\ ~bound.placeholder /\ call' = BlockedCall(call)
<1>1. Deployed(bound) /\ bound \in BoundRecord /\ call \in CallRecord /\ call.prompt \in Text
  BY DEF TypeInv, BoundInv, Deployed, ScreenInput, CallRecord
<1>2. PICK v \in Verdicts(call.prompt) :
        IF v.allowed THEN pc' = "retrieve" /\ call' = [call EXCEPT !.safe = v.text]
                     ELSE pc' = "audit" /\ call' = BlockedCall(call)
  BY DEF ScreenInput
<1>3. v.text \subseteq call.prompt /\ (bound.placeholder => v.allowed)
  BY <1>1, VerdictFacts DEF Deployed
<1>4. CASE v.allowed
  BY <1>1, <1>2, <1>3, <1>4 DEF CallRecord, Content, Settled
<1>5. CASE ~v.allowed
  BY <1>2, <1>3, <1>5
<1>6. QED
  BY <1>4, <1>5

LEMMA RetrieveFields ==
  ASSUME TypeInv, Retrieve
  PROVE  /\ call'.kind = call.kind /\ call'.actor = call.actor /\ call'.prompt = call.prompt
         /\ call'.safe = call.safe /\ Content(call') = Content(call)
         /\ call'.confidence = call.confidence /\ call'.routing = call.routing
         /\ \/ pc' = "audit" /\ call'.outcome = "refused" /\ call'.found = call.found
            \/ /\ pc' = "generate" \/ (pc' = "ground" /\ call.kind = "answer")
               /\ call'.outcome = call.outcome /\ call'.found # {}
<1>1. PICK found \in Passages :
        IF found = {}
          THEN pc' = "audit" /\ call' = [call EXCEPT !.outcome = "refused", !.review = TRUE]
          ELSE /\ pc' = IF call.kind = "answer" /\ bound.search # "off" THEN "ground" ELSE "generate"
               /\ call' = [call EXCEPT !.found = found]
  BY DEF Retrieve
<1>2. CASE found = {}
  BY <1>1, <1>2 DEF TypeInv, CallRecord, Content
<1>3. CASE found # {}
  BY <1>1, <1>3 DEF TypeInv, CallRecord, Content
<1>4. QED
  BY <1>2, <1>3

LEMMA SelfCritiqueFields ==
  ASSUME TypeInv, SelfCritique
  PROVE  /\ Asked(call') = Asked(call) /\ call'.text = call.text /\ call'.lead = call.lead
         /\ call'.cited = call.cited
         /\ call'.confidence \in 0..10 /\ call'.confidence <= call.confidence
         /\ call'.outcome = call.outcome /\ call'.routing = call.routing
         /\ call.kind = "answer" /\ bound.policy.reviewAll => call'.review
         /\ call'.caveats # NoText =>
              call'.caveats \intersect Personal \subseteq call.safe \union call.text
<1>1. call \in CallRecord /\ call.confidence \in 0..10
  BY DEF TypeInv, CallRecord
<1>2. PICK n \in 0..10, t \in Answer :
        /\ Judge(n, t)
        /\ n <= call.confidence
        /\ t # NoText => t \intersect Personal \subseteq call.safe \union call.text
  <2>1. ASSUME NEW q \in Critiques(call.safe \union call.text),
               Judge(Lowered(call.confidence, q), CritiqueCaveats(q))
        PROVE  /\ Lowered(call.confidence, q) \in 0..10 /\ CritiqueCaveats(q) \in Answer
               /\ Lowered(call.confidence, q) <= call.confidence
               /\ CritiqueCaveats(q) # NoText =>
                    CritiqueCaveats(q) \intersect Personal \subseteq call.safe \union call.text
    BY <1>1, CritiqueFacts, LoweredFacts
  <2>2. QED
    <3>1. CASE Judge(call.confidence, NoText)
      BY <1>1, <3>1 DEF Answer
    <3>2. QED
      BY <2>1, <3>1 DEF SelfCritique
<1>3. call' = [call EXCEPT !.confidence = n, !.caveats = t,
                           !.review = RequiresReview(call.kind, n, call.cited)]
  BY <1>2 DEF Judge
<1>4. call.kind = "answer" /\ bound.policy.reviewAll => RequiresReview(call.kind, n, call.cited)
  BY DEF RequiresReview
<1>5. QED
  BY <1>1, <1>2, <1>3, <1>4 DEF CallRecord, Asked

LEMMA ScreenOutputFields ==
  ASSUME TypeInv, ScreenOutput
  PROVE  \/ pc' = "audit" /\ call' = BlockedCall(call)
         \/ /\ call.kind = "answer"
            /\ pc' = IF call.caveats = NoText THEN "audit" ELSE "screen_caveats"
            /\ Asked(call') = Asked(call) /\ Settled(call') = Settled(call)
            /\ call'.text \subseteq call.text /\ call'.lead = call.lead
            /\ call'.caveats = call.caveats /\ call'.cited = call.cited
            /\ call'.confidence = call.confidence
            /\ bound.guardrail # "off" => "attack" \notin call'.text
         \/ /\ call.kind \in Artifacts /\ pc' = "audit" /\ call' = call
            /\ bound.guardrail # "off" => "attack" \notin call.text
<1>1. bound \in BoundRecord /\ call \in CallRecord /\ call.text \in Text
  BY AnswerIsText DEF TypeInv, BoundInv, Deployed, ScreenOutput, CallRecord, Written
<1>2. PICK v \in Verdicts(call.text) :
        \/ ~v.allowed /\ pc' = "audit" /\ call' = BlockedCall(call)
        \/ /\ v.allowed /\ call.kind = "answer"
           /\ pc' = IF call.caveats = NoText THEN "audit" ELSE "screen_caveats"
           /\ call' = [call EXCEPT !.text = v.text]
        \/ v.allowed /\ call.kind \in Artifacts /\ pc' = "audit" /\ call' = call
  BY DEF ScreenOutput
<1>3. /\ v.text \subseteq call.text
      /\ v.allowed /\ bound.guardrail # "off" => "attack" \notin call.text
  BY <1>1, VerdictFacts
<1>4. CASE v.allowed /\ call' = [call EXCEPT !.text = v.text]
  BY <1>1, <1>2, <1>3, <1>4 DEF CallRecord, Asked, Settled
<1>5. QED
  BY <1>2, <1>3, <1>4

LEMMA ScreenCaveatsFields ==
  ASSUME TypeInv, ScreenCaveats
  PROVE  /\ pc' = "audit"
         /\ \/ call' = BlockedCall(call)
            \/ call' = call /\ (bound.guardrail # "off" => "attack" \notin call.caveats)
<1>1. bound \in BoundRecord /\ call.caveats \in Text
  BY AnswerIsText DEF TypeInv, BoundInv, Deployed, ScreenCaveats, CallRecord, Written
<1>2. PICK v \in Verdicts(call.caveats) : call' = IF v.allowed THEN call ELSE BlockedCall(call)
  BY DEF ScreenCaveats
<1>3. v.allowed /\ bound.guardrail # "off" => "attack" \notin call.caveats
  BY <1>1, VerdictFacts
<1>4. QED
  BY <1>2, <1>3 DEF ScreenCaveats

LEMMA AfterAuditFields ==
  ASSUME TypeInv, AfterAudit(call)
  PROVE  /\ Asked(call') = Asked(call) /\ Content(call') = Content(call)
         /\ call'.confidence = call.confidence /\ call'.routing = call.routing
         /\ call'.outcome = IF call.outcome = "none" THEN "answered" ELSE call.outcome
         /\ pc' = IF call.kind = "answer" /\ call.outcome # "refused" /\ call.review
                  THEN "route" ELSE "done"
BY DEF TypeInv, CallRecord, AfterAudit, Asked, Content

LEMMA RouteFields ==
  ASSUME TypeInv, Route \/ RouteRaises
  PROVE  /\ Asked(call') = Asked(call) /\ Content(call') = Content(call)
         /\ call'.confidence = call.confidence /\ call'.outcome = call.outcome
         /\ call'.routing \in {"routed", "off", "failed"}
<1>1. PICK o \in {"routed", "off", "failed"} : call' = [call EXCEPT !.routing = o]
  BY DEF Route, RouteRaises
<1>2. QED
  BY <1>1 DEF TypeInv, CallRecord, Asked, Content

-----------------------------------------------------------------------------
(***************************************************************************)
(* How far a call has come.                                                *)
(***************************************************************************)
LEMMA InitFlow == Init => FlowInv
BY NoCallFields DEF Init, ServiceInit, FlowInv, NothingLeft, Unwritten, Skipped, ToReview,
   BlockedIsEmpty, PlaceholdersOnlyRaise, Before, InCall, Content, Nothing, Artifacts

\* A step that keeps a call where it is, or leaves nothing of it.
LEMMA OutsideFlow ==
  ASSUME TypeInv, FlowInv, bound' = bound, pc' \notin InCall, pc \notin {"boot", "refused"},
         (pc \notin InCall /\ UNCHANGED <<call, trail, console, exposed>>) \/ Forgotten
  PROVE  FlowInv'
<1>1. NothingLeft'
  BY DEF FlowInv, NothingLeft, Forgotten
<1>2. Content(call') = Nothing /\ call'.kind = "answer" /\ call'.outcome = "none"
  BY <1>1, NoCallFields DEF NothingLeft
<1>3. QED
  BY <1>1, <1>2 DEF FlowInv, Unwritten, Skipped, ToReview, BlockedIsEmpty,
     PlaceholdersOnlyRaise, Before, InCall, Content, Nothing, Artifacts

\* A call begins with nothing.
LEMMA BeginFlow ==
  ASSUME NEW kind \in Kinds, NEW question, NEW actor, Begin(kind, question, actor)
  PROVE  FlowInv'
<1>1. pc' = "redact"
  BY DEF Begin
<1>2. QED
  BY <1>1, BeginFields DEF FlowInv, NothingLeft, Unwritten, Skipped, ToReview,
     BlockedIsEmpty, PlaceholdersOnlyRaise, Before, InCall, Content, Nothing, Ended

LEMMA AbortFlow ==
  ASSUME TypeInv, FlowInv, Abort
  PROVE  FlowInv'
<1>1. pc' = "done" /\ bound' = bound
  BY DEF Abort
<1>2. QED
  BY <1>1, AbortFields DEF FlowInv, NothingLeft, Unwritten, Skipped, ToReview,
     BlockedIsEmpty, PlaceholdersOnlyRaise, Before, InCall, Content, Nothing, Ended, Asked

\* A call that is blocked goes to the audit, and no placeholder profile blocks one.
LEMMA BlockedFlow ==
  ASSUME TypeInv, FlowInv, pc' = "audit", call' = BlockedCall(call), bound' = bound,
         ~bound.placeholder
  PROVE  FlowInv'
<1>1. /\ call'.kind = call.kind /\ Content(call') = Nothing /\ call'.review
  BY BlockedFields DEF TypeInv, Asked
<1>2. QED
  BY <1>1 DEF FlowInv, NothingLeft, Unwritten, Skipped, ToReview, BlockedIsEmpty,
     PlaceholdersOnlyRaise, Before, InCall, Content, Nothing, Ended

\* A service step with a placeholder bound is one of the first three.
LEMMA NoPlaceholder ==
  ASSUME FlowInv, pc \in (InCall \ {"redact", "screen_input", "retrieve"}) \ Ended
  PROVE  ~bound.placeholder
BY DEF FlowInv, PlaceholdersOnlyRaise

LEMMA RedactFlow == ASSUME TypeInv, FlowInv, Redact PROVE FlowInv'
<1>1. pc = "redact" /\ pc' = "screen_input" /\ bound' = bound
  BY DEF Redact
<1>2. QED
  BY <1>1, RedactFields DEF FlowInv, NothingLeft, Unwritten, Skipped, ToReview, BlockedIsEmpty,
     PlaceholdersOnlyRaise, Before, InCall, Content, Ended, Settled

LEMMA ScreenInputFlow == ASSUME TypeInv, FlowInv, ScreenInput PROVE FlowInv'
<1>1. pc = "screen_input" /\ bound' = bound
  BY DEF ScreenInput
<1>2. CASE pc' = "retrieve"
  BY <1>1, <1>2, ScreenInputFields DEF FlowInv, NothingLeft, Unwritten, Skipped, ToReview,
     BlockedIsEmpty, PlaceholdersOnlyRaise, Before, InCall, Content, Ended, Settled
<1>3. CASE pc' # "retrieve"
  BY <1>1, <1>3, ScreenInputFields, BlockedFlow
<1>4. QED
  BY <1>2, <1>3

LEMMA RetrieveFlow == ASSUME TypeInv, FlowInv, Retrieve PROVE FlowInv'
<1>1. pc = "retrieve" /\ bound' = bound /\ ~bound.placeholder
  BY DEF Retrieve
<1>2. QED
  BY <1>1, RetrieveFields DEF FlowInv, NothingLeft, Unwritten, Skipped, ToReview, BlockedIsEmpty,
     PlaceholdersOnlyRaise, Before, InCall, Content, Artifacts, TypeInv, Undecided

LEMMA GroundFlow == ASSUME TypeInv, FlowInv, Ground PROVE FlowInv'
<1>1. pc = "ground" /\ pc' = "generate" /\ bound' = bound /\ call' = call /\ ~bound.placeholder
  BY NoPlaceholder DEF Ground, InCall, Ended
<1>2. QED
  BY <1>1 DEF FlowInv, NothingLeft, Unwritten, Skipped, ToReview, BlockedIsEmpty,
     PlaceholdersOnlyRaise, Before, InCall

LEMMA GenerateAnswerFlow == ASSUME TypeInv, FlowInv, GenerateAnswer PROVE FlowInv'
<1>1. /\ pc = "generate" /\ pc' = "critique" /\ bound' = bound /\ call.kind = "answer"
      /\ ~bound.placeholder /\ call.outcome = "none"
  BY NoPlaceholder DEF GenerateAnswer, InCall, Ended, TypeInv, Undecided, Before
<1>2. call'.kind = "answer" /\ call'.outcome = "none"
  BY <1>1, DraftedFacts DEF GenerateAnswer, Settled, Asked, TypeInv
<1>3. QED
  BY <1>1, <1>2 DEF FlowInv, NothingLeft, Unwritten, Skipped, ToReview, BlockedIsEmpty,
     PlaceholdersOnlyRaise, Before, InCall, Artifacts

LEMMA GenerateArtifactFlow ==
  ASSUME TypeInv, FlowInv, NEW kind \in Artifacts, NEW items \in ItemReplies(call),
         GenerateArtifact(kind, items)
  PROVE  FlowInv'
<1>1. /\ pc = "generate" /\ pc' \in {"audit", "screen_output"} /\ bound' = bound
      /\ call.kind \in Artifacts /\ ~bound.placeholder /\ call.outcome = "none"
  BY NoPlaceholder DEF GenerateArtifact, InCall, Ended, TypeInv, Undecided, Before
<1>2. call'.kind = call.kind /\ call'.outcome = "none" /\ call'.caveats = call.caveats
  BY <1>1, ArtifactFacts DEF GenerateArtifact, Settled, Asked, TypeInv
<1>3. QED
  BY <1>1, <1>2 DEF FlowInv, NothingLeft, Unwritten, Skipped, ToReview, BlockedIsEmpty,
     PlaceholdersOnlyRaise, Before, InCall, Artifacts

LEMMA SelfCritiqueFlow == ASSUME TypeInv, FlowInv, SelfCritique PROVE FlowInv'
<1>1. /\ pc = "critique" /\ pc' = "screen_output" /\ bound' = bound /\ ~bound.placeholder
      /\ call.outcome = "none" /\ bound.policy.reviewAll
  BY NoPlaceholder
     DEF SelfCritique, InCall, Ended, TypeInv, Undecided, Writing, BoundInv, Deployed
<1>2. call.kind = "answer"
  BY <1>1 DEF TypeInv, CallRecord, Kinds, FlowInv, Skipped
<1>3. call'.kind = "answer" /\ call'.outcome = "none" /\ call'.review
  BY <1>1, <1>2, SelfCritiqueFields DEF Asked
<1>4. QED
  BY <1>1, <1>3 DEF FlowInv, NothingLeft, Unwritten, Skipped, ToReview, BlockedIsEmpty,
     PlaceholdersOnlyRaise, Before, InCall, Artifacts

LEMMA ScreenOutputFlow == ASSUME TypeInv, FlowInv, ScreenOutput PROVE FlowInv'
<1>1. /\ pc = "screen_output" /\ bound' = bound /\ ~bound.placeholder /\ call.outcome = "none"
  BY NoPlaceholder DEF ScreenOutput, InCall, Ended, TypeInv, Undecided, Writing
<1>2. CASE pc' = "audit" /\ call' = BlockedCall(call)
  BY <1>1, <1>2, BlockedFlow
<1>3. CASE /\ pc' \in {"audit", "screen_caveats"} /\ call.kind = "answer"
           /\ Asked(call') = Asked(call) /\ Settled(call') = Settled(call)
  BY <1>1, <1>3 DEF FlowInv, NothingLeft, Unwritten, Skipped, ToReview, BlockedIsEmpty,
     PlaceholdersOnlyRaise, Before, InCall, Artifacts, Asked, Settled
<1>4. CASE call.kind \in Artifacts /\ pc' = "audit" /\ call' = call
  BY <1>1, <1>4 DEF FlowInv, NothingLeft, Unwritten, Skipped, ToReview, BlockedIsEmpty,
     PlaceholdersOnlyRaise, Before, InCall, Artifacts
<1>5. QED
  BY <1>2, <1>3, <1>4, ScreenOutputFields

LEMMA ScreenCaveatsFlow == ASSUME TypeInv, FlowInv, ScreenCaveats PROVE FlowInv'
<1>1. /\ pc = "screen_caveats" /\ bound' = bound /\ ~bound.placeholder /\ call.outcome = "none"
  BY NoPlaceholder DEF ScreenCaveats, InCall, Ended, TypeInv, Undecided, Writing
<1>2. CASE pc' = "audit" /\ call' = BlockedCall(call)
  BY <1>1, <1>2, BlockedFlow
<1>3. CASE pc' = "audit" /\ call' = call
  BY <1>1, <1>3 DEF FlowInv, NothingLeft, Unwritten, Skipped, ToReview, BlockedIsEmpty,
     PlaceholdersOnlyRaise, Before, InCall, Artifacts
<1>4. QED
  BY <1>2, <1>3, ScreenCaveatsFields

LEMMA AuditFlow == ASSUME TypeInv, FlowInv, Audit \/ AuditRaises PROVE FlowInv'
<1>1. /\ pc = "audit" /\ bound' = bound /\ ~bound.placeholder /\ AfterAudit(call)
  BY NoPlaceholder DEF Audit, AuditRaises, InCall, Ended
<1>2. QED
  BY <1>1, AfterAuditFields DEF FlowInv, NothingLeft, Unwritten, Skipped, ToReview,
     BlockedIsEmpty, PlaceholdersOnlyRaise, Before, InCall, Artifacts, Asked, Content

LEMMA RouteFlow == ASSUME TypeInv, FlowInv, Route \/ RouteRaises PROVE FlowInv'
<1>1. /\ pc = "route" /\ pc' = "done" /\ bound' = bound /\ ~bound.placeholder
  BY NoPlaceholder DEF Route, RouteRaises, InCall, Ended
<1>2. QED
  BY <1>1, RouteFields DEF FlowInv, NothingLeft, Unwritten, Skipped, ToReview,
     BlockedIsEmpty, PlaceholdersOnlyRaise, Before, InCall, Artifacts, Asked, Content

LEMMA ServiceFlow == ASSUME TypeInv, FlowInv, Service PROVE FlowInv'
<1>1. ASSUME NEW items \in ItemReplies(call),
             BuildChecklist(items) \/ GenerateTestCases(items) \/ GenerateRegulatorQuestions(items)
      PROVE  FlowInv'
  BY <1>1, GenerateArtifactFlow
     DEF BuildChecklist, GenerateTestCases, GenerateRegulatorQuestions, Artifacts
<1>2. CASE Serve
  BY <1>1, <1>2, RedactFlow, ScreenInputFlow, RetrieveFlow, GroundFlow, GenerateAnswerFlow,
     SelfCritiqueFlow, ScreenOutputFlow, ScreenCaveatsFlow, AuditFlow, RouteFlow DEF Serve
<1>3. CASE Raise
  BY <1>3, AbortFlow, AuditFlow, RouteFlow
     DEF Raise, BuildRaises, RedactRaises, RetrieveRaises, GenerateRaises, ScreenRaises, Fail
<1>4. QED
  BY <1>2, <1>3 DEF Service

\* A reply ends a call and changes nothing of it.
LEMMA ReplyFlow == ASSUME TypeInv, FlowInv, ApiReply \/ McpReply \/ CliReply PROVE FlowInv'
<1>1. pc = "done" /\ pc' = "replied" /\ UNCHANGED <<bound, call, trail, console, exposed>>
  BY DEF ApiReply, McpReply, CliReply, DirectReply
<1>2. QED
  BY <1>1 DEF FlowInv, NothingLeft, Unwritten, Skipped, ToReview, BlockedIsEmpty,
     PlaceholdersOnlyRaise, Before, InCall, Ended

\* Seen from a call, the other steps begin one, leave nothing of it or happen outside one.
LEMMA FrontStep ==
  ASSUME TypeInv, [Next]_vars
  PROVE  \/ Boot \/ Service \/ ApiReply \/ McpReply \/ CliReply
         \/ /\ pc \notin InCall
            /\ \E kind \in Kinds, question \in Text, actor \in Actors :
                 Begin(kind, question, actor)
         \/ /\ bound' = bound /\ pc' \notin InCall /\ pc \notin {"boot", "refused"}
            /\ pc \in Ended \/ pc \notin InCall
            /\ \/ pc \notin InCall /\ UNCHANGED <<call, trail, console, exposed>>
               \/ Forgotten
         \/ UNCHANGED serviceVars
<1> DEFINE Outside == /\ bound' = bound /\ pc' \notin InCall /\ pc \notin {"boot", "refused"}
                      /\ pc \in Ended \/ pc \notin InCall
                      /\ \/ pc \notin InCall /\ UNCHANGED <<call, trail, console, exposed>>
                         \/ Forgotten
           Begins == /\ pc \notin InCall
                     /\ \E kind \in Kinds, question \in Text, actor \in Actors :
                          Begin(kind, question, actor)
<1>1. ASSUME NEW peer \in Peers, NEW credential \in Credentials, NEW kind \in Kinds,
             NEW question \in UserTexts, ApiRequest(peer, credential, kind, question)
      PROVE  Begins \/ UNCHANGED serviceVars
  <2>1. bound \in BoundRecord
    BY <1>1 DEF TypeInv, BoundInv, Deployed, ApiRequest
  <2>2. Resolve(bound, credential).actor \in Actors /\ question \in Text
    BY <2>1, ResolveTyped, UserTextTyped
  <2>3. QED
    BY <1>1, <2>2 DEF ApiRequest, Refuse, InCall
<1>2. ASSUME NEW kind \in Kinds, NEW question \in UserTexts,
             McpCall(kind, question) \/ CliCommand(kind, question)
      PROVE  Begins
  BY <1>2, UserTextTyped DEF McpCall, CliCommand, Actors, InCall
<1>3. ASSUME NEW kind \in Kinds, NEW actor \in {"model_named", "agent_default"},
             AgentCallsTool(kind, actor)
      PROVE  Begins
  <2>1. session.asked \in Text /\ actor \in Actors
    BY DEF TypeInv, SessionRecord, Actors
  <2>2. QED
    BY <1>3, <2>1 DEF AgentCallsTool, InCall
<1>4. CASE Forget
  BY <1>4 DEF Forget, InCall, Ended
<1>5. ASSUME NEW text, BeginTurn(text) PROVE Outside
  BY <1>5 DEF BeginTurn, InCall
<1>6. CASE BeforeModel \/ AfterModel
  BY <1>6 DEF BeforeModel, AfterModel, InCall
<1>7. CASE AfterAgent \/ AgentSearchesWeb
  BY <1>7 DEF AfterAgent, AgentSearchesWeb, InCall
<1>8. CASE AgentRaises
  BY <1>8 DEF AgentRaises, TurnBreaks, InCall
<1>9. CASE ToolReturns
  BY <1>9 DEF ToolReturns, TurnBreaks, InCall, Ended
<1>10. ASSUME NEW text, AgentSpeaks(text) PROVE Outside
  BY <1>10 DEF AgentSpeaks, InCall
<1>11. CASE UNCHANGED vars
  BY <1>11 DEF vars
<1>12. CASE AgentStep
  BY <1>3, <1>6, <1>7, <1>8, <1>9, <1>10, <1>12 DEF AgentStep
<1>13. QED
  BY <1>1, <1>2, <1>4, <1>5, <1>11, <1>12 DEF Next, Progress

LEMMA StepFlow == ASSUME TypeInv, FlowInv, [Next]_vars PROVE FlowInv'
<1>1. CASE Boot
  <2>1. pc' \in {"refused", "idle"} /\ UNCHANGED <<call, trail, console, exposed>> /\ pc = "boot"
    BY <1>1 DEF Boot
  <2>2. QED
    BY <2>1 DEF FlowInv, NothingLeft, Unwritten, Skipped, ToReview, BlockedIsEmpty,
       PlaceholdersOnlyRaise, Before, InCall
<1>2. CASE UNCHANGED serviceVars
  BY <1>2 DEF serviceVars, FlowInv, NothingLeft, Unwritten, Skipped, ToReview, BlockedIsEmpty,
     PlaceholdersOnlyRaise
<1>3. QED
  BY <1>1, <1>2, FrontStep, ServiceFlow, ReplyFlow, BeginFlow, OutsideFlow

LEMMA FlowHolds == Spec => []FlowInv
<1>1. Init => FlowInv
  BY InitFlow
<1>2. TypeInv /\ FlowInv /\ [Next]_vars => FlowInv'
  BY StepFlow
<1>3. QED
  BY <1>1, <1>2, AlwaysTyped, PTL DEF Spec

-----------------------------------------------------------------------------
(***************************************************************************)
(* What a call says of its sources, its row and its review.                *)
(***************************************************************************)
\* Outside a call there is nothing to say.
LEMMA OutsideWork == ASSUME FlowInv', pc' \notin InCall PROVE WorkInv'
<1>1. /\ call' = NoCall /\ trail' = {} /\ console' = {}
      /\ call'.kind = "answer" /\ call'.outcome = "none" /\ call'.routing = "not_required"
      /\ call'.confidence = 0 /\ call'.cited = {}
  BY NoCallFields DEF FlowInv, NothingLeft, Content, Nothing
<1>2. Citing'
  BY <1>1 DEF Citing, InCall, UnsupportedCap
<1>3. LeadIsShown' /\ WeakAnswersNeedTwo'
  BY <1>1 DEF LeadIsShown, WeakAnswersNeedTwo, Artifacts
<1>4. Rows'
  BY <1>1 DEF Rows, Audited, InCall
<1>5. HandedOver'
  BY <1>1 DEF HandedOver, Ended, InCall
<1>6. QED
  BY <1>2, <1>3, <1>4, <1>5 DEF WorkInv

LEMMA BeginWork ==
  ASSUME NEW kind, NEW question, NEW actor, Begin(kind, question, actor) PROVE WorkInv'
<1>1. pc' = "redact" /\ trail' = {} /\ console' = {}
  BY DEF Begin
<1>2. Citing' /\ LeadIsShown' /\ WeakAnswersNeedTwo'
  BY <1>1, BeginFields DEF Citing, LeadIsShown, WeakAnswersNeedTwo, Content, Nothing, UnsupportedCap
<1>3. Rows' /\ HandedOver'
  BY <1>1, BeginFields DEF Rows, HandedOver, Audited, Ended
<1>4. QED
  BY <1>2, <1>3 DEF WorkInv

\* Before the audit a call has no row and no review.
LEMMA BeforeAudit ==
  ASSUME WorkInv, pc \notin Audited
  PROVE  trail = {} /\ console = {} /\ call.routing = "not_required"
BY DEF WorkInv, Rows, HandedOver, Audited, Ended

\* Until then, rows and reviews have nothing to be compared with.
LEMMA NoRowsYet ==
  ASSUME WorkInv, pc \notin Audited, pc' \notin Audited,
         UNCHANGED <<trail, console>>, call'.routing = call.routing
  PROVE  Rows' /\ HandedOver' /\ WeakAnswersNeedTwo'
<1>1. trail' = {} /\ console' = {} /\ call'.routing = "not_required"
  BY BeforeAudit
<1>2. QED
  BY <1>1 DEF Rows, HandedOver, WeakAnswersNeedTwo, Audited, Ended

LEMMA AbortWork ==
  ASSUME TypeInv, WorkInv, pc \notin Audited, Abort PROVE WorkInv'
<1>1. pc' = "done" /\ trail' = {} /\ console' = {} /\ call'.routing = "not_required"
  BY BeforeAudit, AbortFields DEF Abort
<1>2. Citing' /\ LeadIsShown' /\ WeakAnswersNeedTwo'
  BY <1>1, AbortFields DEF WorkInv, Citing, LeadIsShown, WeakAnswersNeedTwo, Content, Nothing
<1>3. Rows' /\ HandedOver'
  BY <1>1, AbortFields DEF Rows, HandedOver
<1>4. QED
  BY <1>2, <1>3 DEF WorkInv

LEMMA BlockedWork ==
  ASSUME TypeInv, WorkInv, pc \notin Audited, pc' = "audit", call' = BlockedCall(call),
         UNCHANGED <<trail, console>>
  PROVE  WorkInv'
<1>1. /\ Content(call') = Nothing /\ call'.confidence = 0 /\ call'.routing = call.routing
  BY BlockedFields DEF TypeInv
<1>2. Rows' /\ HandedOver' /\ WeakAnswersNeedTwo'
  BY <1>1, NoRowsYet DEF Audited
<1>3. Citing' /\ LeadIsShown'
  BY <1>1 DEF Citing, LeadIsShown, Content, Nothing, UnsupportedCap
<1>4. QED
  BY <1>2, <1>3 DEF WorkInv

LEMMA InputWork ==
  ASSUME TypeInv, FlowInv, WorkInv, Redact \/ ScreenInput \/ Retrieve \/ Ground PROVE WorkInv'
<1>1. pc \in Before /\ pc \notin Audited /\ UNCHANGED <<trail, console>>
  BY DEF Redact, ScreenInput, Retrieve, Ground, Before, Audited
<1>2. call.cited = {} /\ call.confidence = 0 /\ call.text = NoText /\ call.lead = NoText
  BY <1>1 DEF FlowInv, Unwritten
<1>3. CASE pc' = "audit" /\ call' = BlockedCall(call)
  BY <1>1, <1>3, BlockedWork
<1>4. CASE Redact
  <2>1. Citing' /\ LeadIsShown'
    BY <1>2, <1>4, RedactFields DEF Redact, Citing, LeadIsShown, Content, UnsupportedCap
  <2>2. QED
    BY <1>1, <1>4, <2>1, NoRowsYet, RedactFields DEF Redact, WorkInv, Settled, Audited
<1>5. CASE ScreenInput /\ pc' = "retrieve"
  <2>1. Citing' /\ LeadIsShown'
    BY <1>2, <1>5, ScreenInputFields DEF Citing, LeadIsShown, Content, UnsupportedCap
  <2>2. QED
    BY <1>1, <1>5, <2>1, NoRowsYet, ScreenInputFields DEF WorkInv, Settled, Audited
<1>6. CASE Retrieve
  <2>1. Citing' /\ LeadIsShown'
    BY <1>2, <1>6, RetrieveFields DEF Citing, LeadIsShown, Content, UnsupportedCap
  <2>2. QED
    BY <1>1, <1>6, <2>1, NoRowsYet, RetrieveFields DEF WorkInv, Audited
<1>7. CASE Ground
  <2>1. Citing' /\ LeadIsShown'
    BY <1>7 DEF Ground, WorkInv, Citing, LeadIsShown
  <2>2. QED
    BY <1>1, <1>7, <2>1, NoRowsYet DEF Ground, WorkInv, Audited
<1>8. QED
  BY <1>3, <1>4, <1>5, <1>6, <1>7, ScreenInputFields

LEMMA GenerateWork ==
  ASSUME TypeInv, FlowInv, WorkInv,
         \/ GenerateAnswer
         \/ \E kind \in Artifacts, items \in ItemReplies(call) : GenerateArtifact(kind, items)
  PROVE  WorkInv'
<1>1. /\ pc = "generate" /\ pc' \in {"critique", "audit", "screen_output"}
      /\ pc \notin Audited /\ pc' \notin Audited /\ UNCHANGED <<trail, console>>
      /\ call \in CallRecord /\ call.found # {}
  BY DEF GenerateAnswer, GenerateArtifact, Audited, TypeInv, WorkInv, Citing
<1>2. CASE GenerateAnswer
  <2>1. PICK r \in Replies(call) : call' = Drafted(call, r)
    BY <1>2 DEF GenerateAnswer
  <2>2. Citing' /\ LeadIsShown'
    BY <1>1, <1>2, <2>1, DraftedFacts DEF GenerateAnswer, Citing, LeadIsShown, Asked, Artifacts
  <2>3. call'.routing = call.routing
    BY <1>1, <2>1, DraftedFacts DEF Settled
  <2>4. QED
    BY <1>1, <2>2, <2>3, NoRowsYet DEF WorkInv
<1>3. ASSUME NEW kind \in Artifacts, NEW items \in ItemReplies(call), GenerateArtifact(kind, items)
      PROVE  WorkInv'
  <2>1. call' = Artifact(call, items) /\ call.kind \in Artifacts /\ call.kind # "answer"
    BY <1>3 DEF GenerateArtifact, Artifacts
  <2>2. Citing'
    BY <1>1, <2>1, ArtifactFacts DEF Citing, Asked
  <2>3. LeadIsShown'
    BY <1>1, <2>1, ArtifactFacts, ItemFacts DEF LeadIsShown
  <2>4. call'.routing = call.routing
    BY <1>1, <2>1, ArtifactFacts DEF Settled
  <2>5. QED
    BY <1>1, <2>2, <2>3, <2>4, NoRowsYet DEF WorkInv
<1>4. QED
  BY <1>2, <1>3

LEMMA OutputWork ==
  ASSUME TypeInv, FlowInv, WorkInv, SelfCritique \/ ScreenOutput \/ ScreenCaveats PROVE WorkInv'
<1>1. /\ pc \in Writing /\ pc \notin Audited /\ pc' \in Writing \union {"audit"}
      /\ pc' \notin Audited /\ UNCHANGED <<trail, console>>
  BY ScreenOutputFields DEF SelfCritique, ScreenOutput, ScreenCaveats, Writing, Audited
<1>2. CASE pc' = "audit" /\ call' = BlockedCall(call)
  BY <1>1, <1>2, BlockedWork
<1>3. CASE SelfCritique
  <2>1. call.confidence \in 0..10 /\ call'.confidence \in 0..10
    BY <1>3, SelfCritiqueFields DEF TypeInv, CallRecord
  <2>2. call.kind = "answer" /\ call.outcome = "none"
    BY <1>1, <1>3 DEF SelfCritique, TypeInv, Undecided, CallRecord, Kinds, FlowInv, Skipped
  <2>3. Citing'
    BY <1>1, <1>3, <2>1, <2>2, SelfCritiqueFields
       DEF WorkInv, Citing, Asked, UnsupportedCap, Writing
  <2>4. LeadIsShown'
    BY <2>2, <1>3, SelfCritiqueFields DEF LeadIsShown, Asked, Artifacts
  <2>5. QED
    BY <1>1, <1>3, <2>3, <2>4, NoRowsYet, SelfCritiqueFields DEF WorkInv
<1>4. CASE /\ Asked(call') = Asked(call) /\ Settled(call') = Settled(call)
           /\ call'.lead = call.lead /\ call'.cited = call.cited
           /\ call'.confidence = call.confidence
           /\ call.kind \in Artifacts => call'.text = call.text
           /\ pc' \notin {"ground", "generate"}
  <2>1. Citing' /\ LeadIsShown'
    BY <1>4 DEF WorkInv, Citing, LeadIsShown, Asked, Settled
  <2>2. QED
    BY <1>1, <1>4, <2>1, NoRowsYet DEF WorkInv, Settled
<1>5. CASE ScreenCaveats /\ call' = call
  <2>1. Citing' /\ LeadIsShown'
    BY <1>1, <1>5 DEF WorkInv, Citing, LeadIsShown, Writing
  <2>2. QED
    BY <1>1, <1>5, <2>1, NoRowsYet DEF WorkInv
<1>6. CASE ScreenOutput
  <2>1. \/ pc' = "audit" /\ call' = BlockedCall(call)
        \/ /\ Asked(call') = Asked(call) /\ Settled(call') = Settled(call)
           /\ call'.lead = call.lead /\ call'.cited = call.cited
           /\ call'.confidence = call.confidence
           /\ call.kind \in Artifacts => call'.text = call.text
           /\ pc' \notin {"ground", "generate"}
    BY <1>6, ScreenOutputFields DEF Artifacts
  <2>2. QED
    BY <1>2, <1>4, <2>1
<1>7. QED
  BY <1>2, <1>3, <1>5, <1>6, ScreenCaveatsFields

LEMMA AuditWork == ASSUME TypeInv, FlowInv, WorkInv, Audit \/ AuditRaises PROVE WorkInv'
<1>1. /\ pc = "audit" /\ pc \notin Audited /\ console' = console
      /\ AfterAudit(call) /\ call \in CallRecord /\ call.kind \in Kinds
      /\ call.outcome \in {"none", "blocked", "refused"} /\ ~bound.placeholder
      /\ faults \in Nat
  BY NoPlaceholder DEF Audit, AuditRaises, Audited, InCall, Ended, TypeInv, Undecided, CallRecord
<1>2. trail' = {Row(call)} \/ (trail' = {} /\ faults' # 0)
  <2>1. CASE Audit
    BY <2>1 DEF Audit
  <2>2. CASE AuditRaises
    BY <1>1, <2>2 DEF AuditRaises, CountRaise
  <2>3. QED
    BY <2>1, <2>2
<1>3. console' = {} /\ call'.routing = "not_required" /\ pc' \in {"route", "done"}
  BY <1>1, BeforeAudit, AfterAuditFields
<1>4. Citing'
  BY <1>1, <1>3, AfterAuditFields DEF WorkInv, Citing, Asked, Content
<1>5. LeadIsShown' /\ WeakAnswersNeedTwo'
  BY <1>1, <1>3, AfterAuditFields DEF WorkInv, LeadIsShown, WeakAnswersNeedTwo, Asked, Content
<1>6. Rows'
  <2>1. /\ Row(call).actor = call'.actor /\ Row(call).cited = call'.cited
        /\ Row(call).response \subseteq call'.text
    <3>1. call.kind # "answer" => call.lead \subseteq call.text
      BY <1>1 DEF WorkInv, LeadIsShown, Kinds
    <3>2. QED
      BY <1>1, <3>1, AfterAuditFields DEF Row, Asked, Content
  <2>2. Row(call).decision = Stated(call'.outcome, call'.kind)
    BY <1>1, AfterAuditFields DEF Row, Decision, Stated, Asked, Kinds
  <2>3. pc' \in Audited /\ call'.outcome # "error"
    BY <1>1, <1>3, AfterAuditFields DEF Audited
  <2>4. QED
    BY <1>2, <2>1, <2>2, <2>3 DEF Rows
<1>7. HandedOver'
  <2>1. pc' = "done" => ~(call'.kind = "answer" /\ call'.outcome \in {"answered", "blocked"})
    BY <1>1, AfterAuditFields DEF FlowInv, ToReview, Asked
  <2>2. QED
    BY <1>3, <2>1 DEF HandedOver, Ended
<1>8. QED
  BY <1>4, <1>5, <1>6, <1>7 DEF WorkInv

LEMMA RouteWork == ASSUME TypeInv, FlowInv, WorkInv, Route \/ RouteRaises PROVE WorkInv'
<1>1. /\ pc = "route" /\ pc' = "done" /\ trail' = trail /\ bound' = bound
      /\ call \in CallRecord /\ call.kind = "answer" /\ call.outcome \in {"answered", "blocked"}
      /\ ~bound.placeholder /\ faults \in Nat
      /\ bound.router = "console" => bound.reachable
  BY NoPlaceholder DEF Route, RouteRaises, InCall, Ended, TypeInv, Undecided, BoundInv, Deployed
<1>2. console = {} /\ call.confidence \in 0..10
  BY <1>1 DEF WorkInv, HandedOver, Ended, TypeInv, CallRecord
<1>3. Citing' /\ LeadIsShown'
  BY <1>1, RouteFields DEF WorkInv, Citing, LeadIsShown, Asked, Content
<1>4. faults' = 0 => faults = 0
  BY <1>1 DEF Route, RouteRaises, CountRaise
<1>5. Rows'
  BY <1>1, <1>4, RouteFields DEF WorkInv, Rows, Asked, Content, Audited
<1>6. WeakAnswersNeedTwo'
  <2>1. call.cited = {} => Review(call).approvals = 2
    BY <1>1, <1>2 DEF WorkInv, Citing, Review, HighStakes, UnsupportedCap
  <2>2. Review(call).cited = call.cited
    BY DEF Review
  <2>3. console' \in {{}, {Review(call)}}
    BY <1>1, <1>2 DEF Route, RouteRaises
  <2>4. QED
    BY <2>1, <2>2, <2>3 DEF WeakAnswersNeedTwo
<1>7. HandedOver'
  <2>1. /\ call'.routing \in {"routed", "off", "failed"}
        /\ call'.routing = "routed" => console' # {}
        /\ call'.routing = "off" => console' = {} /\ bound.router = "off"
        /\ call'.routing = "failed" => faults' > 0
    <3>1. CASE Route
      BY <1>1, <1>2, <3>1 DEF Route, CallRecord
    <3>2. CASE RouteRaises
      <4>1. faults' = faults + 1
        BY <1>1, <3>2 DEF RouteRaises, CountRaise
      <4>2. call'.routing = "failed"
        BY <1>1, <3>2 DEF RouteRaises, CallRecord
      <4>3. QED
        BY <1>1, <4>1, <4>2
    <3>3. QED
      BY <3>1, <3>2
  <2>2. QED
    BY <1>1, <2>1, RouteFields DEF HandedOver, Ended, Asked
<1>8. QED
  BY <1>3, <1>5, <1>6, <1>7 DEF WorkInv

LEMMA ServiceWork == ASSUME TypeInv, FlowInv, WorkInv, Service PROVE WorkInv'
<1>1. ASSUME NEW items \in ItemReplies(call),
             BuildChecklist(items) \/ GenerateTestCases(items) \/ GenerateRegulatorQuestions(items)
      PROVE  WorkInv'
  <2>1. PICK kind \in Artifacts : GenerateArtifact(kind, items)
    BY <1>1 DEF BuildChecklist, GenerateTestCases, GenerateRegulatorQuestions, Artifacts
  <2>2. QED
    BY <2>1, GenerateWork
<1>2. CASE Serve
  BY <1>1, <1>2, InputWork, GenerateWork, OutputWork, AuditWork, RouteWork DEF Serve
<1>3. CASE Raise
  BY <1>3, AbortWork, AuditWork, RouteWork
     DEF Raise, BuildRaises, RedactRaises, RetrieveRaises, GenerateRaises, ScreenRaises, Fail,
         Audited
<1>4. QED
  BY <1>2, <1>3 DEF Service

LEMMA ReplyWork == ASSUME WorkInv, ApiReply \/ McpReply \/ CliReply PROVE WorkInv'
<1>1. pc = "done" /\ pc' = "replied" /\ UNCHANGED <<bound, call, trail, console, faults>>
  BY DEF ApiReply, McpReply, CliReply, DirectReply
<1>2. QED
  BY <1>1 DEF WorkInv, Citing, LeadIsShown, Rows, HandedOver, WeakAnswersNeedTwo, Audited, Ended

LEMMA StepWork == ASSUME TypeInv, FlowInv, WorkInv, [Next]_vars PROVE WorkInv'
<1>1. FlowInv'
  BY StepFlow
<1>2. CASE Boot
  BY <1>1, <1>2, OutsideWork DEF Boot, InCall
<1>3. CASE UNCHANGED serviceVars
  BY <1>3 DEF serviceVars, WorkInv, Citing, LeadIsShown, Rows, HandedOver, WeakAnswersNeedTwo
<1>4. QED
  BY <1>1, <1>2, <1>3, FrontStep, ServiceWork, ReplyWork, BeginWork, OutsideWork

LEMMA WorkHolds == Spec => []WorkInv
<1>1. Init => WorkInv
  BY NoCallFields DEF Init, ServiceInit, WorkInv, Citing, LeadIsShown, Rows, HandedOver,
     WeakAnswersNeedTwo, Audited, Ended, Content, Nothing, UnsupportedCap, Artifacts
<1>2. TypeInv /\ FlowInv /\ WorkInv /\ [Next]_vars => WorkInv'
  BY StepWork
<1>3. QED
  BY <1>1, <1>2, AlwaysTyped, FlowHolds, PTL DEF Spec

-----------------------------------------------------------------------------
(***************************************************************************)
(* The marks of what is shown, written and kept.                           *)
(***************************************************************************)
\* What is made of clean texts is clean, whatever the adapter masks.
LEMMA CleanFacts ==
  ASSUME bound \in BoundRecord
  PROVE  /\ Clean({}) /\ Clean(NoText)
         /\ \A t : Clean(Redacted(t))
         /\ \A t, u : Clean(t) /\ u \subseteq t => Clean(u)
         /\ \A t, u : Clean(t) /\ Clean(u) => Clean(t \union u)
         /\ \A t, u : Clean(t) /\ u \intersect Personal \subseteq t => Clean(u)
<1>1. Masked(bound.redaction) \subseteq Personal /\ NoText \intersect Personal = {}
  BY MaskedIsPersonal DEF NoText, Personal
<1>2. QED
  BY <1>1 DEF Clean, Redacted

\* A party that is shown a clean text has seen nothing else.
LEMMA ShowClean ==
  ASSUME exposed \in [Parties -> Text], ExposedClean, bound' = bound,
         NEW p \in Parties, NEW t, Show(p, t),
         IF p = "console" THEN t \intersect PayloadMask = {} ELSE Clean(t)
  PROVE  ExposedClean'
<1>1. exposed' = [exposed EXCEPT ![p] = exposed[p] \union t]
  BY DEF Show
<1>2. ASSUME NEW q \in Parties \ {"console"} PROVE Clean(exposed'[q])
  BY <1>1, <1>2 DEF ExposedClean, Clean
<1>3. exposed'["console"] \intersect PayloadMask = {}
  BY <1>1 DEF ExposedClean, Parties
<1>4. QED
  BY <1>2, <1>3 DEF ExposedClean, Clean

\* A step of a service keeps the marks if the call and what it showed are clean.
LEMMA ServiceMarks ==
  ASSUME TypeInv, MarksInv, pc \in InCall, pc' \in InCall, bound' = bound,
         UNCHANGED <<env, caller, reply, agentVars>>, CallClean', ExposedClean'
  PROVE  MarksInv'
BY DEF MarksInv, SessionClean, Clean, agentVars, InCall

\* What a service step starts from.
LEMMA CleanBefore ==
  ASSUME TypeInv, MarksInv, pc \in InCall
  PROVE  /\ bound \in BoundRecord /\ call \in CallRecord /\ exposed \in [Parties -> Text]
         /\ CallClean /\ ExposedClean
BY DEF TypeInv, BoundInv, Deployed, MarksInv, InCall

\* A call that has lost its content is as clean as its prompts.
LEMMA EmptiedClean ==
  ASSUME TypeInv, MarksInv, pc \in InCall, bound' = bound,
         Content(call') = Nothing, call'.prompt = call.prompt, call'.safe = call.safe
  PROVE  CallClean'
BY CleanBefore, CleanFacts DEF CallClean, Clean, Content, Nothing

LEMMA AbortMarks ==
  ASSUME TypeInv, MarksInv, pc \in InCall, Abort, ExposedClean',
         UNCHANGED <<env, caller, reply, agentVars>>
  PROVE  MarksInv'
<1>1. bound' = bound /\ pc' \in InCall
  BY DEF Abort, InCall
<1>2. CallClean'
  BY <1>1, AbortFields, EmptiedClean DEF Asked
<1>3. QED
  BY <1>1, <1>2, ServiceMarks

LEMMA RaisesMarks ==
  ASSUME TypeInv, MarksInv, UNCHANGED <<env, caller, reply, agentVars>>,
         BuildRaises \/ RedactRaises \/ RetrieveRaises \/ GenerateRaises \/ ScreenRaises
  PROVE  MarksInv'
<1>1. pc \in InCall /\ Abort /\ bound' = bound
  BY DEF BuildRaises, RedactRaises, RetrieveRaises, GenerateRaises, ScreenRaises, Fail, Abort, InCall
<1>2. /\ exposed \in [Parties -> Text] /\ ExposedClean
      /\ Clean(call.prompt) /\ Clean(call.safe) /\ Clean(call.text) /\ Clean(call.caveats)
  BY <1>1, CleanBefore DEF CallClean
<1>3. \/ exposed' = exposed
      \/ \E p \in Parties \ {"console"}, t \in {call.prompt, call.safe, call.text, call.caveats} :
           Show(p, t)
  BY DEF BuildRaises, RedactRaises, RetrieveRaises, GenerateRaises, ScreenRaises, Parties
<1>4. ExposedClean'
  <2>1. CASE exposed' = exposed
    BY <1>1, <1>2, <2>1 DEF ExposedClean, Clean
  <2>2. CASE exposed' # exposed
    BY <1>1, <1>2, <1>3, <2>2, ShowClean
  <2>3. QED
    BY <2>1, <2>2
<1>5. QED
  BY <1>1, <1>4, AbortMarks

LEMMA InputMarks ==
  ASSUME TypeInv, MarksInv, UNCHANGED <<env, caller, reply, agentVars>>,
         Redact \/ ScreenInput \/ Retrieve \/ Ground
  PROVE  MarksInv'
<1>1. pc \in InCall /\ bound' = bound /\ pc' \in InCall
  BY ScreenInputFields, RetrieveFields DEF Redact, ScreenInput, Retrieve, Ground, InCall
<1>2. /\ bound \in BoundRecord /\ call \in CallRecord /\ exposed \in [Parties -> Text]
      /\ CallClean /\ ExposedClean
  BY <1>1, CleanBefore
<1>3. ExposedClean'
  <2>1. CASE exposed' = exposed
    BY <1>1, <1>2, <2>1 DEF ExposedClean, Clean
  <2>2. CASE ScreenInput \/ Retrieve
    BY <1>1, <1>2, <2>2, ShowClean DEF ScreenInput, Retrieve, CallClean, Parties
  <2>3. CASE Ground
    <3>1. PICK query \in WebQueries(call.safe) : Show("web", query)
      BY <2>3 DEF Ground
    <3>2. Clean(query)
      BY <1>2, CleanFacts DEF WebQueries, OptionalQueries, GeminiQueries, CallClean
    <3>3. QED
      BY <1>1, <1>2, <3>1, <3>2, ShowClean DEF Parties
  <2>4. QED
    BY <2>1, <2>2, <2>3 DEF Redact
<1>4. CallClean'
  <2>1. CASE Redact
    <3>1. Clean(call'.prompt)
      BY <1>2, <2>1, RedactFields, CleanFacts
    <3>2. QED
      BY <1>1, <1>2, <2>1, <3>1, RedactFields DEF CallClean, Content, Clean
  <2>2. CASE ScreenInput
    <3>1. CASE call' = BlockedCall(call)
      BY <1>1, <1>2, <3>1, BlockedFields, EmptiedClean DEF Asked
    <3>2. CASE call' # BlockedCall(call)
      <4>1. Clean(call'.safe)
        BY <1>2, <2>2, <3>2, ScreenInputFields, CleanFacts DEF CallClean
      <4>2. QED
        BY <1>1, <1>2, <2>2, <3>2, <4>1, ScreenInputFields DEF CallClean, Content, Clean
    <3>3. QED
      BY <3>1, <3>2
  <2>3. CASE Retrieve
    BY <1>1, <1>2, <2>3, RetrieveFields DEF CallClean, Content, Clean
  <2>4. CASE Ground
    BY <1>1, <1>2, <2>4 DEF Ground, CallClean, Clean
  <2>5. QED
    BY <2>1, <2>2, <2>3, <2>4
<1>5. QED
  BY <1>1, <1>3, <1>4, ServiceMarks

LEMMA GenerateMarks ==
  ASSUME TypeInv, MarksInv, UNCHANGED <<env, caller, reply, agentVars>>,
         \/ GenerateAnswer
         \/ \E kind \in Artifacts, items \in ItemReplies(call) : GenerateArtifact(kind, items)
  PROVE  MarksInv'
<1>1. pc \in InCall /\ bound' = bound /\ pc' \in InCall /\ Show("model", call.safe)
  BY DEF GenerateAnswer, GenerateArtifact, InCall
<1>2. /\ bound \in BoundRecord /\ call \in CallRecord /\ exposed \in [Parties -> Text]
      /\ CallClean /\ ExposedClean
  BY <1>1, CleanBefore
<1>3. ExposedClean'
  BY <1>1, <1>2, ShowClean DEF CallClean, Parties
<1>4. CallClean'
  <2>1. CASE GenerateAnswer
    <3>1. PICK r \in Replies(call) : call' = Drafted(call, r)
      BY <2>1 DEF GenerateAnswer
    <3>2. Clean(call'.text)
      BY <1>2, <3>1, DraftedFacts, CleanFacts DEF CallClean
    <3>3. QED
      BY <1>1, <1>2, <3>1, <3>2, DraftedFacts DEF CallClean, Clean, Asked
  <2>2. ASSUME NEW kind \in Artifacts, NEW items \in ItemReplies(call), GenerateArtifact(kind, items)
        PROVE  CallClean'
    <3>1. /\ call' = Artifact(call, items)
          /\ call'.text = Rendered(items) /\ call'.lead = items.lead
      BY <1>2, <2>2, ArtifactFacts DEF GenerateArtifact
    <3>2. Clean(call'.text) /\ Clean(call'.lead)
      <4>1. CASE items.lead = NoText
        BY <1>2, <3>1, <4>1, ItemFacts, CleanFacts
      <4>2. CASE items.lead # NoText
        BY <1>2, <3>1, <4>2, ItemFacts, CleanFacts DEF CallClean
      <4>3. QED
        BY <4>1, <4>2
    <3>3. QED
      BY <1>1, <1>2, <3>1, <3>2, ArtifactFacts DEF CallClean, Clean, Asked
  <2>3. QED
    BY <2>1, <2>2
<1>5. QED
  BY <1>1, <1>3, <1>4, ServiceMarks

LEMMA OutputMarks ==
  ASSUME TypeInv, MarksInv, UNCHANGED <<env, caller, reply, agentVars>>,
         SelfCritique \/ ScreenOutput \/ ScreenCaveats
  PROVE  MarksInv'
<1>1. pc \in InCall /\ bound' = bound /\ pc' \in InCall
  BY ScreenOutputFields DEF SelfCritique, ScreenOutput, ScreenCaveats, InCall
<1>2. /\ bound \in BoundRecord /\ call \in CallRecord /\ exposed \in [Parties -> Text]
      /\ CallClean /\ ExposedClean
  BY <1>1, CleanBefore
<1>3. Clean(call.safe \union call.text)
  BY <1>2, CleanFacts DEF CallClean
<1>4. ExposedClean'
  BY <1>1, <1>2, <1>3, ShowClean DEF SelfCritique, ScreenOutput, ScreenCaveats, CallClean, Parties
<1>5. CASE call' = BlockedCall(call)
  BY <1>1, <1>2, <1>4, <1>5, BlockedFields, EmptiedClean, ServiceMarks DEF Asked
<1>6. CASE SelfCritique
  <2>1. Clean(call'.caveats)
    BY <1>2, <1>3, <1>6, SelfCritiqueFields, CleanFacts
  <2>2. CallClean'
    BY <1>1, <1>2, <1>6, <2>1, SelfCritiqueFields DEF CallClean, Clean, Asked
  <2>3. QED
    BY <1>1, <1>4, <2>2, ServiceMarks
<1>7. CASE ScreenOutput /\ call' # BlockedCall(call)
  <2>1. /\ Asked(call') = Asked(call) /\ call'.text \subseteq call.text
        /\ call'.lead = call.lead /\ call'.caveats = call.caveats
    BY <1>7, ScreenOutputFields
  <2>2. Clean(call'.text)
    BY <1>2, <2>1, CleanFacts DEF CallClean
  <2>3. CallClean'
    BY <1>1, <1>2, <2>1, <2>2 DEF CallClean, Clean, Asked
  <2>4. QED
    BY <1>1, <1>4, <2>3, ServiceMarks
<1>8. CASE ScreenCaveats /\ call' = call
  <2>1. CallClean'
    BY <1>1, <1>2, <1>8 DEF CallClean, Clean
  <2>2. QED
    BY <1>1, <1>4, <2>1, ServiceMarks
<1>9. QED
  BY <1>5, <1>6, <1>7, <1>8, ScreenCaveatsFields

LEMMA AuditMarks ==
  ASSUME TypeInv, MarksInv, UNCHANGED <<env, caller, reply, agentVars>>, Audit \/ AuditRaises
  PROVE  MarksInv'
<1>1. pc \in InCall /\ bound' = bound /\ pc' \in InCall /\ AfterAudit(call) /\ ShowRow(Row(call))
  BY DEF Audit, AuditRaises, AfterAudit, InCall
<1>2. /\ bound \in BoundRecord /\ call \in CallRecord /\ exposed \in [Parties -> Text]
      /\ CallClean /\ ExposedClean
  BY <1>1, CleanBefore
<1>3. CallClean'
  BY <1>1, <1>2, AfterAuditFields DEF CallClean, Clean, Asked, Content
<1>4. ExposedClean'
  <2>1. Clean(Row(call).prompt) /\ Clean(Row(call).response)
    BY <1>2 DEF Row, CallClean
  <2>2. Clean(Row(call).prompt \union IF Row(call).response = NoText THEN {} ELSE Row(call).response)
    BY <1>2, <2>1, CleanFacts
  <2>3. QED
    BY <1>1, <1>2, <2>2, ShowClean DEF ShowRow, Parties
<1>5. QED
  BY <1>1, <1>3, <1>4, ServiceMarks

LEMMA RouteMarks ==
  ASSUME TypeInv, MarksInv, UNCHANGED <<env, caller, reply, agentVars>>, Route \/ RouteRaises
  PROVE  MarksInv'
<1>1. pc \in InCall /\ bound' = bound /\ pc' \in InCall
  BY DEF Route, RouteRaises, InCall
<1>2. /\ bound \in BoundRecord /\ call \in CallRecord /\ exposed \in [Parties -> Text]
      /\ CallClean /\ ExposedClean
  BY <1>1, CleanBefore
<1>3. CallClean'
  BY <1>1, <1>2, RouteFields DEF CallClean, Clean, Asked, Content
<1>4. ExposedClean'
  <2>1. CASE exposed' = exposed
    BY <1>1, <1>2, <2>1 DEF ExposedClean, Clean
  <2>2. CASE Show("console", Review(call).subject)
    <3>1. Review(call).subject \intersect PayloadMask = {}
      BY DEF Review
    <3>2. QED
      BY <1>1, <1>2, <2>2, <3>1, ShowClean DEF Parties
  <2>3. QED
    BY <2>1, <2>2 DEF Route, RouteRaises
<1>5. QED
  BY <1>1, <1>3, <1>4, ServiceMarks

LEMMA ServiceStepMarks == ASSUME TypeInv, MarksInv, Service PROVE MarksInv'
<1>1. UNCHANGED <<env, caller, reply, agentVars>>
  BY DEF Service
<1>2. ASSUME NEW items \in ItemReplies(call),
             BuildChecklist(items) \/ GenerateTestCases(items) \/ GenerateRegulatorQuestions(items)
      PROVE  MarksInv'
  <2>1. PICK kind \in Artifacts : GenerateArtifact(kind, items)
    BY <1>2 DEF BuildChecklist, GenerateTestCases, GenerateRegulatorQuestions, Artifacts
  <2>2. QED
    BY <1>1, <2>1, GenerateMarks
<1>3. CASE Serve
  BY <1>1, <1>2, <1>3, InputMarks, GenerateMarks, OutputMarks, AuditMarks, RouteMarks DEF Serve
<1>4. CASE Raise
  BY <1>1, <1>4, RaisesMarks, AuditMarks, RouteMarks DEF Raise
<1>5. QED
  BY <1>3, <1>4 DEF Service

\* Outside a call only the session and the agent's row are left to look at.
LEMMA OutsideMarks ==
  ASSUME TypeInv', FlowInv', pc' \notin InCall, pc' # "boot",
         bound' \in BoundRecord => SessionClean'
  PROVE  MarksInv'
<1>1. CASE pc' = "refused"
  BY <1>1 DEF MarksInv
<1>2. CASE pc' # "refused"
  <2>1. bound' \in BoundRecord
    BY <1>2 DEF TypeInv, BoundInv, Deployed
  <2>2. /\ call'.prompt = {} /\ call'.safe = {} /\ Content(call') = Nothing
        /\ exposed' = Nobody
    BY NoCallFields DEF FlowInv, NothingLeft
  <2>3. NoText \intersect Masked(bound'.redaction) = {}
    <3>1. Masked(bound'.redaction) \subseteq Personal
      BY <2>1 DEF BoundRecord, Masked, Personal
    <3>2. QED
      BY <3>1 DEF NoText, Personal
  <2>4. CallClean'
    BY <2>2, <2>3 DEF CallClean, Clean, Content, Nothing
  <2>5. ExposedClean'
    BY <2>2 DEF ExposedClean, Clean, Nobody, Parties
  <2>6. QED
    BY <2>1, <2>4, <2>5 DEF MarksInv
<1>3. QED
  BY <1>1, <1>2

LEMMA BootMarks == ASSUME TypeInv', FlowInv', MarksInv, Boot PROVE MarksInv'
<1>1. /\ session'.prompt = {} /\ session'.response = NoText /\ turn'.row = {}
      /\ pc' \in {"refused", "idle"}
  BY DEF Boot, MarksInv, agentVars
<1>2. ASSUME bound' \in BoundRecord PROVE SessionClean'
  <2>1. Masked(bound'.redaction) \subseteq Personal
    BY <1>2 DEF BoundRecord, Masked, Personal
  <2>2. QED
    BY <1>1, <2>1 DEF SessionClean, Clean, NoText, Personal
<1>3. QED
  BY <1>1, <1>2, OutsideMarks DEF InCall

\* A call that begins has nothing to be clean of; the session may have lost its response.
LEMMA BeginMarks ==
  ASSUME TypeInv, MarksInv, pc \notin {"boot", "refused"},
         NEW kind, NEW question, NEW actor, Begin(kind, question, actor),
         session'.prompt = session.prompt,
         session'.response \in {session.response, NoText}, turn'.row = turn.row
  PROVE  MarksInv'
<1>1. bound \in BoundRecord /\ bound' = bound /\ pc' = "redact" /\ exposed' = Nobody
  BY DEF TypeInv, BoundInv, Deployed, Begin
<1>2. Clean({}) /\ Clean(NoText)
  BY <1>1, CleanFacts
<1>3. CallClean'
  BY <1>1, <1>2, BeginFields DEF CallClean, Clean, Content, Nothing
<1>4. ExposedClean'
  BY <1>1 DEF ExposedClean, Clean, Nobody, Parties
<1>5. SessionClean'
  BY <1>1, <1>2 DEF MarksInv, SessionClean, Clean
<1>6. QED
  BY <1>1, <1>3, <1>4, <1>5 DEF MarksInv

\* The callbacks keep what they have redacted and screened, and the row is made of that.
LEMMA AgentMarks ==
  ASSUME TypeInv, MarksInv, BeforeModel \/ AfterModel \/ AfterAgent PROVE SessionClean'
<1>1. /\ pc \in InTurn /\ pc \notin {"boot", "refused"} /\ bound' = bound
      /\ session \in SessionRecord /\ session.asked \in Text
      /\ turn \in TurnRecord /\ turn.shown \in Text
  BY DEF BeforeModel, AfterModel, AfterAgent, TypeInv, SessionRecord, TurnRecord, InTurn
<1>2. SessionClean
  BY <1>1 DEF MarksInv
<1>3. CASE BeforeModel
  <2>1. PICK v \in Verdicts(Redacted(session.asked)) :
          /\ session' = [session EXCEPT !.prompt = v.text, !.blocked = Remembers(v)]
          /\ turn' = [turn EXCEPT !.blocked = @ \/ ~v.allowed]
    BY <1>3 DEF BeforeModel
  <2>2. Clean(v.text)
    BY <1>1, CallbackTyped DEF Clean
  <2>3. QED
    BY <1>1, <1>2, <2>1, <2>2 DEF SessionClean, Clean, SessionRecord, TurnRecord
<1>4. CASE AfterModel
  <2>1. PICK v \in Verdicts(Redacted(turn.shown)) :
          /\ session' = [session EXCEPT !.response = v.text, !.blocked = Remembers(v)]
          /\ turn' = [turn EXCEPT !.blocked = @ \/ ~v.allowed]
    BY <1>4 DEF AfterModel
  <2>2. Clean(v.text)
    BY <1>1, CallbackTyped DEF Clean
  <2>3. QED
    BY <1>1, <1>2, <2>1, <2>2 DEF SessionClean, Clean, SessionRecord, TurnRecord
<1>5. CASE AfterAgent
  <2>1. session' = session /\ turn'.row = {TurnRow}
    BY <1>1, <1>5 DEF AfterAgent, TurnRecord
  <2>2. QED
    BY <1>1, <1>2, <2>1 DEF SessionClean, Clean, TurnRow
<1>6. QED
  BY <1>3, <1>4, <1>5

\* The other steps keep the session's texts, or lose them.
LEMMA SessionKept ==
  ASSUME TypeInv, MarksInv, pc \notin {"boot", "refused"}, bound' = bound,
         session'.prompt = session.prompt,
         session'.response \in {session.response, NoText}, turn'.row \in {turn.row, {}}
  PROVE  SessionClean'
<1>1. bound \in BoundRecord
  BY DEF TypeInv, BoundInv, Deployed
<1>2. Clean(NoText) /\ SessionClean
  BY <1>1, CleanFacts DEF MarksInv
<1>3. QED
  BY <1>2 DEF SessionClean, Clean

LEMMA StepMarks == ASSUME TypeInv, FlowInv, MarksInv, [Next]_vars PROVE MarksInv'
<1>1. TypeInv' /\ FlowInv'
  BY StepTyped, StepFlow
<1>2. CASE Boot
  BY <1>1, <1>2, BootMarks
<1>3. CASE Service
  BY <1>3, ServiceStepMarks
<1>4. CASE \/ ApiReply \/ McpReply \/ CliReply \/ UNCHANGED vars
           \/ UNCHANGED <<serviceVars, agentVars>>
  BY <1>4 DEF ApiReply, McpReply, CliReply, DirectReply, vars, serviceVars, agentVars,
     MarksInv, CallClean, ExposedClean, SessionClean, Clean
<1>5. CASE Forget
  <2>1. pc \notin {"boot", "refused"} /\ bound' = bound /\ pc' = "idle"
        /\ session' = session /\ turn' = turn
    BY <1>5 DEF Forget, agentVars
  <2>2. QED
    BY <1>1, <2>1, SessionKept, OutsideMarks DEF InCall
<1>6. ASSUME NEW peer \in Peers, NEW credential \in Credentials, NEW kind \in Kinds,
             NEW question \in UserTexts, ApiRequest(peer, credential, kind, question)
      PROVE  MarksInv'
  <2>1. pc = "idle" /\ session' = session /\ turn' = turn
    BY <1>6 DEF ApiRequest, agentVars
  <2>2. UNCHANGED <<serviceVars, agentVars>> \/ \E actor : Begin(kind, question, actor)
    BY <1>6 DEF ApiRequest, Refuse, agentVars
  <2>3. QED
    BY <1>4, <2>1, <2>2, BeginMarks
<1>7. ASSUME NEW kind \in Kinds, NEW question \in UserTexts,
             McpCall(kind, question) \/ CliCommand(kind, question)
      PROVE  MarksInv'
  <2>1. pc = "idle" /\ session' = session /\ turn' = turn
        /\ \E actor : Begin(kind, question, actor)
    BY <1>7 DEF McpCall, CliCommand, agentVars
  <2>2. QED
    BY <2>1, BeginMarks
<1>8. ASSUME NEW text \in UserTexts, BeginTurn(text) PROVE MarksInv'
  <2>1. pc = "idle" /\ pc' = "before_model" /\ bound' = bound
    BY <1>8 DEF BeginTurn
  <2>2. session'.prompt = session.prompt /\ session'.response = session.response /\ turn'.row = {}
    BY <1>8 DEF BeginTurn, NoTurn, TypeInv, SessionRecord
  <2>3. QED
    BY <1>1, <2>1, <2>2, SessionKept, OutsideMarks DEF InCall
<1>9. CASE AgentStep
  <2>1. CASE BeforeModel \/ AfterModel \/ AfterAgent
    <3>1. pc' \notin InCall /\ pc' # "boot"
      BY <2>1 DEF BeforeModel, AfterModel, AfterAgent, InCall
    <3>2. QED
      BY <1>1, <2>1, <3>1, AgentMarks, OutsideMarks
  <2>2. CASE AgentRaises \/ ToolReturns
    <3>1. /\ pc' \in {"idle", "before_model"} /\ pc \notin {"boot", "refused"} /\ bound' = bound
          /\ session' = session /\ turn' = turn
      BY <2>2 DEF AgentRaises, ToolReturns, TurnBreaks, agentVars
    <3>2. QED
      BY <1>1, <3>1, SessionKept, OutsideMarks DEF InCall
  <2>3. CASE AgentSearchesWeb
    <3>1. pc = "agent_model" /\ pc' = "before_model" /\ bound' = bound
      BY <2>3 DEF AgentSearchesWeb
    <3>2. session'.prompt = session.prompt /\ session'.response = NoText /\ turn'.row = turn.row
      BY <2>3 DEF AgentSearchesWeb, TypeInv, SessionRecord, TurnRecord
    <3>3. QED
      BY <1>1, <3>1, <3>2, SessionKept, OutsideMarks DEF InCall
  <2>4. ASSUME NEW text, AgentSpeaks(text) PROVE MarksInv'
    <3>1. pc = "agent_model" /\ pc' = "after_model" /\ bound' = bound
      BY <2>4 DEF AgentSpeaks
    <3>2. session' = session /\ turn'.row = turn.row
      BY <2>4 DEF AgentSpeaks, TypeInv, TurnRecord
    <3>3. QED
      BY <1>1, <3>1, <3>2, SessionKept, OutsideMarks DEF InCall
  <2>5. ASSUME NEW kind \in Kinds, NEW actor \in {"model_named", "agent_default"},
               AgentCallsTool(kind, actor)
        PROVE  MarksInv'
    <3>1. pc = "agent_model" /\ Begin(kind, session.asked, actor)
      BY <2>5 DEF AgentCallsTool
    <3>2. session'.prompt = session.prompt /\ session'.response = NoText /\ turn'.row = turn.row
      BY <2>5 DEF AgentCallsTool, TypeInv, SessionRecord, TurnRecord
    <3>3. QED
      BY <3>1, <3>2, BeginMarks
  <2>6. QED
    BY <1>9, <2>1, <2>2, <2>3, <2>4, <2>5 DEF AgentStep
<1>10. QED
  BY <1>2, <1>3, <1>4, <1>5, <1>6, <1>7, <1>8, <1>9 DEF Next, Progress

LEMMA MarksHold == Spec => []MarksInv
<1>1. Init => MarksInv
  BY DEF Init, ServiceInit, MarksInv, NoTurn
<1>2. TypeInv /\ FlowInv /\ MarksInv /\ [Next]_vars => MarksInv'
  BY StepMarks
<1>3. QED
  BY <1>1, <1>2, AlwaysTyped, FlowHolds, PTL DEF Spec

-----------------------------------------------------------------------------
(***************************************************************************)
(* What is screened, and what the callers are told.                        *)
(***************************************************************************)
\* What is not there does not attack, and what is shorter attacks no more.
LEMMA AttackFacts ==
  /\ ~Attacks(NoText)
  /\ \A t : "attack" \notin t => ~Attacks(t)
BY DEF Attacks

\* A step of a service stays in its call and keeps the bindings.
LEMMA ServiceStays ==
  ASSUME TypeInv, Service PROVE bound' = bound /\ pc \in InCall /\ pc' \in InCall
BY ScreenOutputFields
   DEF Service, Serve, Raise, Redact, ScreenInput, Retrieve, Ground, GenerateAnswer,
       BuildChecklist, GenerateTestCases, GenerateRegulatorQuestions, GenerateArtifact,
       SelfCritique, ScreenOutput, ScreenCaveats, Audit, Route, BuildRaises, RedactRaises,
       RetrieveRaises, GenerateRaises, ScreenRaises, AuditRaises, RouteRaises, Fail, Abort,
       AfterAudit, InCall

LEMMA EmptyScreened ==
  ASSUME Content(call') = Nothing PROVE CallScreened'
BY AttackFacts DEF CallScreened, Attacks, Content, Nothing

LEMMA ServiceScreened ==
  ASSUME TypeInv, FlowInv, CallScreened, Service PROVE CallScreened'
<1>1. FlowInv' /\ bound' = bound
  BY ServiceFlow, ServiceStays
<1>2. CASE pc' \notin {"screen_caveats", "audit"} \union Audited
  BY <1>2 DEF CallScreened
<1>3. CASE Abort
  BY <1>3, AbortFields, EmptyScreened
<1>4. CASE call' = BlockedCall(call)
  BY <1>4, BlockedFields, EmptyScreened DEF TypeInv
<1>5. CASE Retrieve /\ pc' = "audit"
  <2>1. Content(call') = Nothing
    BY <1>5, RetrieveFields DEF Retrieve, FlowInv, Unwritten, Before, Content, Nothing
  <2>2. QED
    BY <2>1, EmptyScreened
<1>6. ASSUME NEW kind \in Artifacts, NEW items \in ItemReplies(call), GenerateArtifact(kind, items)
      PROVE  CallScreened'
  <2>1. call'.caveats = NoText
    BY <1>6, ArtifactFacts DEF GenerateArtifact, TypeInv, FlowInv, Skipped
  <2>2. pc' = "screen_output" \/ (pc' = "audit" /\ call'.text = NoText)
    BY <1>6 DEF GenerateArtifact
  <2>3. QED
    BY <1>2, <2>1, <2>2, AttackFacts DEF CallScreened, Attacks, Audited
<1>7. CASE ScreenOutput /\ call' # BlockedCall(call)
  <2>1. /\ pc' \in {"audit", "screen_caveats"}
        /\ call'.caveats = call.caveats /\ (pc' = "audit" => call'.caveats = NoText)
        /\ bound.guardrail # "off" => "attack" \notin call'.text
    BY <1>7, ScreenOutputFields DEF FlowInv, Skipped
  <2>2. QED
    BY <1>1, <2>1, AttackFacts DEF CallScreened, Screening, Attacks, Audited
<1>8. CASE ScreenCaveats /\ call' # BlockedCall(call)
  <2>1. pc = "screen_caveats" /\ call' = call
        /\ (bound.guardrail # "off" => "attack" \notin call.caveats)
    BY <1>8, ScreenCaveatsFields DEF ScreenCaveats
  <2>2. QED
    BY <1>1, <2>1, AttackFacts DEF CallScreened, Screening, Attacks
<1>9. CASE Audit \/ AuditRaises \/ Route \/ RouteRaises
  <2>1. pc \in {"audit"} \union Audited
    BY <1>9 DEF Audit, AuditRaises, Route, RouteRaises, Audited
  <2>2. Content(call') = Content(call)
    BY <1>9, AfterAuditFields, RouteFields DEF Audit, AuditRaises
  <2>3. QED
    BY <1>1, <2>1, <2>2 DEF CallScreened, Screening, Attacks, Content
<1>10. CASE Redact \/ ScreenInput \/ Ground \/ GenerateAnswer \/ SelfCritique
  <2>1. pc' \in Before \union {"critique", "screen_output"} \/ call' = BlockedCall(call)
    BY <1>10, ScreenInputFields DEF Redact, Ground, GenerateAnswer, SelfCritique, Before
  <2>2. QED
    BY <1>2, <1>4, <2>1 DEF Before, Audited
<1>11. ASSUME NEW items \in ItemReplies(call),
              BuildChecklist(items) \/ GenerateTestCases(items) \/ GenerateRegulatorQuestions(items)
       PROVE  CallScreened'
  <2>1. PICK kind \in Artifacts : GenerateArtifact(kind, items)
    BY <1>11 DEF BuildChecklist, GenerateTestCases, GenerateRegulatorQuestions, Artifacts
  <2>2. QED
    BY <1>6, <2>1
<1>12. CASE Serve
  <2>1. CASE Retrieve
    <3>1. pc' \in {"audit", "ground", "generate"}
      BY <2>1, RetrieveFields
    <3>2. QED
      BY <1>2, <1>5, <2>1, <3>1 DEF Audited
  <2>2. QED
    BY <1>4, <1>7, <1>8, <1>9, <1>10, <1>11, <1>12, <2>1 DEF Serve
<1>13. CASE Raise
  BY <1>3, <1>9, <1>13 DEF Raise, BuildRaises, RedactRaises, RetrieveRaises, GenerateRaises,
     ScreenRaises, Fail
<1>14. QED
  BY <1>12, <1>13 DEF Service

\* Who is told what: nothing new, nothing at all, what the call holds, or what the
\* callback after the model has let through.
Silent(r) == r.text = NoText /\ r.caveats = NoText /\ r.routing = "undisclosed"

LEMMA ReplyStep ==
  ASSUME TypeInv, [Next]_vars
  PROVE  \/ UNCHANGED vars
         \/ pc # "replied" /\ pc' \notin {"boot", "replied"} /\ reply' = reply
         \/ pc' \notin {"boot", "replied"} /\ Silent(reply')
         \/ ApiReply \/ McpReply \/ CliReply
         \/ AfterModel
<1>1. Silent(NoReply) /\ \A s : Silent([NoReply EXCEPT !.status = s])
  BY DEF Silent, NoReply
<1>2. CASE Boot
  BY <1>2 DEF Boot
<1>3. CASE Service
  <2>1. pc' # "boot" /\ reply' = reply
    BY <1>3, ServiceStays DEF Service, InCall
  <2>2. pc # "replied" /\ pc' # "replied"
    BY <1>3, ScreenOutputFields
       DEF Service, Serve, Raise, Redact, ScreenInput, Retrieve, Ground, GenerateAnswer,
           BuildChecklist, GenerateTestCases, GenerateRegulatorQuestions, GenerateArtifact,
           SelfCritique, ScreenOutput, ScreenCaveats, Audit, Route, BuildRaises, RedactRaises,
           RetrieveRaises, GenerateRaises, ScreenRaises, AuditRaises, RouteRaises, Fail, Abort,
           AfterAudit
  <2>3. QED
    BY <2>1, <2>2
<1>4. CASE Forget
  BY <1>1, <1>4 DEF Forget
<1>5. CASE AgentStep
  <2>1. CASE AfterAgent \/ AgentSearchesWeb \/ \E text \in Writes(session.asked) \union {{}} : AgentSpeaks(text)
    BY <2>1 DEF AfterAgent, AgentSearchesWeb, AgentSpeaks
  <2>2. CASE \E kind \in Kinds, actor \in {"model_named", "agent_default"} :
               AgentCallsTool(kind, actor)
    BY <2>2 DEF AgentCallsTool, Begin
  <2>3. CASE AgentRaises \/ ToolReturns
    BY <1>1, <2>3 DEF AgentRaises, ToolReturns, TurnBreaks
  <2>4. CASE BeforeModel
    BY <1>1, <2>4 DEF BeforeModel
  <2>5. QED
    BY <1>5, <2>1, <2>2, <2>3, <2>4 DEF AgentStep
<1>6. ASSUME NEW peer, NEW credential, NEW kind, NEW question,
             ApiRequest(peer, credential, kind, question)
      PROVE  pc' \notin {"boot", "replied"} /\ Silent(reply')
  <2>1. pc' \notin {"boot", "replied"}
    BY <1>6 DEF ApiRequest, Refuse, serviceVars, Begin
  <2>2. QED
    BY <1>1, <1>6, <2>1 DEF ApiRequest, Refuse
<1>7. ASSUME NEW kind, NEW question, McpCall(kind, question) \/ CliCommand(kind, question)
      PROVE  pc' \notin {"boot", "replied"} /\ Silent(reply')
  BY <1>1, <1>7 DEF McpCall, CliCommand, Begin
<1>8. ASSUME NEW text, BeginTurn(text) PROVE pc' \notin {"boot", "replied"} /\ Silent(reply')
  BY <1>1, <1>8 DEF BeginTurn
<1>9. QED
  BY <1>2, <1>3, <1>4, <1>5, <1>6, <1>7, <1>8 DEF Next, Progress

\* Texts that are screened: of a call.
LEMMA StepCallScreened ==
  ASSUME TypeInv, FlowInv, CallScreened, [Next]_vars PROVE CallScreened'
<1>1. CASE Boot
  BY <1>1 DEF Boot, CallScreened, Audited
<1>2. CASE Service
  BY <1>2, ServiceScreened
<1>3. CASE ApiReply \/ McpReply \/ CliReply
  <2>1. pc = "done" /\ UNCHANGED <<bound, call>>
    BY <1>3 DEF ApiReply, McpReply, CliReply, DirectReply
  <2>2. QED
    BY <2>1 DEF CallScreened, Screening, Attacks, Audited
<1>4. ASSUME NEW kind, NEW question, NEW actor, Begin(kind, question, actor)
      PROVE  CallScreened'
  BY <1>4 DEF Begin, CallScreened, Audited
<1>5. CASE pc' \notin InCall
  BY <1>5 DEF CallScreened, Audited, InCall
<1>6. CASE UNCHANGED serviceVars
  BY <1>6 DEF serviceVars, CallScreened, Screening, Attacks
<1>7. QED
  BY <1>1, <1>2, <1>3, <1>4, <1>5, <1>6, FrontStep

\* And of what somebody is told.
LEMMA StepReplyScreened ==
  ASSUME TypeInv, CallScreened, ReplyScreened, [Next]_vars PROVE ReplyScreened'
<1>1. CASE Boot
  BY <1>1, AttackFacts DEF Boot, ReplyScreened, NoReply, Attacks
<1>2. CASE ~Boot
  <2>1. bound' = bound
    BY <1>2, FrontStep, ServiceStays
       DEF ApiReply, McpReply, CliReply, DirectReply, Begin, serviceVars
  <2>2. CASE UNCHANGED vars \/ (pc' \notin {"boot", "replied"} /\ reply' = reply)
    BY <2>1, <2>2 DEF ReplyScreened, Screening, Attacks, vars, serviceVars
  <2>3. CASE pc' \notin {"boot", "replied"} /\ Silent(reply')
    BY <2>3, AttackFacts DEF ReplyScreened, Silent, Attacks
  <2>4. CASE ApiReply \/ McpReply \/ CliReply
    <3>1. /\ pc = "done" /\ pc' = "replied"
          /\ reply'.text = call.text /\ reply'.caveats = call.caveats
      BY <2>4 DEF ApiReply, McpReply, CliReply, DirectReply, Answered
    <3>2. QED
      BY <2>1, <3>1 DEF CallScreened, ReplyScreened, Screening, Attacks, Audited
  <2>5. CASE AfterModel
    <3>1. pc = "after_model" /\ pc' = "after_agent" /\ turn.shown \in Text
      BY <2>5 DEF AfterModel, TypeInv, TurnRecord
    <3>2. PICK v \in Verdicts(Redacted(turn.shown)) :
            reply' = IF v.allowed THEN [NoReply EXCEPT !.status = "told", !.text = v.text]
                     ELSE [NoReply EXCEPT !.status = "withheld"]
      BY <2>5 DEF AfterModel
    <3>3. v.allowed /\ bound.guardrail # "off" => "attack" \notin v.text
      BY <3>1, CallbackTyped DEF InTurn
    <3>4. reply'.caveats = NoText /\ (reply'.text = NoText \/ (v.allowed /\ reply'.text = v.text))
      BY <3>2 DEF NoReply
    <3>5. QED
      BY <2>1, <3>1, <3>3, <3>4, AttackFacts DEF ReplyScreened, Screening, Attacks
  <2>6. QED
    BY <1>2, <2>2, <2>3, <2>4, <2>5, ReplyStep
<1>3. QED
  BY <1>1, <1>2

LEMMA ScreenHolds == Spec => []ScreenInv
<1>1. Init => ScreenInv
  BY DEF Init, ServiceInit, ScreenInv, CallScreened, ReplyScreened, Screening, Audited
<1>2. TypeInv /\ FlowInv /\ ScreenInv /\ [Next]_vars => ScreenInv'
  BY StepCallScreened, StepReplyScreened DEF ScreenInv
<1>3. QED
  BY <1>1, <1>2, AlwaysTyped, FlowHolds, PTL DEF Spec

\* What the entries return says that an answer is there only if the call has one.
LEMMA StatusFacts ==
  ASSUME TypeInv, pc = "done"
  PROVE  /\ ApiStatus(call) = "200" => call.outcome \in {"answered", "blocked"}
         /\ Returned(call) => call.outcome \in {"answered", "blocked"}
<1>1. call.kind \in Kinds /\ call.outcome \in Outcomes \ {"none"}
  BY DEF TypeInv, CallRecord, Undecided, Ended
<1>2. QED
  BY <1>1 DEF ApiStatus, Returned, Outcomes, Kinds

LEMMA StepReply == ASSUME TypeInv, FlowInv, WorkInv, ReplyInv, [Next]_vars PROVE ReplyInv'
<1>1. CASE UNCHANGED vars
  BY <1>1 DEF ReplyInv, vars, serviceVars
<1>2. CASE pc # "replied" /\ pc' # "replied" /\ reply' = reply
  BY <1>2 DEF ReplyInv
<1>3. CASE pc' # "replied" /\ Silent(reply')
  BY <1>3 DEF ReplyInv, Silent
<1>4. CASE ApiReply
  <2>1. /\ pc = "done" /\ call' = call
        /\ reply' = Answered(ApiStatus(call), call.kind = "answer" /\ ApiStatus(call) = "200")
    BY <1>4 DEF ApiReply
  <2>2. call.kind = "answer" /\ ApiStatus(call) = "200" => call.routing # "not_required"
    BY <2>1, StatusFacts DEF WorkInv, HandedOver, Ended
  <2>3. /\ reply'.status = ApiStatus(call) /\ reply'.text = call.text
        /\ reply'.caveats = call.caveats /\ reply'.cited = call.cited
        /\ reply'.routing = IF call.kind = "answer" /\ ApiStatus(call) = "200"
                            THEN call.routing ELSE "undisclosed"
    BY <2>1 DEF Answered
  <2>4. ApiStatus(call) \in {"200", "422", "500"}
    <3>1. call.kind \in Kinds /\ call.outcome \in Outcomes \ {"none"}
      BY <2>1 DEF TypeInv, CallRecord, Undecided, Ended
    <3>2. QED
      BY <3>1 DEF ApiStatus, Outcomes, Kinds
  <2>5. QED
    BY <1>4, <2>1, <2>2, <2>3, <2>4, StatusFacts DEF ReplyInv, ApiReply
<1>5. ASSUME NEW process, NEW status, DirectReply(process, status),
             status \in {"result", "exit_0"} <=> Returned(call), status # "200"
      PROVE  ReplyInv'
  <2>1. /\ pc = "done" /\ call' = call /\ reply'.status = status /\ reply'.text = call.text
        /\ reply'.caveats = call.caveats /\ reply'.cited = call.cited
        /\ reply'.routing = "undisclosed"
    BY <1>5 DEF DirectReply, Answered
  <2>2. QED
    BY <1>5, <2>1, StatusFacts DEF ReplyInv
<1>6. CASE McpReply
  BY <1>5, <1>6 DEF McpReply, McpStatus
<1>7. CASE CliReply
  <2>1. bound.placeholder \in BOOLEAN
    BY <1>7 DEF CliReply, DirectReply, TypeInv, BoundInv, Deployed, BoundRecord
  <2>2. /\ ExitCode(call) \in {"exit_0", "exit_1", "exit_2"}
        /\ ExitCode(call) = "exit_0" <=> Returned(call)
    BY <2>1 DEF ExitCode
  <2>3. QED
    BY <1>5, <1>7, <2>2 DEF CliReply
<1>8. CASE AfterModel
  <2>1. pc' = "after_agent" /\ reply'.routing = "undisclosed"
    BY <1>8 DEF AfterModel, NoReply
  <2>2. QED
    BY <2>1 DEF ReplyInv
<1>9. QED
  BY <1>1, <1>2, <1>3, <1>4, <1>6, <1>7, <1>8, ReplyStep

LEMMA ReplyHolds == Spec => []ReplyInv
<1>1. Init => ReplyInv
  BY DEF Init, ServiceInit, ReplyInv, NoReply
<1>2. TypeInv /\ FlowInv /\ WorkInv /\ ReplyInv /\ [Next]_vars => ReplyInv'
  BY StepReply
<1>3. QED
  BY <1>1, <1>2, AlwaysTyped, FlowHolds, WorkHolds, PTL DEF Spec

-----------------------------------------------------------------------------
(***************************************************************************)
(* Who asks, and whose turn it is.                                         *)
(***************************************************************************)
\* A service never changes what kind of call it serves, nor for whom.
LEMMA ServiceAsks ==
  ASSUME TypeInv, Service PROVE call'.kind = call.kind /\ call'.actor = call.actor
<1>1. CASE Abort
  BY <1>1, AbortFields DEF Asked
<1>2. CASE call' = BlockedCall(call)
  BY <1>2, BlockedFields DEF Asked, TypeInv
<1>3. CASE Redact \/ ScreenInput \/ Retrieve \/ Ground
  BY <1>2, <1>3, RedactFields, ScreenInputFields, RetrieveFields DEF Ground
<1>4. CASE GenerateAnswer
  <2>1. PICK r \in Replies(call) : call' = Drafted(call, r)
    BY <1>4 DEF GenerateAnswer
  <2>2. QED
    BY <2>1, DraftedFacts DEF Asked, TypeInv
<1>5. ASSUME NEW kind, NEW items \in ItemReplies(call), GenerateArtifact(kind, items)
      PROVE  call'.kind = call.kind /\ call'.actor = call.actor
  BY <1>5, ArtifactFacts DEF GenerateArtifact, Asked, TypeInv
<1>6. CASE SelfCritique \/ ScreenOutput \/ ScreenCaveats
  BY <1>2, <1>6, SelfCritiqueFields, ScreenOutputFields, ScreenCaveatsFields DEF Asked
<1>7. CASE Audit \/ AuditRaises \/ Route \/ RouteRaises
  BY <1>7, AfterAuditFields, RouteFields DEF Asked, Audit, AuditRaises
<1>8. CASE Serve
  BY <1>3, <1>4, <1>5, <1>6, <1>7, <1>8
     DEF Serve, BuildChecklist, GenerateTestCases, GenerateRegulatorQuestions
<1>9. CASE Raise
  BY <1>1, <1>7, <1>9
     DEF Raise, BuildRaises, RedactRaises, RetrieveRaises, GenerateRaises, ScreenRaises, Fail
<1>10. QED
  BY <1>8, <1>9 DEF Service

\* Whoever the API lets in is vouched for.
LEMMA ResolvedIsVouched ==
  ASSUME NEW b \in BoundRecord, NEW peer \in Peers, NEW credential \in Credentials,
         ~ExposureRefuses(b, peer), Resolve(b, credential).status = "200"
  PROVE  \/ Resolve(b, credential).actor = "verified" /\ credential = "assertion"
         \/ /\ Resolve(b, credential).actor = "persona" /\ b.explicit
            /\ peer = "loopback" \/ b.demo
<1>1. CASE b.identity = "persona"
  <2>1. b.explicit /\ Resolve(b, credential).actor = "persona"
    BY <1>1 DEF Resolve, ResolvePersona, Denied, Granted
  <2>2. peer = "loopback" \/ b.demo
    BY <1>1 DEF ExposureRefuses, EndUserAuthenticated, Peers
  <2>3. QED
    BY <2>1, <2>2
<1>2. CASE b.identity = "iap"
  <2>1. Resolve(b, credential) = ResolveAssertion(b, credential)
    BY <1>2 DEF Resolve
  <2>2. b.audience \in BOOLEAN /\ b.tenants \in BOOLEAN
    BY DEF BoundRecord
  <2>3. CASE ~b.audience
    BY <2>1, <2>3 DEF ResolveAssertion, Denied
  <2>4. CASE b.audience /\ ~Verified(credential)
    BY <2>1, <2>4 DEF ResolveAssertion, Denied, Verified
  <2>5. CASE b.audience /\ Verified(credential) /\ ~b.tenants
    BY <2>1, <2>5 DEF ResolveAssertion, Denied, Verified
  <2>6. CASE b.audience /\ credential = "unadmitted" /\ b.tenants
    BY <2>1, <2>6 DEF ResolveAssertion, Denied, Verified
  <2>7. CASE b.audience /\ credential = "assertion" /\ b.tenants
    BY <2>1, <2>7 DEF ResolveAssertion, Granted, Verified
  <2>8. QED
    BY <2>2, <2>3, <2>4, <2>5, <2>6, <2>7 DEF Verified
<1>3. CASE b.identity = "placeholder"
  BY <1>3 DEF Resolve, Denied
<1>4. QED
  BY <1>1, <1>2, <1>3 DEF BoundRecord

LEMMA StepCaller == ASSUME TypeInv, CallerInv, [Next]_vars PROVE CallerInv'
<1>1. CASE pc' \notin InCall
  BY <1>1 DEF CallerInv
<1>2. CASE Service
  <2>1. pc \in InCall /\ bound' = bound /\ caller' = caller /\ call'.actor = call.actor
    BY <1>2, ServiceStays, ServiceAsks DEF Service
  <2>2. QED
    BY <2>1 DEF CallerInv, Vouched
<1>3. CASE ApiReply \/ McpReply \/ CliReply
  <2>1. pc \in InCall /\ UNCHANGED <<bound, call, caller>>
    BY <1>3 DEF ApiReply, McpReply, CliReply, DirectReply, InCall
  <2>2. QED
    BY <2>1 DEF CallerInv, Vouched
<1>4. ASSUME NEW peer \in Peers, NEW credential \in Credentials, NEW kind \in Kinds,
             NEW question \in UserTexts, ApiRequest(peer, credential, kind, question)
      PROVE  CallerInv'
  <2>1. pc = "idle" /\ bound \in BoundRecord
    BY <1>4 DEF ApiRequest, TypeInv, BoundInv, Deployed
  <2>2. CASE UNCHANGED <<serviceVars, caller>>
    BY <2>1, <2>2 DEF serviceVars, CallerInv, InCall
  <2>3. CASE /\ ~ExposureRefuses(bound, peer)
             /\ Resolve(bound, credential).status = "200"
             /\ caller' = [peer |-> peer, credential |-> credential]
             /\ Begin(kind, question, Resolve(bound, credential).actor)
    <3>1. bound' = bound /\ call'.actor = Resolve(bound, credential).actor
      BY <2>3 DEF Begin, NoCall
    <3>2. QED
      BY <2>1, <2>3, <3>1, ResolvedIsVouched DEF CallerInv, Vouched
  <2>4. QED
    BY <1>4, <2>2, <2>3 DEF ApiRequest, Refuse
<1>5. CASE bound.process # "api" /\ bound' = bound
  BY <1>5 DEF CallerInv
<1>6. ASSUME NEW kind, NEW question, McpCall(kind, question) \/ CliCommand(kind, question)
      PROVE  CallerInv'
  BY <1>5, <1>6 DEF McpCall, CliCommand, Begin
<1>7. CASE AgentStep
  <2>1. CASE pc' \in InCall
    <3>1. PICK kind \in Kinds, actor \in {"model_named", "agent_default"} :
            AgentCallsTool(kind, actor)
      BY <1>7, <2>1 DEF AgentStep, BeforeModel, AfterModel, AfterAgent, AgentRaises, ToolReturns,
         TurnBreaks, AgentSearchesWeb, AgentSpeaks, InCall
    <3>2. pc = "agent_model" /\ bound' = bound
      BY <3>1 DEF AgentCallsTool, Begin
    <3>3. QED
      BY <1>5, <3>2 DEF TypeInv, BoundInv, InTurn
  <2>2. QED
    BY <1>1, <2>1
<1>8. CASE UNCHANGED vars
  BY <1>8 DEF vars, serviceVars, CallerInv, Vouched
<1>9. CASE Boot \/ Forget \/ \E text \in UserTexts : BeginTurn(text)
  BY <1>1, <1>9 DEF Boot, Forget, BeginTurn, InCall
<1>10. QED
  BY <1>2, <1>3, <1>4, <1>6, <1>7, <1>8, <1>9 DEF Next, Progress

LEMMA CallerHolds == Spec => []CallerInv
<1>1. Init => CallerInv
  BY DEF Init, ServiceInit, CallerInv, InCall
<1>2. TypeInv /\ CallerInv /\ [Next]_vars => CallerInv'
  BY StepCaller
<1>3. QED
  BY <1>1, <1>2, AlwaysTyped, PTL DEF Spec

\* What a turn has been blocked for is not forgotten by the session.
LEMMA ScreenedTurn ==
  ASSUME TypeInv, TurnInv, BeforeModel \/ AfterModel PROVE TurnInv'
<1>1. /\ pc \in {"before_model", "after_model"} /\ turn.row = {}
      /\ session \in SessionRecord /\ session.asked \in Text
      /\ turn \in TurnRecord /\ turn.shown \in Text
  BY DEF BeforeModel, AfterModel, TypeInv, SessionRecord, TurnRecord, TurnInv
<1>2. CASE BeforeModel
  <2>1. PICK v \in Verdicts(Redacted(session.asked)) :
          /\ session' = [session EXCEPT !.prompt = v.text, !.blocked = Remembers(v)]
          /\ turn' = [turn EXCEPT !.blocked = @ \/ ~v.allowed]
          /\ pc' = IF v.allowed THEN "agent_model" ELSE "after_agent"
    BY <1>2 DEF BeforeModel
  <2>2. /\ session'.blocked = (session.blocked \/ ~v.allowed)
        /\ turn'.blocked = (turn.blocked \/ ~v.allowed) /\ turn'.row = {}
    BY <1>1, <2>1 DEF SessionRecord, TurnRecord, Remembers
  <2>3. QED
    BY <2>1, <2>2 DEF TurnInv, AllowedTurnsAreTrue
<1>3. CASE AfterModel
  <2>1. PICK v \in Verdicts(Redacted(turn.shown)) :
          /\ session' = [session EXCEPT !.response = v.text, !.blocked = Remembers(v)]
          /\ turn' = [turn EXCEPT !.blocked = @ \/ ~v.allowed]
          /\ reply' = IF v.allowed THEN [NoReply EXCEPT !.status = "told", !.text = v.text]
                      ELSE [NoReply EXCEPT !.status = "withheld"]
    BY <1>3 DEF AfterModel
  <2>2. /\ session'.blocked = (session.blocked \/ ~v.allowed) /\ session'.response = v.text
        /\ turn'.blocked = (turn.blocked \/ ~v.allowed) /\ turn'.row = {}
        /\ v.allowed => reply'.text = v.text
    BY <1>1, <2>1 DEF SessionRecord, TurnRecord, Remembers, NoReply
  <2>3. QED
    BY <2>2 DEF TurnInv, AllowedTurnsAreTrue
<1>4. QED
  BY <1>2, <1>3

LEMMA RowOfTurn == ASSUME TypeInv, TurnInv, AfterAgent PROVE TurnInv'
<1>1. /\ pc = "after_agent" /\ pc' = "idle" /\ UNCHANGED <<bound, reply, session>>
      /\ bound.process = "agent"
  BY DEF AfterAgent, TypeInv, BoundInv, InTurn
<1>2. turn'.row = {TurnRow} /\ turn'.blocked = turn.blocked
  BY DEF AfterAgent, TypeInv, TurnRecord
<1>3. TurnRow.decision = "allowed" => ~session.blocked /\ TurnRow.response = session.response
  BY DEF TurnRow
<1>4. QED
  BY <1>1, <1>2, <1>3 DEF TurnInv, AllowedTurnsAreTrue

\* Between its first callback and its row nothing else touches the turn's verdicts.
LEMMA OtherTurn ==
  ASSUME TurnInv, turn'.row = {}, pc' # "after_agent",
         turn'.blocked => turn.blocked, session'.blocked = session.blocked
  PROVE  TurnInv'
BY DEF TurnInv, AllowedTurnsAreTrue

LEMMA StepTurn == ASSUME TypeInv, TurnInv, [Next]_vars PROVE TurnInv'
<1>1. CASE UNCHANGED vars
  BY <1>1 DEF vars, serviceVars, agentVars, TurnInv, AllowedTurnsAreTrue
<1>2. turn \in TurnRecord /\ session \in SessionRecord
  BY DEF TypeInv
<1>3. ASSUME turn.row = {}, turn' = turn, session' = session, pc' # "after_agent"
      PROVE  TurnInv'
  BY <1>3, OtherTurn
<1>4. turn.row # {} => pc = "idle" /\ bound.process = "agent"
  BY DEF TurnInv
<1>5. CASE Boot \/ Forget \/ ApiReply \/ McpReply \/ CliReply
  BY <1>3, <1>4, <1>5 DEF Boot, Forget, ApiReply, McpReply, CliReply, DirectReply, agentVars
<1>6. CASE Service
  <2>1. pc \in InCall /\ pc' \in InCall /\ turn' = turn /\ session' = session
    BY <1>6, ServiceStays DEF Service, agentVars
  <2>2. QED
    BY <1>3, <1>4, <2>1 DEF InCall
<1>7. ASSUME NEW peer, NEW credential, NEW kind, NEW question,
             ApiRequest(peer, credential, kind, question)
      PROVE  TurnInv'
  <2>1. /\ bound.process = "api" /\ pc' \in {"idle", "redact"}
        /\ turn' = turn /\ session' = session
    BY <1>7 DEF ApiRequest, Refuse, Begin, serviceVars, agentVars
  <2>2. QED
    BY <1>3, <1>4, <2>1
<1>8. ASSUME NEW kind, NEW question, McpCall(kind, question) \/ CliCommand(kind, question)
      PROVE  TurnInv'
  <2>1. /\ bound.process # "agent" /\ pc' = "redact" /\ turn' = turn /\ session' = session
    BY <1>8 DEF McpCall, CliCommand, Begin, agentVars
  <2>2. QED
    BY <1>3, <1>4, <2>1
<1>9. ASSUME NEW text, BeginTurn(text) PROVE TurnInv'
  <2>1. /\ pc' = "before_model" /\ turn'.row = {} /\ turn'.blocked = FALSE
        /\ session'.blocked = session.blocked
    BY <1>2, <1>9 DEF BeginTurn, NoTurn, SessionRecord
  <2>2. QED
    BY <2>1, OtherTurn
<1>10. CASE AgentStep
  <2>1. CASE AgentRaises \/ ToolReturns
    <3>1. pc # "idle" /\ pc' # "after_agent" /\ turn' = turn /\ session' = session
      BY <2>1 DEF AgentRaises, ToolReturns, TurnBreaks, agentVars
    <3>2. QED
      BY <1>3, <1>4, <3>1
  <2>2. ASSUME NEW text, AgentSpeaks(text) PROVE TurnInv'
    <3>1. /\ pc # "idle" /\ pc' = "after_model" /\ session' = session
          /\ turn'.row = turn.row /\ turn'.blocked = turn.blocked
      BY <1>2, <2>2 DEF AgentSpeaks, TurnRecord
    <3>2. QED
      BY <1>4, <3>1, OtherTurn
  <2>3. ASSUME pc = "agent_model", pc' \in {"redact", "before_model"},
               turn' = [turn EXCEPT !.tools = @ + 1],
               session' = [session EXCEPT !.response = NoText]
        PROVE  TurnInv'
    <3>1. /\ turn'.row = turn.row /\ turn'.blocked = turn.blocked
          /\ session'.blocked = session.blocked
      BY <1>2, <2>3 DEF TurnRecord, SessionRecord
    <3>2. QED
      BY <1>4, <2>3, <3>1, OtherTurn
  <2>4. ASSUME NEW kind, NEW actor, AgentCallsTool(kind, actor) PROVE TurnInv'
    BY <2>3, <2>4 DEF AgentCallsTool, Begin
  <2>5. CASE AgentSearchesWeb
    BY <2>3, <2>5 DEF AgentSearchesWeb
  <2>6. QED
    BY <1>10, <2>1, <2>2, <2>4, <2>5, ScreenedTurn, RowOfTurn DEF AgentStep
<1>11. QED
  BY <1>1, <1>5, <1>6, <1>7, <1>8, <1>9, <1>10 DEF Next, Progress

LEMMA TurnHolds == Spec => []TurnInv
<1>1. Init => TurnInv
  BY DEF Init, ServiceInit, TurnInv, AllowedTurnsAreTrue, NoTurn
<1>2. TypeInv /\ TurnInv /\ [Next]_vars => TurnInv'
  BY StepTurn
<1>3. QED
  BY <1>1, <1>2, AlwaysTyped, PTL DEF Spec

-----------------------------------------------------------------------------
(***************************************************************************)
(* What the runs check on instances, for every value of the constants.     *)
(***************************************************************************)
\* Type correctness: a process that serves is bound, what is cited was found, and
\* the counters stay within their bounds.
THEOREM TypesHold == Spec => []TypeOK
<1>1. TypeInv /\ WorkInv => TypeOK
  <2> SUFFICES ASSUME TypeInv, WorkInv PROVE TypeOK
    OBVIOUS
  <2>1. bound \in BoundRecord => bound # Unbound
    <3>1. Unbound.process \notin {"api", "mcp", "cli", "agent"}
      BY DEF Unbound
    <3>2. QED
      BY <3>1 DEF BoundRecord
  <2>2. bound = Unbound <=> pc \in {"boot", "refused"}
    BY <2>1 DEF TypeInv, BoundInv, Deployed
  <2>3. /\ call.confidence \in 0..10 /\ call.cited \subseteq call.found
        /\ call.found \subseteq Sources
        /\ call.text \in Text \union {NoText} /\ call.caveats \in Text \union {NoText}
    BY DEF TypeInv, CallRecord, Answer, WorkInv, Citing
  <2>4. turn.number \in 0..MaxTurns /\ turn.tools \in 0..MaxTools
    BY DEF TypeInv, TurnRecord
  <2>5. QED
    BY <2>2, <2>3, <2>4 DEF TypeInv, BoundInv, TypeOK
<1>2. QED
  BY <1>1, AlwaysTyped, WorkHolds, PTL

\* Whatever adapter is bound, what it masks reaches no outside party and no row of
\* the agent once redact() has run, and the console sees no identifier at all.
THEOREM RedactionHolds == Spec => []RedactedStaysRedacted
<1>1. TypeInv /\ MarksInv => RedactedStaysRedacted
  <2> SUFFICES ASSUME TypeInv, MarksInv, bound # Unbound
               PROVE  /\ ExposedClean
                      /\ \A row \in turn.row :
                           (row.prompt \union row.response) \intersect Masked(bound.redaction) = {}
    BY DEF RedactedStaysRedacted, ExposedClean, Clean
  <2>1. ExposedClean /\ SessionClean
    BY DEF TypeInv, BoundInv, MarksInv
  <2>2. QED
    BY <2>1 DEF SessionClean, Clean
<1>2. QED
  BY <1>1, AlwaysTyped, MarksHold, PTL

\* While a guardrail is on, no caller and no user of the agent is told a text, or
\* a caveat, that the guardrail blocks.
THEOREM ScreeningHolds == Spec => []BlockedTextIsWithheld
<1>1. ScreenInv => BlockedTextIsWithheld
  BY DEF ScreenInv, ReplyScreened, Screening, BlockedTextIsWithheld
<1>2. QED
  BY <1>1, ScreenHolds, PTL

\* An answer that cites nothing is submitted for two approvals, whatever the policy
\* and the critic made of its confidence.
THEOREM TwoApprovalsHold == Spec => []WeakAnswersNeedTwo
<1>1. WorkInv => WeakAnswersNeedTwo
  BY DEF WorkInv
<1>2. QED
  BY <1>1, WorkHolds, PTL

\* What the API discloses of the hand-off is what became of it.
THEOREM DisclosureHolds == Spec => []DisclosedRoutingIsTrue
<1>1. ReplyInv /\ WorkInv => DisclosedRoutingIsTrue
  BY DEF ReplyInv, WorkInv, HandedOver, DisclosedRoutingIsTrue
<1>2. QED
  BY <1>1, ReplyHolds, WorkHolds, PTL

\* A process that boot has let through never loses a hand-off to its configuration.
THEOREM OutageHolds == Spec => []FailedHandOffIsAnOutage
<1>1. ReplyInv /\ WorkInv => FailedHandOffIsAnOutage
  BY DEF ReplyInv, WorkInv, HandedOver, FailedHandOffIsAnOutage
<1>2. QED
  BY <1>1, ReplyHolds, WorkHolds, PTL

\* Every row of an API request names an actor whom the identity adapter and the
\* exposure guard together vouch for.
THEOREM VouchedHolds == Spec => []ApiRowsHaveAVouchedActor
<1>1. FlowInv /\ WorkInv /\ CallerInv => ApiRowsHaveAVouchedActor
  <2> SUFFICES ASSUME FlowInv, WorkInv, CallerInv, bound.process = "api", NEW row \in trail
               PROVE  Vouched(row.actor)
    BY DEF ApiRowsHaveAVouchedActor, Vouched
  <2>1. pc \in InCall
    BY DEF FlowInv, NothingLeft
  <2>2. row.actor = call.actor
    BY DEF WorkInv, Rows
  <2>3. QED
    BY <2>1, <2>2 DEF CallerInv
<1>2. QED
  BY <1>1, FlowHolds, WorkHolds, CallerHolds, PTL

\* A caller who gets a result gets the one that was audited, and has nothing of
\* what a row says was blocked; only a sink that raised leaves it without a row.
THEOREM RowsHold == Spec => []RowsTellTheReply
<1>1. TypeInv /\ FlowInv /\ WorkInv /\ ReplyInv => RowsTellTheReply
  <2> SUFFICES ASSUME TypeInv, FlowInv, WorkInv, ReplyInv, pc = "replied",
                      reply.status \in {"200", "result", "exit_0"}
               PROVE  /\ faults = 0 => trail # {}
                      /\ \A row \in trail :
                           /\ row.response \subseteq reply.text
                           /\ row.cited = reply.cited
                           /\ row.decision = "blocked" =>
                                reply.text = NoText /\ reply.caveats = NoText /\ reply.cited = {}
    BY DEF RowsTellTheReply
  <2>1. /\ reply.text = call.text /\ reply.caveats = call.caveats /\ reply.cited = call.cited
        /\ call.outcome \in {"answered", "blocked"}
    BY DEF ReplyInv
  <2>2. faults = 0 => trail # {}
    BY <2>1 DEF WorkInv, Rows, Audited
  <2>3. ASSUME NEW row \in trail
        PROVE  /\ row.response \subseteq reply.text
               /\ row.cited = reply.cited
               /\ row.decision = "blocked" =>
                    reply.text = NoText /\ reply.caveats = NoText /\ reply.cited = {}
    <3>1. /\ row.response \subseteq call.text /\ row.cited = call.cited
          /\ row.decision = Stated(call.outcome, call.kind)
      BY DEF WorkInv, Rows
    <3>2. row.decision = "blocked" => call.outcome = "blocked"
      BY <2>1, <3>1 DEF Stated, TypeInv, CallRecord, Kinds
    <3>3. QED
      BY <2>1, <3>1, <3>2 DEF FlowInv, BlockedIsEmpty
  <2>4. QED
    BY <2>2, <2>3
<1>2. QED
  BY <1>1, AlwaysTyped, FlowHolds, WorkHolds, ReplyHolds, PTL

\* A row of the agent that says allowed is of a turn in which nothing was blocked,
\* and has the response that the user was told.
THEOREM TurnsHold == Spec => []AllowedTurnsAreTrue
<1>1. TurnInv => AllowedTurnsAreTrue
  BY DEF TurnInv
<1>2. QED
  BY <1>1, TurnHolds, PTL

-----------------------------------------------------------------------------
(***************************************************************************)
(* The services keep the promise of Accountable.                           *)
(***************************************************************************)
\* What Promise sees of a state.
Verdict == IF call.outcome = "error" THEN "failed" ELSE Decided
RowSays == IF trail = {} THEN "none" ELSE (CHOOSE r \in trail : TRUE).decision
Seen    == <<pc \in InCall, call.kind, Verdict, RowSays, call.routing>>

\* A step that leaves it alone is a stutter of Promise.
LEMMA UnseenIsPromised == ASSUME Seen' = Seen PROVE [Promise!Next]_(Promise!vars)
BY DEF Promise!vars, Seen, Verdict, RowSays

\* Outside a call nothing is seen of one.
LEMMA NothingSeen ==
  FlowInv /\ pc \notin InCall =>
    /\ call.kind = "answer" /\ Verdict = "none" /\ RowSays = "none"
    /\ call.routing = "not_required"
BY NoCallFields DEF FlowInv, NothingLeft, Verdict, RowSays, Decided

\* Before its audit a call has not been decided.
LEMMA Pending ==
  TypeInv /\ WorkInv /\ pc \in InCall \ Audited =>
    Verdict = "none" /\ RowSays = "none" /\ call.routing = "not_required"
<1> SUFFICES ASSUME TypeInv, WorkInv, pc \in InCall \ Audited
             PROVE  Verdict = "none" /\ RowSays = "none" /\ call.routing = "not_required"
  OBVIOUS
<1>1. call.outcome # "error"
  BY DEF TypeInv, Undecided, InCall, Audited, Before, Writing
<1>2. QED
  BY <1>1 DEF WorkInv, Rows, HandedOver, Verdict, RowSays, Decided, Audited, Ended

\* From then on its row, if it has one, says what was decided.
LEMMA RowSaysWhat ==
  WorkInv /\ pc \in Audited /\ call.outcome # "error" =>
    Verdict = call.outcome /\ RowSays \in {Stated(call.outcome, call.kind), "none"}
<1> SUFFICES ASSUME WorkInv, pc \in Audited, call.outcome # "error"
             PROVE  /\ Verdict = call.outcome
                    /\ RowSays \in {Stated(call.outcome, call.kind), "none"}
  OBVIOUS
<1>1. \A row \in trail : row.decision = Stated(call.outcome, call.kind)
  BY DEF WorkInv, Rows
<1>2. trail # {} => RowSays = Stated(call.outcome, call.kind)
  BY <1>1 DEF RowSays
<1>3. QED
  BY <1>2 DEF Verdict, Decided, RowSays, Audited

LEMMA OpenIsPromised ==
  ASSUME FlowInv, FlowInv', pc \notin InCall, NEW kind \in Kinds, NEW question, NEW actor,
         Begin(kind, question, actor)
  PROVE  Promise!Open
<1>1. pc' \in InCall /\ call'.kind \in Kinds /\ Verdict' = "none" /\ RowSays' = "none"
      /\ call'.routing = "not_required"
  BY BeginFields DEF Begin, InCall, Verdict, Decided, RowSays
<1>2. Verdict = "none" /\ RowSays = "none" /\ call.routing = "not_required"
  BY NothingSeen
<1>3. QED
  BY <1>1, <1>2 DEF Promise!Open, Verdict, RowSays

LEMMA BreakIsPromised ==
  ASSUME TypeInv, WorkInv, WorkInv', pc \in InCall \ Audited, Abort PROVE Promise!Break
<1>1. pc' \in InCall /\ call'.kind = call.kind /\ call'.routing = call.routing
      /\ call'.outcome = "error"
  BY AbortFields DEF Abort, Asked, InCall
<1>2. Verdict' = "failed" /\ RowSays' = "none"
  BY <1>1 DEF Verdict, RowSays, WorkInv, Rows
<1>3. Verdict = "none" /\ RowSays = "none"
  BY Pending
<1>4. QED
  BY <1>1, <1>2, <1>3 DEF Promise!Break, Verdict, RowSays

LEMMA DecideIsPromised ==
  ASSUME TypeInv, WorkInv, WorkInv', Audit \/ AuditRaises
  PROVE  \E o \in Promise!Decided : Promise!Decide(o)
<1>1. /\ pc \in InCall \ Audited /\ pc' \in Audited /\ pc' \in InCall
      /\ AfterAudit(call) /\ call.kind \in Kinds
      /\ call.outcome \in {"none", "blocked", "refused"}
  BY DEF Audit, AuditRaises, AfterAudit, InCall, Audited, TypeInv, Undecided, CallRecord
<1>2. /\ call'.kind = call.kind /\ call'.routing = call.routing
      /\ call'.outcome \in {"answered", "blocked", "refused"}
  BY <1>1, AfterAuditFields DEF Asked
<1>3. Verdict' = call'.outcome /\ RowSays' \in {Stated(call'.outcome, call'.kind), "none"}
  <2>1. (WorkInv /\ pc \in Audited /\ call.outcome # "error" =>
           Verdict = call.outcome /\ RowSays \in {Stated(call.outcome, call.kind), "none"})'
    BY RowSaysWhat, PTL
  <2>2. QED
    BY <1>1, <1>2, <2>1 DEF Stated
<1>4. Stated(call'.outcome, call.kind) = Promise!States(call'.outcome, call.kind)
  BY <1>1, <1>2 DEF Stated, Promise!States, Promise!Artifacts, Artifacts, Kinds
<1>5. Verdict = "none"
  BY <1>1, Pending
<1>6. Promise!Decide(call'.outcome)
  BY <1>1, <1>2, <1>3, <1>4, <1>5 DEF Promise!Decide, Verdict, RowSays
<1>7. QED
  BY <1>2, <1>6 DEF Promise!Decided

LEMMA HandOverIsPromised ==
  ASSUME TypeInv, WorkInv, Route \/ RouteRaises PROVE Promise!HandOver
<1>1. /\ pc = "route" /\ pc' = "done" /\ trail' = trail
      /\ call.kind = "answer" /\ call.outcome \in {"answered", "blocked"}
      /\ call.routing = "not_required"
  BY DEF Route, RouteRaises, TypeInv, Undecided, WorkInv, HandedOver, Ended
<1>2. /\ call'.kind = call.kind /\ call'.outcome = call.outcome
      /\ call'.routing \in {"routed", "off", "failed"}
  BY RouteFields DEF Asked
<1>3. Verdict' = Verdict /\ Verdict = call.outcome /\ RowSays' = RowSays
  BY <1>1, <1>2 DEF Verdict, RowSays, Decided
<1>4. QED
  BY <1>1, <1>2, <1>3 DEF Promise!HandOver, Promise!Reviewable, Promise!Routed, Verdict, RowSays, InCall

LEMMA CloseIsPromised ==
  ASSUME TypeInv, WorkInv, FlowInv', pc \in Ended, pc' \notin InCall PROVE Promise!Close
<1>1. /\ pc \in InCall /\ call.outcome # "none"
      /\ call.kind = "answer" /\ call.outcome \in {"answered", "blocked"} =>
           call.routing # "not_required"
  BY DEF Ended, InCall, TypeInv, Undecided, WorkInv, HandedOver
<1>2. Verdict = IF call.outcome = "error" THEN "failed" ELSE call.outcome
  BY DEF Verdict, Decided, Ended
<1>3. call'.kind \in Kinds /\ Verdict' = "none" /\ RowSays' = "none"
      /\ call'.routing = "not_required"
  <2>1. (FlowInv /\ pc \notin InCall =>
           /\ call.kind = "answer" /\ Verdict = "none" /\ RowSays = "none"
           /\ call.routing = "not_required")'
    BY NothingSeen, PTL
  <2>2. QED
    BY <2>1 DEF InCall, Kinds
<1>4. QED
  BY <1>1, <1>2, <1>3 DEF Promise!Close, Promise!Due, Promise!Reviewable, Verdict, RowSays

\* The steps of a service between its start and its audit show nothing.
LEMMA WorkingIsUnseen ==
  ASSUME TypeInv, WorkInv, TypeInv', WorkInv', Service,
         pc \in InCall \ Audited, pc' \in InCall \ Audited
  PROVE  Seen' = Seen
<1>1. (TypeInv /\ WorkInv /\ pc \in InCall \ Audited =>
         Verdict = "none" /\ RowSays = "none" /\ call.routing = "not_required")'
  BY Pending, PTL
<1>2. Verdict' = "none" /\ RowSays' = "none" /\ call'.routing = "not_required"
  BY <1>1 DEF InCall, Audited
<1>3. (pc \in InCall)' = (pc \in InCall)
  BY DEF InCall
<1>4. QED
  BY <1>2, <1>3, Pending, ServiceAsks DEF Seen

LEMMA ServiceIsPromised ==
  ASSUME TypeInv, WorkInv, TypeInv', WorkInv', Service
  PROVE  Promise!Next \/ Seen' = Seen
<1>1. CASE Audit \/ AuditRaises
  BY <1>1, DecideIsPromised DEF Promise!Next, Promise!Settle
<1>2. CASE Route \/ RouteRaises
  BY <1>2, HandOverIsPromised DEF Promise!Next, Promise!Settle
<1>3. CASE BuildRaises \/ RedactRaises \/ RetrieveRaises \/ GenerateRaises \/ ScreenRaises
  <2>1. Abort /\ pc \in InCall \ Audited
    BY <1>3 DEF BuildRaises, RedactRaises, RetrieveRaises, GenerateRaises, ScreenRaises, Fail,
       InCall, Audited
  <2>2. QED
    BY <2>1, BreakIsPromised DEF Promise!Next, Promise!Settle
<1>4. CASE Serve /\ ~Audit /\ ~Route
  <2>1. pc \in InCall \ Audited /\ pc' \in InCall \ Audited
    BY <1>4, ScreenOutputFields, ScreenInputFields, RetrieveFields
       DEF Serve, Redact, ScreenInput, Retrieve, Ground, GenerateAnswer,
           BuildChecklist, GenerateTestCases, GenerateRegulatorQuestions, GenerateArtifact,
           SelfCritique, ScreenOutput, ScreenCaveats, InCall, Audited
  <2>2. QED
    BY <2>1, WorkingIsUnseen
<1>5. QED
  BY <1>1, <1>2, <1>3, <1>4 DEF Service, Raise

LEMMA StepIsPromised ==
  ASSUME TypeInv, FlowInv, WorkInv, [Next]_vars PROVE [Promise!Next]_(Promise!vars)
<1>1. TypeInv' /\ FlowInv' /\ WorkInv'
  BY StepTyped, StepFlow, StepWork
<1>2. CASE Service
  BY <1>1, <1>2, ServiceIsPromised, UnseenIsPromised
<1>3. CASE /\ pc \notin InCall
           /\ \E kind \in Kinds, question \in Text, actor \in Actors :
                Begin(kind, question, actor)
  BY <1>1, <1>3, OpenIsPromised DEF Promise!Next
<1>4. CASE pc \in Ended /\ pc' \notin InCall
  BY <1>1, <1>4, CloseIsPromised DEF Promise!Next, Promise!Settle
<1>5. CASE pc \notin InCall /\ pc' \notin InCall
  <2>1. (FlowInv /\ pc \notin InCall =>
           /\ call.kind = "answer" /\ Verdict = "none" /\ RowSays = "none"
           /\ call.routing = "not_required")'
    BY NothingSeen, PTL
  <2>2. (pc \in InCall)' = (pc \in InCall)
    BY <1>5 DEF InCall
  <2>3. Seen' = Seen
    BY <1>1, <1>5, <2>1, <2>2, NothingSeen DEF InCall, Seen
  <2>4. QED
    BY <2>3, UnseenIsPromised
<1>6. CASE ApiReply \/ McpReply \/ CliReply
  <2>1. pc = "done" /\ pc' = "replied" /\ UNCHANGED <<call, trail>>
    BY <1>6 DEF ApiReply, McpReply, CliReply, DirectReply
  <2>2. (pc \in InCall)' = (pc \in InCall)
    BY <2>1 DEF InCall
  <2>3. Verdict' = Verdict /\ RowSays' = RowSays
    BY <2>1 DEF Verdict, RowSays, Decided
  <2>4. Seen' = Seen
    BY <2>1, <2>2, <2>3 DEF Seen
  <2>5. QED
    BY <2>4, UnseenIsPromised
<1>7. CASE UNCHANGED serviceVars
  <2>1. Seen' = Seen
    BY <1>7 DEF serviceVars, Seen, Verdict, RowSays, Decided
  <2>2. QED
    BY <2>1, UnseenIsPromised
<1>8. CASE Boot
  BY <1>5, <1>8 DEF Boot, InCall
<1>9. QED
  BY <1>2, <1>3, <1>4, <1>5, <1>6, <1>7, <1>8, FrontStep

\* The safety half of KeepsPromise, for every value of the constants: whatever the
\* entry, the adapters and the failures, a request is decided once, audited as it
\* was decided and before it is handed over, handed over once at most, and closed
\* only then if it is an answer that was not refused.
THEOREM ServicesKeepTheirPromise == Spec => Promise!Init /\ [][Promise!Next]_(Promise!vars)
<1>1. Init => Promise!Init
  BY NoCallFields DEF Init, ServiceInit, Promise!Init, InCall, Decided, Kinds
<1>2. TypeInv /\ FlowInv /\ WorkInv /\ [Next]_vars => [Promise!Next]_(Promise!vars)
  BY StepIsPromised
<1>3. QED
  BY <1>1, <1>2, AlwaysTyped, FlowHolds, WorkHolds, PTL DEF Spec
=============================================================================
