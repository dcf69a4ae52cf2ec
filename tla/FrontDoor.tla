------------------------------ MODULE FrontDoor ------------------------------
(***************************************************************************)
(* How the grounded services are reached.  A process boots from its        *)
(* environment and is then the API, the MCP server, a CLI command or the   *)
(* agent.  The API asks the exposure guard and the identity adapter first  *)
(* and discloses what became of the hand-off; the others record an actor   *)
(* of their own.  The agent wraps its tool calls in the callbacks at the   *)
(* model boundary, whose keys stay in the session from one turn to the     *)
(* next.  The agent framework is external: it sends the user's texts of    *)
(* the whole session, and skips the model when a callback answers for it.  *)
(***************************************************************************)
EXTENDS GroundedAnswer

CONSTANTS MaxTurns, MaxTools   \* bounds on the turns of a session, the tools of a turn

ASSUME FrontDoorAssumption == MaxTurns \in Nat /\ MaxTools \in Nat

VARIABLES
  env,      \* the environment, until the process has read it
  caller,   \* the peer and the credential of the API request last served
  reply,    \* what the caller was told
  session,  \* the keys the callbacks keep in the session's state
  turn      \* the agent turn in progress, with its audit row

agentVars == <<session, turn>>
vars == <<serviceVars, env, caller, reply, agentVars>>

NoReply  == [status |-> "none", text |-> NoText, caveats |-> NoText, cited |-> {},
             routing |-> "undisclosed"]
NoCaller == [peer |-> "loopback", credential |-> "none"]
NoTurn   == [number |-> 0, tools |-> 0, blocked |-> FALSE, shown |-> {}, row |-> {}]

Init ==
  /\ ServiceInit
  /\ env \in Environments
  /\ caller = NoCaller
  /\ reply = NoReply
  /\ session = [asked |-> {}, prompt |-> {}, response |-> NoText, blocked |-> FALSE]
  /\ turn = NoTurn

\* The environment is read once; a refused process never serves anything.
Boot ==
  /\ pc = "boot"
  /\ IF Refused(env) THEN pc' = "refused" /\ UNCHANGED bound
                     ELSE pc' = "idle" /\ bound' = Bindings(env)
  /\ env' = Unbound
  /\ UNCHANGED <<call, trail, console, exposed, faults, caller, reply, agentVars>>

(***************************************************************************)
(* The API.                                                                *)
(***************************************************************************)
Answered(status, disclosed) ==
  [status |-> status, text |-> call.text, caveats |-> call.caveats, cited |-> call.cited,
   routing |-> IF disclosed THEN call.routing ELSE "undisclosed"]

Refuse(status) ==
  /\ reply' = [NoReply EXCEPT !.status = status]
  /\ UNCHANGED <<serviceVars, caller>>

ApiRequest(peer, credential, kind, question) ==
  LET identity == Resolve(bound, credential) IN
  /\ pc = "idle"
  /\ bound.process = "api"
  /\ \/ /\ ExposureRefuses(bound, peer)
        /\ Refuse("refused_peer")
     \/ /\ ~ExposureRefuses(bound, peer)
        /\ identity.status # "200"
        /\ Refuse(identity.status)
     \/ /\ ~ExposureRefuses(bound, peer)
        /\ identity.status = "200"
        /\ caller' = [peer |-> peer, credential |-> credential]
        /\ reply' = NoReply
        /\ Begin(kind, question, identity.actor)
  /\ UNCHANGED <<env, agentVars>>

\* Only /ask catches an empty retrieval; every route catches a block.
ApiStatus(c) == CASE c.outcome \in {"answered", "blocked"}          -> "200"
                  [] c.outcome = "refused" /\ c.kind = "answer"     -> "422"
                  [] c.outcome = "refused" /\ c.kind \in Artifacts  -> "500"
                  [] c.outcome = "error"                            -> "500"

\* The envelope of a blocked artifact says that it "was routed for human review".
SaysItWasRouted(c) == c.kind \in Artifacts /\ c.outcome = "blocked"

ApiReply ==
  /\ pc = "done"
  /\ bound.process = "api"
  /\ pc' = "replied"
  /\ reply' = Answered(ApiStatus(call), call.kind = "answer" /\ ApiStatus(call) = "200")
  /\ UNCHANGED <<bound, call, trail, console, exposed, faults, env, caller, agentVars>>

(***************************************************************************)
(* MCP and the command line, whose actor the process itself names.         *)
(***************************************************************************)
\* The composition root of the MCP server names a service, never a person.
McpCall(kind, question) ==
  /\ pc = "idle"
  /\ bound.process = "mcp"
  /\ reply' = NoReply
  /\ Begin(kind, question, "service")
  /\ UNCHANGED <<env, caller, agentVars>>

CliCommand(kind, question) ==
  /\ pc = "idle"
  /\ bound.process = "cli"
  /\ reply' = NoReply
  /\ Begin(kind, question, "operator")
  /\ UNCHANGED <<env, caller, agentVars>>

\* A blocked answer is returned, any other block is an exception.
Returned(c) == c.outcome = "answered" \/ (c.outcome = "blocked" /\ c.kind = "answer")

McpStatus(c) == IF Returned(c) THEN "result" ELSE "tool_error"

\* The exit code tells a placeholder from a failure.
ExitCode(c) == CASE Returned(c)                          -> "exit_0"
                 [] ~Returned(c) /\ bound.placeholder    -> "exit_2"
                 [] ~Returned(c) /\ ~bound.placeholder   -> "exit_1"

DirectReply(process, status) ==
  /\ pc = "done"
  /\ bound.process = process
  /\ pc' = "replied"
  /\ reply' = Answered(status, FALSE)
  /\ UNCHANGED <<bound, call, trail, console, exposed, faults, env, caller, agentVars>>

McpReply == DirectReply("mcp", McpStatus(call))

\* The command prints the answer, its caveats and its citations, and no more of the hand-off.
CliReply == DirectReply("cli", ExitCode(call))

\* The request is over: its locals and what its parties saw are not kept.
Forgotten == call' = NoCall /\ trail' = {} /\ console' = {} /\ exposed' = Nobody

Forget ==
  /\ pc = "replied"
  /\ pc' = "idle"
  /\ Forgotten
  /\ faults' = 0
  /\ caller' = NoCaller
  /\ reply' = NoReply
  /\ UNCHANGED <<bound, env, agentVars>>

(***************************************************************************)
(* The agent.                                                              *)
(***************************************************************************)
BeginTurn(text) ==
  /\ pc = "idle"
  /\ bound.process = "agent"
  /\ turn.number < MaxTurns
  /\ pc' = "before_model"
  /\ turn' = [NoTurn EXCEPT !.number = turn.number + 1]
  /\ session' = [session EXCEPT !.asked = @ \union text]
  /\ reply' = NoReply
  /\ faults' = 0
  /\ UNCHANGED <<bound, call, trail, console, exposed, env, caller>>

\* An exception of a callback, of the model or of a tool ends the turn, unaudited.
TurnBreaks ==
  /\ pc' = "idle"
  /\ Forgotten
  /\ reply' = [NoReply EXCEPT !.status = "turn_error"]
  /\ UNCHANGED <<bound, env, caller, agentVars>>

\* Mutant: a verdict that blocks is not kept in the session.
ForgetsVerdict(v) == session.blocked

\* Once blocked, a session stays blocked: no turn resets the key.
Remembers(v) == session.blocked \/ ~v.allowed

\* The safe text of a verdict is the text itself if the verdict blocks.
BeforeModel ==
  /\ pc = "before_model"
  /\ bound.redaction # "placeholder"
  /\ \E v \in Verdicts(Redacted(session.asked)) :
       /\ session' = [session EXCEPT !.prompt = v.text, !.blocked = Remembers(v)]
       /\ turn' = [turn EXCEPT !.blocked = @ \/ ~v.allowed]
       /\ pc' = IF v.allowed THEN "agent_model" ELSE "after_agent"
       /\ reply' = IF v.allowed THEN reply ELSE [NoReply EXCEPT !.status = "withheld"]
  /\ UNCHANGED <<bound, call, trail, console, exposed, faults, env, caller>>

\* The request goes to the model as it came: the callback does not rewrite it.  A
\* text without marks may also be the empty one of a tool call: a screen that blocks
\* it withholds the call.
AgentSpeaks(text) ==
  /\ pc = "agent_model"
  /\ pc' = "after_model"
  /\ turn' = [turn EXCEPT !.shown = text]
  /\ UNCHANGED <<bound, call, trail, console, exposed, faults, env, caller, reply, session>>

\* A tool call carries no text, which after_model has screened, allowed and stored as
\* the last response; the model chooses the tool, its question and its actor.
AgentCallsTool(kind, actor) ==
  /\ pc = "agent_model"
  /\ turn.tools < MaxTools
  /\ turn' = [turn EXCEPT !.tools = @ + 1]
  /\ session' = [session EXCEPT !.response = NoText]
  /\ Begin(kind, session.asked, actor)
  /\ UNCHANGED <<env, caller, reply>>

\* The web sub-agent exists where grounding is on, and asks what the model tells it to.
AgentSearchesWeb ==
  /\ pc = "agent_model"
  /\ bound.search # "off"
  /\ turn.tools < MaxTools
  /\ pc' = "before_model"
  /\ turn' = [turn EXCEPT !.tools = @ + 1]
  /\ session' = [session EXCEPT !.response = NoText]
  /\ UNCHANGED <<bound, call, trail, console, exposed, faults, env, caller, reply>>

ToolReturns ==
  /\ pc = "done"
  /\ bound.process = "agent"
  /\ \/ /\ Returned(call)
        /\ pc' = "before_model"
        /\ Forgotten
        /\ UNCHANGED <<bound, env, caller, reply, agentVars>>
     \/ /\ ~Returned(call)
        /\ TurnBreaks
  /\ UNCHANGED faults

\* What the user is told is the safe text of the response, or the reason of the block.
AfterModel ==
  /\ pc = "after_model"
  /\ bound.redaction # "placeholder"
  /\ pc' = "after_agent"
  /\ \E v \in Verdicts(Redacted(turn.shown)) :
       /\ session' = [session EXCEPT !.response = v.text, !.blocked = Remembers(v)]
       /\ turn' = [turn EXCEPT !.blocked = @ \/ ~v.allowed]
       /\ reply' = IF v.allowed THEN [NoReply EXCEPT !.status = "told", !.text = v.text]
                   ELSE [NoReply EXCEPT !.status = "withheld"]
  /\ UNCHANGED <<bound, call, trail, console, exposed, faults, env, caller>>

TurnRow == [decision |-> IF session.blocked THEN "blocked" ELSE "allowed",
            prompt |-> session.prompt, response |-> session.response]

AfterAgent ==
  /\ pc = "after_agent"
  /\ pc' = "idle"
  /\ turn' = [turn EXCEPT !.row = {TurnRow}]
  /\ UNCHANGED <<bound, call, trail, console, exposed, faults, env, caller, reply, session>>

AgentRaises ==
  /\ \/ pc \in {"agent_model", "after_agent"}
     \/ pc \in {"before_model", "after_model"} /\ (RedactMayRaise \/ ScreenMayRaise)
  /\ CountRaise
  /\ TurnBreaks

-----------------------------------------------------------------------------
AgentStep == BeforeModel \/ AfterModel \/ AfterAgent \/ AgentRaises \/ ToolReturns \/ AgentSearchesWeb
             \/ (\E text \in Writes(session.asked) \union {{}} : AgentSpeaks(text))
             \/ (\E kind \in Kinds, actor \in {"model_named", "agent_default"} :
                   AgentCallsTool(kind, actor))

Service == (Serve \/ Raise) /\ UNCHANGED <<env, caller, reply, agentVars>>

Progress == Boot \/ Service \/ ApiReply \/ McpReply \/ CliReply \/ Forget \/ AgentStep

Next ==
  \/ Progress
  \/ \E peer \in Peers, credential \in Credentials, kind \in Kinds, question \in UserTexts :
       ApiRequest(peer, credential, kind, question)
  \/ \E kind \in Kinds, question \in UserTexts : McpCall(kind, question) \/ CliCommand(kind, question)
  \/ \E text \in UserTexts : BeginTurn(text)

Spec == Init /\ [][Next]_vars /\ WF_vars(Progress)

-----------------------------------------------------------------------------
InCall == {"redact", "screen_input", "retrieve", "ground", "generate", "critique",
           "screen_output", "screen_caveats", "audit", "route", "done", "replied"}
InTurn == {"before_model", "agent_model", "after_model", "after_agent"}

\* Every variable is what it is declared to be; an answer that has none is NoText.
TypeOK ==
  /\ pc \in {"boot", "refused", "idle"} \union InCall \union InTurn
  /\ bound = Unbound <=> pc \in {"boot", "refused"}
  /\ call.confidence \in 0..10 /\ call.cited \subseteq call.found /\ call.found \subseteq Sources
  /\ call.text \in Text \union {NoText} /\ call.caveats \in Text \union {NoText}
  /\ exposed \in [Parties -> Text]
  /\ faults \in 0..MaxFaults
  /\ turn.number \in 0..MaxTurns /\ turn.tools \in 0..MaxTools

\* qa_service.py and the generators redact first: what the bound adapter masks
\* in a question reaches neither the guardrail nor the index, the web, the model
\* or the audit row, nor the agent's row of its turn (what the agent's own model is
\* sent is not redacted), and the reviewers' console never sees an identifier,
\* whatever is bound.
RedactedStaysRedacted ==
  bound # Unbound =>
    /\ \A p \in Parties \ {"console"} : exposed[p] \intersect Masked(bound.redaction) = {}
    /\ exposed["console"] \intersect PayloadMask = {}
    /\ \A row \in turn.row : (row.prompt \union row.response) \intersect Masked(bound.redaction) = {}

Attacks(text) == text # NoText /\ "attack" \in text

\* qa_service.py screens the answer and the critic's caveats, the generators
\* what they render, the agent what it says: while the guardrail is on, nobody
\* is told a text that it blocks.
BlockedTextIsWithheld ==
  bound # Unbound /\ bound.guardrail # "off" =>
    ~Attacks(reply.text) /\ ~Attacks(reply.caveats)

\* qa_service.py caps the confidence of what cites nothing, _review_payload.py
\* asks for two approvals below a threshold of its own: an answer without a
\* citation, blocked or unsupported, is never released by one reviewer.
WeakAnswersNeedTwo == \A r \in console : r.cited = {} => r.approvals = 2

\* RecordingReviewRouter and disclose(): what /ask says of the hand-off is so,
\* and for every valid policy an answer says something of it.
DisclosedRoutingIsTrue ==
  reply.routing # "undisclosed" =>
    /\ reply.routing # "not_required"
    /\ reply.routing = "routed" => console # {}
    /\ reply.routing = "off"    => console = {} /\ bound.router = "off"

\* _refuse_unconfigured_controls: a process that could never reach the console
\* does not start, so a hand-off fails only when something breaks after boot.
FailedHandOffIsAnOutage == reply.routing = "failed" => faults > 0

\* security.py, the identity adapters and the exposure guard of app.py: an API
\* request is audited under a verified subject, or under a persona by a process
\* whose profile was chosen and for a peer on the same machine (or an operator
\* who opted in).
ApiRowsHaveAVouchedActor ==
  bound # Unbound /\ bound.process = "api" =>
    \A row \in trail :
      \/ row.actor = "verified" /\ caller.credential = "assertion"
      \/ /\ row.actor = "persona"
         /\ bound.explicit
         /\ caller.peer = "loopback" \/ bound.demo

\* The services audit after their last screen and return what they audited: a
\* caller who gets a result gets it with a row, unless the sink raised, whose
\* response, citations and decision are those of the result, and a result whose
\* row says blocked carries nothing of what was blocked.
RowsTellTheReply ==
  pc = "replied" /\ reply.status \in {"200", "result", "exit_0"} =>
    /\ faults = 0 => trail # {}
    /\ \A row \in trail :
         /\ row.response \subseteq reply.text
         /\ row.cited = reply.cited
         /\ row.decision = "blocked" =>
              reply.text = NoText /\ reply.caveats = NoText /\ reply.cited = {}

\* after_agent_callback reads keys that no turn resets: a row that says allowed
\* is still of its own turn, nothing in which was blocked.
AllowedTurnsAreTrue ==
  \A row \in turn.row :
    row.decision = "allowed" => ~turn.blocked /\ row.response = reply.text

\* app.py:398-400, "This request was blocked by the safety guardrail and was routed for
\* human review": a caller who is told so of an artifact can count on a review.
ToldRoutedIsRouted ==
  pc = "replied" /\ bound.process = "api" /\ SaysItWasRouted(call) => console # {}

\* The services keep the promise of Accountable, whichever entry calls them.
Decided == IF pc \in {"route", "done", "replied"} THEN call.outcome ELSE "none"

Promise == INSTANCE Accountable WITH
  Reviewed <- {"answer"},
  open     <- pc \in InCall,
  kind     <- call.kind,
  outcome  <- IF call.outcome = "error" THEN "failed" ELSE Decided,
  row      <- IF trail = {} THEN "none" ELSE (CHOOSE r \in trail : TRUE).decision,
  routing  <- call.routing

KeepsPromise == Promise!Spec
=============================================================================
