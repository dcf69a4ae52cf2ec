# Compliance advisory: TLA+ models, model checking and proofs

This directory keeps the formal models of the compliance-advisory service
beside its code. The service answers regulatory questions from an index of
publications, keeps that index fresh, watches it for regulatory changes and
tracks what the bank does about each of them. Paths below are relative to
`src/src/compliance_advisory/` unless they start with `src/`.

Run one model with `tlc -workers 2 -config CorpusSafety.cfg MCCorpusPipeline`,
check the proofs with `tlapm CorpusPipeline_proofs.tla`. Which module belongs to
which `.cfg` is in the table of runs below and in `PROJECT.json`.

## 1. The system

The code is a hexagon: pure domain services, ports, and adapters (in-memory or
SQLite for a laptop, Firestore / AlloyDB / Agent Search / Gemini for the
cloud). Several processes of it run at once: FastAPI workers, the scheduled
refresh job (Cloud Run, daily, retried), the CLI, an MCP server and an ADK
agent. They share four stores: the retrieval index, the corpus freshness
ledger, the implementation tracker and the audit log; and one outgoing channel,
the human-review console. No store call is transactional with any other one.

| Component | State | Operations | Talks to | What is hard | What makes it correct |
|---|---|---|---|---|---|
| **Corpus pipeline and freshness ledger** (`pipelines/`, `adapters/*/ledger*`) | index; ledger row per source (checksum, version, status, expiry, superseded generation) | `refresh_all`, `refresh_expired`, `ensure_fresh`, `ingest_source`, `ingest_fetched`, `corpus_upload` | publishers, index, ledger; the ledger feeds the horizon scan | two stores written one after the other; jobs, callers and crashes interleave; each call fails before or after taking effect | a stale source is retried and becomes fresh; FRESH rows match the index; a real change is never hidden from the scan |
| **Horizon detection** (`domain/horizon/detection.py`) | none (pure) | `carry_forward`, `classify`, `change_id`, `detect_changes` | runs inside every ledger write and every scan | one superseded generation only; order of failures, re-fetches, relabellings | what it reports happened, and it reports what happened |
| **Horizon scan** (`domain/horizon/scan_service.py`) | none of its own | `scan`: diff, policy, gap lookup, narration, tracking, audit, hand-off | ledger, tracker, audit, console, model | long read-compute-write on the tracker, every side call best-effort | every assessed change is tracked; humans' words survive; every escalation is handed off |
| **Implementation tracking** (`domain/horizon/tracking_service.py`, `adapters/*/*horizon_tracker*`) | item per change id (tenant, status, owner, who set it) | `get_item`, `list_items`, `update_status` | tracker, audit, console | read-modify-write with no version check, several tenants and officers, concurrent scans | tenant isolation, last word stands, no closure without a trail |
| **Horizon policy** (`domain/horizon/policy.py`) | none (pure) | applicability, materiality score and band, owner, review gate | scan | clamping and caps at the edges, configurable tables | more drivers never lower a band; a routed change is always reviewed |
| **Question answering** (`domain/qa_service.py`, `_grounded.py`, `hitl.py`) | none | redact, screen, retrieve, ground, generate, critique, screen, audit, hand off | index, model, guardrail, audit, console | every exit must be screened and audited once, each call can fail | no uncited or unscreened answer leaves; every exit leaves one audit row |
| **Artifact generators** (checklists, test cases, regulator questions) | none | `generate` of each | as question answering | the same skeleton three times over, with small differences | the same promises as question answering |
| **Control mapping, gaps, evidence packs** (`domain/control_mapping/`) | none | `map_controls`, `find_gaps`, `assemble_pack` | inventory, model, audit, console | the computed coverage against the model's hint, missing or malformed replies | an uncovered requirement is a gap, a gap is never under-rated, a pack is audited |
| **Agent callbacks and tools** (`agent/`, `mcp/`) | session state: last prompt, last response, blocked flag | before/after-model and after-agent callbacks, tools | guardrail, audit, services | state that outlives the turn it is about | the audit row of a turn is about that turn |
| **Review routing and control bindings** (`adapters/controls.py`, `ports/review_router.py`) | outcome of the last route, per request | `route`, `last_outcome` | console | a failed hand-off is silent in the service and disclosed at the edge | what the caller is told about the hand-off is what happened |
| **Identity and configuration** (`adapters/gcp/iap_identity.py`, `domain/identity.py`, `config.py`) | principal of a request, settings | verify, resolve tenant, load and validate settings | API | unverified headers, placeholder profiles | the tenant of a request is the verified one |
| **UI, evaluation gate, cloud adapters, infrastructure, scripts** | none that matters here | rendering, scoring, SDK calls, provisioning | all | I/O only | not modelled |

How they meet. The refresh job writes the ledger through `carry_forward`; a
horizon scan diffs the ledger with `classify`, decides with the policy, narrates
with the model, and upserts one tracked item per assessed change; officers move
the items on through the API; everything consequential writes an audit row and
is handed to the review console. Failure handling is "best effort" nearly
everywhere: exceptions of side calls are suppressed and nothing retries them
except the next daily refresh.

The `hazards` of `PROJECT.json` list, at their lines, the situations this
design exposes the code to, and the property that watches each of them.

## 2. Modules

| Module | Models | Kind |
|---|---|---|
| `HorizonDetection` | `domain/horizon/detection.py`, `FreshnessRecord` | operators on ledger rows, extended by the pipeline |
| `CorpusPipeline` | `pipelines/ingest.py`, `fetch.py`, `refresh_job.py`, the upload handler, ledger and index adapters | state machine |
| `MCCorpusPipeline` | symmetry for the safety run | MC |
| `HorizonTracking` | `domain/horizon/tracking_service.py`, the tracking/audit/hand-off half of `scan_service.py`, tracker adapters, horizon routes | state machine |
| `VersionedTracker` | what a table without transactions still promises | abstract specification, implemented by `HorizonTracking` |
| `MCHorizonTracking` | two officers, two tenants | MC |
| `HorizonSystem` | `CorpusPipeline` with the scan of `scan_service.py` that reads its ledger, up to the tracked change | composition |
| `Deployment` | `config.py`, `envread.py`, `adapters/controls.py`, the bindings, the exposure guard of `api/app.py`, the identity adapters | operators from an environment to what a process binds |
| `GroundedAnswer` | `domain/qa_service.py`, `checklist_service.py`, `testcase_service.py`, `regulator_questions_service.py`, `_grounded.py`, `hitl.py`, `policy.py`, guardrail / redaction / router adapters, `_review_payload.py` | state machine of one call, extends `Deployment` |
| `FrontDoor` | `api/app.py`, `api/security.py`, `mcp/server.py`, `cli/main.py`, `agent/` | composition: boot, entries, agent turns around `GroundedAnswer` |
| `Accountable` | what one request promises | abstract specification, implemented by `FrontDoor` |
| `HorizonPolicy` | `domain/horizon/policy.py` | operators over a bank's numbers and tables |
| `ControlMapping` | `domain/control_mapping/`, `adapters/requirements.py`, the inventories | state machine of one mapping, gap or pack call |
| `ScanAssessment` | the gap lookup and the assessments of `scan_service.py` | composition of `ControlMapping` and `HorizonPolicy` |
| `MCFrontDoor`, `MCScanAssessment` | environments around the five profiles; a catalogue, postures and changes | MC |
| `LeastElement` | that `Min` of a non-empty set of naturals is one of its elements | lemma |
| `CorpusPipeline_proofs`, `HorizonTracking_proofs`, `HorizonSystem_proofs`, `ScanAssessment_proofs` | | theorems |
| `FrontDoor_types`, `FrontDoor_proofs` | the layers of the invariant and its type layer; the others, what follows from them and the step simulation | theorems |

### CorpusPipeline

| TLA+ | Code |
|---|---|
| `published`, `registry` | what each publisher serves; the registry file a deployment ships |
| `index`, `ledger` | the two stores; a row's `left` is its time to `expires_at` in ticks |
| `pc`, `todo`, `labels`, `doc`, `previous` | the locals of one worker's `refresh_*` / `ingest_*` call |
| `faults` | the bound on calls that may still raise |
| `editions`, `lastFresh`, `disturbed` | history: what was ever served, the last vouched-for content, sources whose ingests overlapped or ended without a ledger write |
| `StartExpired`, `ListExpired` | `refresh_expired`: the known ids first, the expired rows second, as two ledger calls |
| `StartFull`, `EnsureFresh`, `Upload` | `refresh_all`, `ensure_fresh`, `POST /corpus/documents` |
| `Fetch`, `FetchFails` | `fetch_source` in `ingest_source` |
| `Index`, `IndexRefused`, `IndexRaises` | extraction, redaction, `ingestion.ingest` and its result |
| `RollForward`, `RollBlind` | `_current_record`, which swallows a ledger that cannot be read |
| `Write`, `WriteRaises` | the FRESH upsert, and the except branch around it |
| `WriteFailed`, `WriteFailedRaises` | the upsert in `_record_failure`, whose own failure is logged and swallowed |
| `Crash`, `Tick`, `Republish`, `Relabel` | process death, the clock, publishers, deployments (external) |

A call that raises may have been applied all the same. `IndexRaises` also covers
the local index, which commits the delete of a source's passages before the
insert. `ensure_fresh` has no caller in the repository: `ReadPath = {}` is the
system as shipped, and the safety run gives it one caller so that the code is
checked as written. Two of its promises differ from the shipped system: the
docstring of `ensure_fresh` and `ports/corpus.py:5-6` say expired sources are
re-fetched before answering. `domain/freshness_policy.py` is a second copy of the
freshness policy that nothing imports; the one in `pipelines/ingest.py` is
modelled.

### HorizonTracking

| TLA+ | Code |
|---|---|
| `tracker`, `trail`, `console` | tracker table; `horizon_update_status` audit rows; reviews handed to the console |
| `scan[p]`, `request[r]` | the locals of one `scan` / `update_status` call |
| `word`, `overtaken`, `unrecorded` | history: each change's last officer's update; changes written over a row the writer had not read; updates whose audit record was lost |
| `StartScan` | everything of `scan` before the first tracker call, as one free verdict per change |
| `GetItem`, `SkipForeign`, `GetItemRaises` | `tracker.get` in `_track`: the tenant check, and the suppressed exception that turns into "nobody tracks it" |
| `PutItem`, `PutItemRaises` | building the item from the copy and `tracker.upsert` |
| `AuditScan`, `RouteScan`, their `...Raises` | `_audit_scan`, `_route`: suppressed failures |
| `Submit`, `Deny`, `Load`, `LoadRaises` | the route and `get_item`, with its 404 and 403 |
| `PutUpdate`, `PutUpdateRaises` | `update_status` up to its upsert |
| `AuditUpdate`, `RouteUpdate`, their `...Raises` | the audit record, and the hand-off of the two reviewable statuses |
| `CrashScan`, `CrashRequest` | the serving process dies (external) |

`VersionedTracker` is the tracker as its users may think of it: scans open and reassess rows,
officers decide, each in one atomic step that starts from one version of the row. A version is
the present row, one that an operation in progress has read, or no row, for a read that failed
(`versions`, which the mapping `Table` computes from what the processes hold); a write over
another version than the present one marks the change as raced (`overtaken`). So it says what
the missing transactions cost: updates can be lost, and nothing else can go wrong with a row.

Tenants come from verified principals only (`TenantOf`). The CLI lets its user
name any tenant and a fixed actor; it is an operator's tool and not part of this
model.

### HorizonSystem

| TLA+ | Code |
|---|---|
| everything of `CorpusPipeline` | the refreshes that go on while a scan runs |
| `scan` | the assessments a scan holds after its diff, as change ids |
| `tracked` | the ids the tracker has an item for |
| `deaths` | the bound on scans that may still die |
| `StartScan` | `_scan_inner` up to the narration: one `ledger.all()`, `detect_changes`, and a 422 on an empty ledger |
| `Track` | `_track` of one assessment; what can go wrong inside it is HorizonTracking |
| `FinishScan`, `CrashScan` | the end of the scan; process death (external) |

The whole-corpus scan is modelled; a regulator filter would only take changes
out of the snapshot.

### Deployment, GroundedAnswer, FrontDoor

A process reads its environment once. `Refused` is every reason for which boot
stops (`config.py`, `api/app.py` at import); `Bindings` is what the composition
root binds otherwise, one adapter per port, and everything later depends on the
environment through `bound` alone. A variable is unset, emptied, legible or not:
`Words` are the three states of `envread.py` with both booleans.

A text is the set of *marks* it carries: identifiers that every redactor sees,
names that only DLP sees, attacks that a guardrail blocks and leaks that Model
Armor removes from what it allows. Redaction removes marks, a screen returns a
verdict, and `exposed` collects what every outside party was shown. A model may write any
text, but it can only repeat an identifier or a name that it was shown (`Writes`): it knows
nothing else of the user. What it makes up on its own is not told apart from harmless text.

| TLA+ | Code |
|---|---|
| `env`, `bound` | the environment until it is read; settings and adapters afterwards |
| `call` | the locals of `answer` / `generate`: question, redacted prompt, safe prompt, passages, draft, caveats, review |
| `trail`, `console`, `exposed` | audit rows and reviews of the call; what each party saw of it |
| `caller`, `reply` | the API request last served; what the caller was told, with the disclosed hand-off |
| `session`, `turn` | the keys `callbacks.py` keeps in the session's state; the turn in progress and its audit row |
| `Boot` | `load_settings`, the module level of `api/app.py` |
| `Redact`, `ScreenInput`, `Retrieve`, `Ground` | the input half of `_answer_inner` and of the generators |
| `GenerateAnswer`, `SelfCritique` | `_generate`, `_draft`, `_self_critique` and the caps |
| `BuildChecklist`, `GenerateTestCases`, `GenerateRegulatorQuestions` | the three generators from the model call to the rendered text |
| `ScreenOutput`, `ScreenCaveats` | the output screens; an answer takes the sanitized text, an artifact keeps its own |
| `Audit`, `AuditRaises`, `Route`, `RouteRaises` | `_audit`, the router and `RecordingReviewRouter`, with their suppressed failures |
| `BuildRaises`, `RedactRaises`, `RetrieveRaises`, `GenerateRaises`, `ScreenRaises` | a service that cannot be built; a port that raises out of the call |
| `ApiRequest`, `ApiReply` | exposure guard, identity, the routes, their status codes and `disclose` |
| `McpCall`, `CliCommand`, their replies | `mcp/server.py`, the grounded commands of `cli/main.py` |
| `BeginTurn`, `BeforeModel`, `AgentSpeaks`, `AgentCallsTool`, `AgentSearchesWeb`, `ToolReturns`, `AfterModel`, `AfterAgent`, `AgentRaises` | the callbacks and tools of `agent/`; the framework between them is external |

Services keep nothing from one call to the next, so one call at a time is
modelled. `Accountable` is what is left of it for an observer: a request is
decided once, its audit row says what was decided and comes before the hand-off,
it is handed over once at most, and every request ends, an answer not before it was
offered to a reviewer. Whether an artifact is offered is left open there: the code hands
none over, the API tells its callers that it does (finding 6).
`FrontDoor` maps its outcome, its row and its hand-off to it (`Promise`). The agent may
call a tool without a word, or with one that a screen blocked: the screen of the empty text
is `AgentSpeaks` of `{}` and `AfterModel` before the call.

### ControlMapping, HorizonPolicy, ScanAssessment

| TLA+ | Code |
|---|---|
| `work` | the locals of `map_controls`, `find_gaps` and `assemble_pack`: requirements, posture, mappings, gaps |
| `trail`, `reviews` | audit rows; packs handed to the console |
| `scan` | the changes and the assessments of the scan that called |
| `Fetch`, `Observe`, `Refuse` | requirements and posture, and the audited refusals without them |
| `Generate` | the model call, `_build_mappings`, `_coverage_for`, `requires_review` |
| `AuditMap`, `Derive`, `AuditGaps` | `_audit_mappings`; `find_gaps` with its model call and severities; `_audit_gaps` |
| `AuditPack`, `Route` | `assemble_pack` and its payload's severity and approvals |
| `Raise` | a port that raises out of the call |
| `BeginScan`, `Assess` | `_detect`, `_open_gap_counts` and `_assess` |
| `Applicability`, `Score`, `Materiality`, `RouteOwner`, `ReviewNeeded` | the methods of `HorizonPolicy` |

A posture gives every control the set of things reported of it; a finding never
reports that a control is enabled. The model may return any row, with ids it made
up, any word for a coverage, any word for a severity or none, or a reply that cannot
be read. `HorizonTracking` goes on with a verdict per change chosen freely, which
includes all that `Assessment` can return.

## 3. Runs

| Run | Checks | Shows |
|---|---|---|
| `corpus_safety` (`MCCorpusPipeline`, `CorpusSafety.cfg`) | `StaleIffDue`, `HiddenOnlyAfterFailure`, `RevisionIsGenuine`, `DriftHasACause` | a job and an API worker on one source, two contents, two labels, two faults of any kind |
| `corpus_liveness` (`CorpusPipeline`, `CorpusLiveness.cfg`) | `TypeOK`, `StaleIsRefreshed`, `DriftHeals` | the scheduled job beside uploads, one fault of any kind |
| `corpus_refused_change` (`CorpusRefusedChange.cfg`) | `RealChangeStaysVisible`, **violated** | finding 1 |
| `tracking_safety` (`MCHorizonTracking`, `TrackingSafety.cfg`) | `TypeOK`, `OfficersStayInTheirTenant`, `LastWordStands`, `ClosureLeavesTrail`, `OwnershipMovesOnlyByRace`, `RowsAreVersions` | two scans of two tenants and two updates of an officer on one change, three of them in flight at once, one fault of any kind |
| `tracking_liveness` (`TrackingLiveness.cfg`) | `AssessedIsTracked`, `EscalationReachesConsole` | one scan of two changes, two faults of the tracker's reads or the audit sink |
| `tracking_takeover` (`TrackingTakeover.cfg`) | `ScansSpareDecidedRows`, **violated** | findings 2 and 3 |
| `system_liveness` (`HorizonSystem`, `SystemLiveness.cfg`) | `TrackedContentWasServed`, `PublicationIsTracked` | refreshes, republication and scans beside each other, one fault and one dead scan |
| `system_false_revision` (`SystemFalseRevision.cfg`) | `RevisionMeansRepublished`, **violated** | finding 4 |
| `answers` (`MCFrontDoor`, `Answers.cfg`) | `TypeOK`, `RedactedStaysRedacted`, `BlockedTextIsWithheld`, `WeakAnswersNeedTwo`, `DisclosedRoutingIsTrue`, `FailedHandOffIsAnOutage`, `ApiRowsHaveAVouchedActor`, `RowsTellTheReply`, `AllowedTurnsAreTrue`, `KeepsPromise` | API, MCP, CLI and agent, each started in every profile and every environment one variable away from a working one, one fault |
| `told_routed` (`ToldRouted.cfg`) | `ToldRoutedIsRouted`, **violated** | finding 6 |
| `assessments` (`MCScanAssessment`, `Assessments.cfg`) | `TypeOK`, `CoverageIsEvidenced`, `GapsNameWhatIsMissing`, `UncoveredNeedsTwo`, `RowsTellTheWork`, `ReviewedIffApplicable`, `GapsOnlyRaise`, `ScansAssess` | every posture of two controls, every two rows of a model for two requirements, three kinds of request and scans, one fault |
| `unread_mapping` (`UnreadMapping.cfg`) | `MalformedReplyIsFlagged`, **violated** | finding 5 |

**Bounds.** Sources do not interact except through a worker's order of
targets, so one registered source (and one upload) is where the interesting
interleavings are; two workers are enough to overlap; two contents and two labels
are enough to move and to come back. `TTL = 1` makes every row expire at the first
tick. `MaxFaults` is 2 in the safety run of the pipeline, so that a failure can
hit the handling of a failure, and 1 in the other fair runs of the pipeline; in the
tracker it is 1 for safety, where every kind of call can fail, and 2 for liveness.
`MaxDeaths` is 1. In the tracker, changes interact
only through the order in which a scan takes them, so the safety run has one and
the liveness run two. The safety run has two scans and two updates, of which
`MaxInFlight = 3` may be in progress together: two updates race each other (both read
before either writes) beside a scan, and two scans beside an update. Once a call has
failed, two updates at once are followed without a scan beside them, and a scan that
assesses nothing, which touches no row, is left to the liveness run (`FewInFlight`). Nothing in either model counts upwards except the faults
used, so apart from `MaxFaults`, `MaxDeaths` and `FewInFlight` no behaviour is cut off. The theorems of section 5
hold without any of these bounds.

`answers` has two sources, one of them of a high-risk topic, so that citations may be
none, harmless or grave; two confidences, 0.3 below and 0.8 above every threshold
(the caps 0.2 and 0.4, the console's 0.4, the floor 0.6); users who write nothing
special, an identifier with a name, or an attack, and models that write nothing
special, an identifier they were shown, an attack or a leak. Its 607 environments are the working one of each
profile and process and all that differ from it in one variable
(`Variations`); the variables only the API reads are varied for the API.
`MaxFaults = 1` lets each call of a port raise once per request, `MaxTurns = 2` lets a turn
follow a blocked one, and `MaxTools = 1` bounds the tool calls of a turn. `assessments`
has two requirements of two regulators, one control that only findings report and
one that assets report too, and a change on each side of every rule of the policy:
in the footprint with and without a topic, and outside it.

**Symmetry** (contents and labels; scans, and updates, in flight) is used for the safety runs
only. `TrackingSafety.cfg` also leaves the console out of the state TLC compares
(`VIEW`): no step reads it, and no property of that run does but the conjunct of
`TypeOK` that types it, which is proved.

**Faults left out on purpose.** `SystemLiveness.cfg` has every fault but the refused
ingest, because finding 1 breaks `PublicationIsTracked`. `TypeOK` of the pipeline is
checked in the liveness run only, `SystemTypeOK` is proved only.

**Deadlock** is checked in every run but `answers` and `told_routed`: pipeline, tracker and mapping never
stop, there is always another tick, job or request. The two of `MCFrontDoor` say
`CHECK_DEADLOCK FALSE` because a process that refuses to boot is meant to stop, and an
agent's session ends after `MaxTurns`. That requests themselves do end is part of
`KeepsPromise`.

**Fairness.** `FairSpec` of the pipeline: a worker that has started goes on
(weak fairness of `Proceed`: the platform keeps a container running until its run
ends, and what it does not is the `Crash` fault); an idle job is started again
(weak fairness: `src/infra/terraform/scheduler.tf` starts it daily and retries);
time passes (strong fairness of `Tick`, because a tick is disabled while some
document is about to expire in a worker's hands, which models that an ingest is
much shorter than the TTL: uploads one after the other must not stop the clock).
No fault, upload or publication is ever forced. `StaleIsRefreshed` therefore says
that the source becomes fresh once calls stop failing. `FairSpec` of the tracker:
weak fairness of each scan's and each request's own steps, nothing else.
`FairSystemSpec` adds weak fairness of starting a scan (the runbook,
`src/docs/runbook.md:150`, asks for a scan after each scheduled refresh) and of the
scan's own steps. It is an obligation of whoever operates the service: no
scheduler in the repository starts scans.
`FrontDoor` and `ScanAssessment` assume weak fairness of `Progress`, the steps of a process
that serves a request: it runs to its end or raises, as there is no wait in the code
that is not a call of a port with a timeout. Requests themselves are never forced.
`EscalationReachesConsole` is checked without faults of the hand-off itself: the
code suppresses these and nothing retries them, so the property would not hold
and no comment promises it.

## 4. What the code does otherwise than it says

1. **A refused ingest hides the change** (`corpus_refused_change`). When
   `ingestion.ingest` answers `ok=False`, `_record_failure` is given the *new*
   checksum. The successful retry supersedes that FAILED row with an equal
   checksum and version, so `classify` says UNCHANGED and no scan ever reports the
   change. `pipelines/ingest.py:183-186` and `src/README.md:367` promise the
   opposite. The paths that raise record an empty checksum and do not hide it.
2. **A re-scan undoes an officer's update** (`tracking_takeover`): `_track` and
   `update_status` are read-modify-writes of the whole row without a version
   check. `scan_service.py:247-249` and `src/docs/runbook.md:152-153` say a
   human-set status is never overwritten by a re-scan. One tenant, one scan of a
   tracked change and one update are enough for it.
3. **Two first scans of two tenants** (`tracking_takeover`): both find no row,
   both upsert, and the change moves to the second tenant.
   `scan_service.py:263-264` says another tenant's row is never overwritten. Two
   scans are enough for it.

   One run refutes both statements: `ScansSpareDecidedRows` asks for less than
   either, that a scan does not take status and tenant of a decided row at once. In
   its trace an officer of the first tenant decides between the two upserts.

4. **An outage looks like a republication** (`system_false_revision`): `classify`
   compares checksums without looking at `previous_status`, so the first success
   after a failed fetch is CONTENT_REVISED although the publisher never changed a
   byte. `domain/horizon/models.py:73-74` says the kind means "the instrument was
   republished" and that a first successful ingest is NEW_SOURCE. What does hold
   is `RevisionIsGenuine`: a revision over a FRESH row is one.

5. **An unreadable mapping reply looks clean** (`unread_mapping`): a reply that
   cannot be parsed has no rows, so no requirement is mapped, nothing is there to
   review, the audit row says allowed and no gap follows. `mapping_service.py:14-15`
   says such a reply "degrades to NONE-coverage mappings (flagged for review)".

6. **A blocked artifact is not routed** (`told_routed`): when the guardrail blocks a
   checklist, test cases or regulator questions, the API answers that the request "was
   routed for human review" (`api/app.py:398-400`), and `checklist_service.py:192`
   comments its row with "always routed to a human checker (P-06)". The generators have
   no router: the row is all that is left of it (`AfterAudit`). `answers` checks the hand-off
   of answers, which do have one.

`HiddenOnlyAfterFailure`, `LastWordStands` and `OwnershipMovesOnlyByRace` say
exactly how far the promises do hold: the first with no failed ingest before, the
second as long as no write went over a row its writer had not read, the third in every
step but such a write. All three are proved.

Smaller disagreements that the models follow the code in, without a run of their own:

- `domain/errors.py:28-33` says question answering returns a low-confidence answer on an
  empty retrieval; it raises, and `/ask` answers 422. The artifact routes let the same
  exception become a 500 (`ApiStatus`).
- `config.py:575-576` has every control that is on "able to work" checked at boot. Under
  `platform` an emptied `HUMAN_REVIEW_IAP_AUDIENCE` is found out only when the first
  answer builds its router, and is an error for every answer then (`BuildRaises`).
- `gap_service.py:53-54` promises an uncovered requirement at least a high severity;
  a severity that cannot be read is medium (`SeverityFor`). The pack asks for two
  approvals all the same (`UncoveredNeedsTwo`).
- `_mapping.py:245-248` has coverage computed from observations, and `mapping_service.py:15-17`
  says that the toolkit "never asserts coverage it cannot evidence"; without any of the mapped
  controls observed the model's word stands (`CoverageOf`), as the comment at :167-168 says.
  `CoverageIsEvidenced` begins where something was observed.
- `adapters/gcp/scc_inventory.py:132` says the absence of a finding implies that the control
  holds. Nothing is reported of a control without findings, so a control that only
  findings report is never satisfied, or left to the model's word (`Reports`).
- `agent/callbacks.py:8-9` says PII never reaches the model. The callback redacts and
  screens a copy; the agent's own model is sent the request as it came
  (`AgentSpeaks`; `RedactedStaysRedacted` says so).
- The blocked key of a session is never reset (`callbacks.py:199`): after one blocked
  turn all later rows say blocked. `AllowedTurnsAreTrue` is what is left of the promise.

## 5. Proofs

All theorems hold for every value of the constants under the modules' named
assumptions: source and change ids are natural numbers (a set of which `Min`
takes the least), sentinels are not among the values they stand in for, officers
are principals and each principal has one tenant, the numbers and tables of a policy
are numbers and tables, the id that a model makes up is not one of the index,
confidences are tenths, the bounds on faults, turns and tools are naturals. Nothing is
assumed finite.

**CorpusPipeline_proofs**

| Theorem | States |
|---|---|
| `TypeCorrect` | `Spec => []TypeOK` |
| `StaleSourcesAreDue` | `Spec => []StaleIffDue` |
| `OnlyFailuresHideChanges` | `Spec => []HiddenOnlyAfterFailure` |
| `RevisionsAreGenuine` | `Spec => []RevisionIsGenuine` |
| `FreshRowsMatchTheIndex` | `Spec => []DriftHasACause` |

- `TypeOK` is not inductive: `Upserted` writes a row made from `doc[w]`, which is
  only a document while the worker is between a download and its conclusion.
  `TypeInv` adds `InHand`: a worker holds a document exactly in those states.
- The next three properties speak of ledger rows, but a worker writes a row made
  from a *copy* it read earlier, possibly superseded since. `LedgerInv` therefore
  states one invariant of rows, `RowInv`, for the rows in the ledger and for
  every worker's copy: it is FRESH, or FAILED and already expired (`Dated`); if it
  looks unchanged it supersedes a failure (`Visible`); the contents of its fresh
  generations were served (`Genuine`). The central lemma `RolledIsInOrder` says
  that `CarryForward` of any two rows that are in order gives one that is, so it does not
  matter how old the copy is.
- `DriftInv` says where a worker stands decides what index and ledger may
  disagree about: after `Index` and before the write, the index has the document
  of the worker unless the source is marked as disturbed. It is what makes the
  FRESH write match the index.

**HorizonTracking_proofs**

| Theorem | States |
|---|---|
| `TypeCorrect` | `Spec => []TypeOK` |
| `TenantIsolation` | `Spec => []OfficersStayInTheirTenant` |
| `OfficersHaveTheLastWord` | `Spec => []LastWordStands` |
| `OwnersKeepTheirChanges` | `Spec => OwnershipMovesOnlyByRace` |
| `ClosuresLeaveATrail` | `Spec => []ClosureLeavesTrail` |
| `TrackerImplementsTable` | `Spec => RowsAreVersions`, that is `Spec => Table!Spec` |

- Tenant isolation is not inductive on the store alone: both writers check the
  tenant on a copy. `SnapshotInv` carries the result of that check along: the copy
  a scan holds belongs to the scan's tenant, the copy an update holds to the
  officer's. With it every written row keeps name and tenant together, although
  the row it overwrites may be another tenant's.
- The last word: `UnracedScan` shows that a scan which writes over the row it read
  changes neither its status nor its author; every other write is an officer's own
  word or marks the change as overtaken.
- Closures: `ClosureInv` extends the property to the copies that scans hold,
  because a scan may write a closure back long after the officer's request ended.
- `TrackerImplementsTable` is the whole refinement: every step is one of `Table`'s.
  `NothingComesBack` shows that what a process holds after a step it held before or has just
  read; `ScanIsAtomic` and `SaveIsAtomic` that the two upserts are a `Reassess` or `Open` and a
  `Decide` of the version in hand, for which `SnapshotInv` supplies the tenant.

**HorizonSystem_proofs**

| Theorem | States |
|---|---|
| `SystemImplementsCorpus` | `SystemSpec => Spec` |
| `SystemTypeCorrect` | `SystemSpec => []SystemTypeOK` |
| `TrackedWasServed` | `SystemSpec => []TrackedContentWasServed` |

- Every step of the composition is a step of the pipeline or leaves its variables
  alone (`StepIsCorpusStep`), so `TypeInv` and `LedgerInv` come for free.
- `ServedInv` extends the property to the snapshot in a scan's hands: what it holds
  was served when it was taken (`DetectedIsServed`, from `LedgerInv`), and what was
  served stays served (`ServedIsStable`).

**ScanAssessment_proofs**

| Theorem | States |
|---|---|
| `AssessmentTypes` | `Spec => []TypeOK` |
| `FullIsEvidenced` | `Spec => []CoverageIsEvidenced` |
| `GapsMatchTheMapping` | `Spec => []GapsNameWhatIsMissing` |
| `HolesNeedTwo` | `Spec => []UncoveredNeedsTwo` |
| `RowsAreTrue` | `Spec => []RowsTellTheWork` |
| `ReviewersGoWithOwners` | `Spec => []ReviewedIffApplicable` |
| `GapsNeverLower` | `Spec => []GapsOnlyRaise` |
| `DriversNeverLower` | `Score` and `Materiality` are monotone in footprint, weights, topics and gaps together |

- The properties speak of mappings, gaps and assessments that earlier steps left
  behind. `WorkInv` therefore carries how they were made: every mapping is `MappingOf`
  a row of the model over the posture the request still has (`Mapped`), the gaps are one
  `Gap` for each hole (`Derived`), and a scan's assessments were made with the gaps that
  are still there (`ScanInv`). What follows needs no induction any more.
- Coverage and gaps are computed by two services. `NothingMissing` is the lemma that ties
  them together: a hole in which no family is missing has no control mapped.
- `MaterialityGrows`: weights, caps, penalty and floors may be any numbers, and a band may
  have no floor. Only `OpenGapPoints` is assumed not to be negative: the loader takes any
  integer, and with a negative one the property is false, as it should be. The score is monotone in the gaps because every driver but theirs
  is the same on both sides, and the band because a higher score reaches every floor that
  a lower one does. `DriversNeverLower` says the same of two changes: it is about the
  operators alone, needs `TopicPoints` not to be negative either, and its one delicate point is that
  the penalty of a change without topics goes when a topic comes in.
- `TrailInv` says which rows a request has at which step; a failing sink may lose any of
  them, so with a fault spent only a part of them need be there. A request that failed in
  its second model call keeps the row of its mappings, unless the sink failed as well.

**FrontDoor_types, FrontDoor_proofs**

| Theorem | States |
|---|---|
| `BindingsAreDeployed` | what boot does not refuse is bound to what can work |
| `TypesHold` | `Spec => []TypeOK` |
| `RedactionHolds` | `Spec => []RedactedStaysRedacted` |
| `ScreeningHolds` | `Spec => []BlockedTextIsWithheld` |
| `TwoApprovalsHold` | `Spec => []WeakAnswersNeedTwo` |
| `DisclosureHolds` | `Spec => []DisclosedRoutingIsTrue` |
| `OutageHolds` | `Spec => []FailedHandOffIsAnOutage` |
| `VouchedHolds` | `Spec => []ApiRowsHaveAVouchedActor` |
| `RowsHold` | `Spec => []RowsTellTheReply` |
| `TurnsHold` | `Spec => []AllowedTurnsAreTrue` |
| `ServicesKeepTheirPromise` | `Spec => Promise!Init /\ [][Promise!Next]_(Promise!vars)` |

They hold for every index, policy, set of texts and set of environments, for any number
of turns, tool calls and raised calls. The properties look at the end of a request: what
was shown, told, audited or handed over. None of them is inductive, because what they
forbid is prepared many steps before by the locals of the call. The invariant is a stack of
eight layers, each preserved with the help of those above it. TLC checked every one of
them on the instance of `answers` before it was proved.

| Layer | Says | Needed because |
|---|---|---|
| `TypeInv` | ranges of all variables; the process is bound as boot binds it (`BoundInv`), a call is undecided until it is audited, and there is a text once one was written | every step updates `call` field by field, and what it may do depends on `bound` |
| `FlowInv` | which fields are still empty at which step, which steps an artifact skips, that a blocked call carries nothing | four services share the steps |
| `WorkInv` | what is cited was found, what cites nothing has a capped confidence, the row states the outcome, what became of a hand-off is what the call says | a review or a row is made from what earlier steps left |
| `MarksInv` | no local, no session key and no row but the question itself has a mark that the bound adapter masks | a model repeats its prompt, and the next prompt holds what it wrote |
| `ScreenInv` | from its own screen on, neither text nor caveats have an attack | text and caveats are screened at different steps, and an artifact keeps its own text |
| `ReplyInv` | the reply is the call's, and it discloses a hand-off only while that call is there | the reply outlives the call |
| `CallerInv` | while the API serves a call, caller and settings vouch for its actor | identity is checked before the call, the row is written after it |
| `TurnInv` | a blocked turn has blocked its session; a session that is not blocked remembers the response its user was told | no turn resets the session's keys |

- `BindingsAreDeployed` says what the refusals at boot are for: for every environment that is
  not refused, `Bindings` binds a policy that has every answer reviewed, a console only if it
  can be reached, and no working guardrail in a placeholder profile. `FailedHandOffIsAnOutage`
  rests on it. What boot lets through and cannot work is an error for every answer
  (`BuildRaises`), not a hand-off that fails.
- A weak answer: `CitationsFor` drops ids that were not retrieved, `_UNSUPPORTED_CONFIDENCE_CAP`
  caps what is left without any, the critic only lowers (`LoweredFacts`), and the cap is below
  the console's threshold. A blocked answer has confidence 0. The proof needs no relation
  between the policy's own floor and the console's.
- The lemmas `...Fields`, one for each action, say which fields of `call` a step changes. All
  layers use them, so that no proof of a layer expands an action whose detail it does not need.
- The simulation maps `Begin` to `Open`, `Audit` and `AuditRaises` to `Decide`, the steps
  that raise to `Break`, `Route` and `RouteRaises` to `HandOver`, and everything that drops the
  call (the next request, a tool that returns) to `Close`. All else stutters: `Seen` is what Promise
  sees of a state, and `UnseenIsPromised` that a step which leaves it alone is allowed.

`LeastElement` proves `MinIsLeast`, which the proofs of the pipeline, the tracker and the
mapping use for least elements.

Only model-checked: `StaleIsRefreshed`, `DriftHeals`, `AssessedIsTracked`,
`EscalationReachesConsole`, `PublicationIsTracked` and `ScansAssess`, which are liveness
properties, and of `KeepsPromise` the part that says that requests end, since fairness and
`ENABLED` are out of the prover's reach; and the five violated properties. Every invariant
and every action property of the passing runs is proved. The liveness runs are small
instances; they say nothing of more sources or longer fault sequences than their
bounds allow. Of `RowsAreVersions`, the controls that an officer links are in the proof only:
the instance of `tracking_safety` has none.

## 6. Plan

Done: the corpus pipeline, the tracker and their composition; boot, the grounded services,
their entries and the agent with the abstract specification they implement; the
mapping services and the horizon policy; proofs of every invariant that a run checks, and
of the safety half of `Accountable`, the tracker as a table of versions. Next:

1. **HorizonSystem with closures**: closing items by change id, and ids that come
   back (content A, B, A; withdrawn twice).

## 7. Not modelled, and why

- What a model, a ranking, a redactor or a guardrail decides: every answer the code can be
  given is allowed, and only the marks of a text and the ids it names are told apart.
- The narration of a scan, which writes text into assessments and decides nothing.
- SLA days, references and wording of reviews, rows and reports.
- `_review_payload.py` names its high-risk topics itself and the policy has a list of its
  own; the models have one set, `HighRisk`.
- The corpus and horizon commands of the CLI and the MCP tools beside them: they call the
  services of the API with an operator as actor. `Identity and configuration` is modelled as far as
  controls, exposure and callers depend on it; names of projects, stores and models are not, and the
  signature of an assertion is checked by a library.
- Pages, passages and citations of a document: the index holds one content per
  source in CorpusPipeline. The local adapter's delete-then-insert is a possible outcome of
  `IndexRaises`; answers retrieve any set of sources, whatever the pipeline did.
- The audit rows of scans (one per scan, best effort).
- UI, evaluation gate, cloud SDK adapters, terraform: I/O around the components, or the
  scoring of golden answers in a single pass.
  The clouds' ledgers and trackers are modelled by the port's contract: each call
  atomic, applied or not when it raises.
- Clock skew between processes, and an ingest that takes longer than the TTL.
