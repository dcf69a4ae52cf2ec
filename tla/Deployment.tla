----------------------------- MODULE Deployment -----------------------------
(***************************************************************************)
(* From the environment of a process to the adapters it binds: the loader  *)
(* of config.py with the three-state reads of envread.py, the refusals at  *)
(* boot, the bindings of config/settings.yaml, the exposure guard and the  *)
(* identity adapters.  Pure definitions; FrontDoor takes the steps.        *)
(***************************************************************************)
EXTENDS Naturals

Profiles == {"local", "live", "gcp", "platform", "onprem"}
Managed  == {"gcp", "platform"}
NoAuth   == {"local", "live"}

\* The three states of a variable, with both readings of a boolean value.
Words     == {"unset", "emptied", "on", "off", "garbled"}
Legible   == {"unset", "on", "off"}
Reads(word, default) == IF word = "unset" THEN default ELSE word = "on"

Artifacts == {"checklist", "testcases", "regulator_questions"}
Kinds     == {"answer"} \union Artifacts

\* CompliancePolicyConfig, its floor in tenths.
Policy          == [floor : 0..11, reviewAll : BOOLEAN, always : SUBSET Kinds]
ReferencePolicy == [floor |-> 6, reviewAll |-> TRUE, always |-> Kinds]
ValidPolicy(p)  == p.floor <= 10 /\ p.reviewAll /\ p.always # {}

Environment ==
  [process  : {"api", "mcp", "cli", "agent"},
   profile  : Profiles \union {"unset", "emptied", "unknown"},
   guardrail : Words, redaction : Words, routing : Words, grounding : Words,
   template : BOOLEAN,                                     \* a Model Armor template is named
   console  : {"unset", "emptied", "set"},                 \* HUMAN_REVIEW_URL
   bearer   : {"unset", "emptied", "client", "backend"},   \* HUMAN_REVIEW_IAP_AUDIENCE
   audience : {"unset", "emptied", "set"},                 \* COMPLIANCE_IAP_AUDIENCE
   tenants  : {"unset", "emptied", "malformed", "set"},    \* the reviewed tenant maps
   origins  : {"unset", "listed", "wildcard"},             \* COMPLIANCE_CORS_ORIGINS
   frames   : {"unset", "emptied", "listed", "wildcard"},  \* COMPLIANCE_FRAME_ANCESTORS
   demo     : BOOLEAN,                                     \* COMPLIANCE_ALLOW_INSECURE_DEMO
   policy   : Policy]

(***************************************************************************)
(* Boot: one profile choice, strict switches, and controls that are on     *)
(* under a managed profile must be able to work.                           *)
(***************************************************************************)
ProfileRefused(e) == e.profile \in {"emptied", "unknown"}
Explicit(e)       == e.profile # "unset"
ProfileOf(e)      == IF Explicit(e) THEN e.profile ELSE "local"

SwitchesRefused(e) == ~({e.guardrail, e.redaction, e.routing} \subseteq Legible)
GroundingRefused(e) == e.grounding \notin Legible

\* Mutant: the client id of the edge is not required.
RoutingWithoutTheEdge(e) == Reads(e.routing, TRUE) /\ e.console # "set"

\* gcp reaches the console through the edge and needs its path and its client id.
RoutingRefused(e) ==
  /\ Reads(e.routing, TRUE)
  /\ IF e.profile = "gcp" THEN ~(e.console = "set" /\ e.bearer = "client")
                          ELSE e.console # "set"

ControlsRefused(e) ==
  /\ e.profile \in Managed
  /\ RoutingRefused(e) \/ (Reads(e.guardrail, TRUE) /\ ~e.template)

\* Both lists are resolved when the module of the API is imported.
OriginsRefused(e) == e.process = "api" /\ (e.origins = "wildcard" \/ e.frames = "wildcard")

Refused(e) ==
  \/ ProfileRefused(e) \/ SwitchesRefused(e) \/ GroundingRefused(e)
  \/ ~ValidPolicy(e.policy) \/ ControlsRefused(e) \/ OriginsRefused(e)

\* What a submission to the console takes: its address, and a token the edge accepts.
ConsoleReachable(e) == e.console = "set" /\ (e.profile = "gcp" => e.bearer = "client")

\* The console's router is built with the first answer, and refuses a client id that
\* names nothing or names the edge itself; at boot only gcp has looked at it.
RouterBuilds(e) ==
  Reads(e.routing, TRUE) /\ ProfileOf(e) \in Managed => e.bearer \in {"unset", "client"}

(***************************************************************************)
(* The bindings.                                                           *)
(***************************************************************************)
Guardrails == [local |-> "heuristic", live |-> "heuristic", gcp |-> "armor",
               platform |-> "gateway", onprem |-> "placeholder"]
Redactions == [local |-> "regex", live |-> "regex", gcp |-> "dlp",
               platform |-> "dlp", onprem |-> "placeholder"]
Indexes    == [local |-> "fts", live |-> "live", gcp |-> "search",
               platform |-> "search", onprem |-> "placeholder"]
Models     == [local |-> "stub", live |-> "open_weight", gcp |-> "gemini",
               platform |-> "gemini", onprem |-> "placeholder"]
Sinks      == [local |-> "chain", live |-> "chain", gcp |-> "logging",
               platform |-> "gateway", onprem |-> "placeholder"]
Searches   == [local |-> "off", live |-> "optional", gcp |-> "gemini",
               platform |-> "gemini", onprem |-> "placeholder"]
Routers    == [local |-> "outbox", live |-> "outbox", gcp |-> "console",
               platform |-> "console", onprem |-> "placeholder"]
Identities == [local |-> "persona", live |-> "persona", gcp |-> "iap",
               platform |-> "iap", onprem |-> "placeholder"]

\* Grounding is on by default where the platform is managed, and only there or
\* under live can it be on at all.
Grounding(e) ==
  /\ ProfileOf(e) \in Managed \union {"live"}
  /\ Reads(e.grounding, ProfileOf(e) \in Managed)

\* The maps are read anew for every caller: unset maps nobody, emptied is refused.
TenantsRead(e) == e.tenants \in {"unset", "set"}

\* The agent's tools build their services without the policy of the settings.
PolicyOf(e) == IF e.process = "agent" THEN ReferencePolicy ELSE e.policy

Bindings(e) ==
  LET profile == ProfileOf(e) IN
  [process   |-> e.process,
   placeholder |-> profile = "onprem",
   guardrail |-> IF Reads(e.guardrail, TRUE) THEN Guardrails[profile] ELSE "off",
   redaction |-> IF Reads(e.redaction, TRUE) THEN Redactions[profile] ELSE "off",
   router    |-> IF Reads(e.routing, TRUE) THEN Routers[profile] ELSE "off",
   builds    |-> RouterBuilds(e),
   reachable |-> Routers[profile] = "console" /\ ConsoleReachable(e),
   index     |-> Indexes[profile],
   model     |-> Models[profile],
   sink      |-> Sinks[profile],
   search    |-> IF Grounding(e) THEN Searches[profile] ELSE "off",
   policy    |-> PolicyOf(e),
   identity  |-> Identities[profile],
   explicit  |-> Explicit(e),
   audience  |-> Identities[profile] = "iap" /\ e.audience = "set",
   tenants   |-> Identities[profile] = "iap" /\ TenantsRead(e),
   demo      |-> e.demo]

(***************************************************************************)
(* Who may ask, and as whom.                                               *)
(***************************************************************************)
Peers       == {"loopback", "lan"}
Credentials == {"none", "persona", "unknown_persona", "forged", "unadmitted", "assertion"}

\* Mutant: any chosen profile counts as authenticated.
AnyChosenProfile(b) == b.explicit

\* Only a chosen profile whose adapter declares that it verifies counts.
EndUserAuthenticated(b) == b.explicit /\ b.identity = "iap"

ExposureRefuses(b, peer) == peer = "lan" /\ ~EndUserAuthenticated(b) /\ ~b.demo

Granted(actor)  == [status |-> "200", actor |-> actor]
Denied(status)  == [status |-> status, actor |-> "nobody"]

\* The seeded personas refuse to construct under a profile that nobody chose.
ResolvePersona(b, credential) ==
  IF ~b.explicit \/ credential = "unknown_persona" THEN Denied("401") ELSE Granted("persona")

\* The algorithm, the signature and the claims; whoever passes is who they say they are.
Verified(credential) == credential \in {"unadmitted", "assertion"}

\* The audience first, whatever was presented; then the assertion; then the maps.
ResolveAssertion(b, credential) ==
  CASE ~b.audience -> Denied("503")
    [] b.audience /\ ~Verified(credential) -> Denied("401")
    [] b.audience /\ Verified(credential) /\ ~b.tenants -> Denied("500")
    [] b.audience /\ credential = "unadmitted" /\ b.tenants -> Denied("403")
    [] b.audience /\ credential = "assertion" /\ b.tenants -> Granted("verified")

Resolve(b, credential) ==
  CASE b.identity = "persona"     -> ResolvePersona(b, credential)
    [] b.identity = "iap"         -> ResolveAssertion(b, credential)
    [] b.identity = "placeholder" -> Denied("500")
=============================================================================
