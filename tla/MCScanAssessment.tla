--------------------------- MODULE MCScanAssessment ---------------------------
(***************************************************************************)
(* ScanAssessment for TLC, with the reference numbers of policy.py and     *)
(* changes on both sides of every rule.                                    *)
(***************************************************************************)
EXTENDS ScanAssessment

Obligations == {"residency", "logging"}
Issuer      == [residency |-> "MAS", logging |-> "HKMA"]

\* A control only findings report, and one that findings and assets do.
Catalogue == {"perimeter", "locations"}
Families  == [perimeter |-> "vpc_sc", locations |-> "org_policy"]
Sources   == [perimeter |-> {"scc"}, locations |-> {"scc", "asset"}]

Claims == {"full", "none", "unreadable"}
Grades == {0, 2, Absent, Garbled}

Law(regulator, topics, kind) ==
  [regulator |-> regulator, jurisdiction |-> "SG", topics |-> topics, kind |-> kind,
   doc_type |-> "guideline"]

Amendments == {Law("MAS", <<"fees", "cloud">>, "content_revised"),
               Law("HKMA", <<>>, "version_bump"),
               Law("BNM", <<"cloud">>, "new_source")}

Detected == {{}, Amendments}

Footprint == [regulators |-> {"MAS", "HKMA"}, jurisdictions |-> {"SG", "HK"}, topics |-> {"cloud"}]
Owners    == [cloud |-> "cloud-controls-office"]
NoRule    == [r \in {} |-> ReferenceOwner]
=============================================================================
