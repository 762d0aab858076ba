------------------------- MODULE MCFindingPipeline -------------------------
(* Finite instances of FindingPipeline for TLC.                            *)
EXTENDS FindingPipeline, TLC

\* One stale access key of one identity.
KeyDetector == [fp \in Fingerprints |-> "stale_access_key"]
KeySubject == [fp \in Fingerprints |-> CHOOSE i \in Identities : TRUE]

\* One finding of each pass: an access key, a leaked credential that no identity
\* owns, a managed secret nobody uses.
PassDetector ==
  [fp \in Fingerprints |->
     CASE fp = "key" -> "stale_access_key"
       [] fp = "leak" -> "secret_exposed_in_repo"
       [] fp = "secret" -> "unused_secret"]
PassSubject ==
  [fp \in Fingerprints |-> IF fp = "key" THEN CHOOSE i \in Identities : TRUE ELSE NoIdentity]

\* Workers and requests are interchangeable; no liveness property is checked
\* under this symmetry.
Symmetric == Permutations(Workers) \cup Permutations(Requests)
=============================================================================
