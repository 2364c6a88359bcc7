------------------------------ MODULE Evidence ------------------------------
(***************************************************************************)
(* How the runtime looks at the checks of an acceptance, how its own look   *)
(* and the verifier's report are merged check by check, and how a finished  *)
(* verification attempt is settled from them.                               *)
(*                                                                          *)
(* A check is its kind and whether it is mandatory; the workspace is        *)
(* reduced to what evaluating the check meets in it.                        *)
(***************************************************************************)

(* present: file-exists, artifact-present.  stage: the completion marker of  *)
(* a synthesised stage.  content: file-content-matches.  text: not-empty,    *)
(* line-count, no-forbidden, json-path.  command: the four that run one.     *)
(* observed: observable, user-assertion.                                     *)
Kinds == {"present", "stage", "content", "structure", "text", "command", "observed"}
FileKinds == {"present", "content", "structure", "text"}

(* holds, broken: the condition is met, is not met.  escapes: the target is  *)
(* outside the workspace.  missing: no such file, or no such command.        *)
(* malformed: JSON or a pattern does not parse.  undecodable: not UTF-8.     *)
Facts == {"holds", "broken", "escapes", "missing", "unreadable",
          "malformed", "undecodable", "late"}

FactsOf(kind) ==
    CASE kind = "present" -> {"holds", "escapes", "missing"}
      [] kind = "content" -> Facts \ {"late"}
      [] kind = "structure" -> Facts \ {"late", "broken"}
      [] kind = "text" -> Facts \ {"late"}
      [] kind = "command" -> {"holds", "broken", "missing", "late", "undecodable"}
      [] OTHER -> {"holds", "broken"}

Outcomes == {"pass", "fail", "undetermined"}

(* "raises" is an exception evaluate_check does not turn into an outcome. *)
Evaluate(kind, fact) ==
    IF kind \in {"stage", "observed"} THEN "undetermined"
    ELSE CASE fact = "holds" -> "pass"
           [] fact \in {"broken", "escapes"} -> "fail"
           [] fact = "missing" -> IF kind \in FileKinds \ {"text"} THEN "fail"
                                                                 ELSE "undetermined"
           [] fact \in {"unreadable", "malformed", "late"} -> "undetermined"
           [] fact = "undecodable" -> "raises"

\* Mutant: the verifier's word goes over the runtime's own failure.
MergeTrusting(protocol, word) ==
    IF word \in {"pass", "fail"} THEN word ELSE protocol

\* Mutant: what the verifier leaves out replaces what could not be decided.
MergeAbsent(protocol, word) ==
    IF protocol \notin {"pass", "fail"} THEN word ELSE protocol

(* The runtime's own pass or fail stands; the verifier's fills the rest. *)
Merge(protocol, word) ==
    IF protocol \notin {"pass", "fail"} /\ word \in {"pass", "fail"} THEN word ELSE protocol

(* The verifier's word on a check: its block's, if there is one and it lists *)
(* the check.                                                                *)
Word(report, check) ==
    IF check \in DOMAIN report THEN report[check] ELSE "absent"

(* The evidence the settled attempt carries: none without typed checks or a  *)
(* workspace, and none when an evaluation raised.                            *)
Raises(checks, facts) ==
    \E c \in DOMAIN checks : Evaluate(checks[c].kind, facts[c]) = "raises"

Synthesised(checks, facts, workspace) ==
    DOMAIN checks # {} /\ workspace /\ ~Raises(checks, facts)

EvidenceOf(checks, facts, report, workspace) ==
    IF Synthesised(checks, facts, workspace)
    THEN [c \in DOMAIN checks |->
             Merge(Evaluate(checks[c].kind, facts[c]), Word(report, c))]
    ELSE <<>>

(* How the attempt is settled.  observed: what the adapter made of the       *)
(* process.  informed: a finished event, a write-back or a block came with   *)
(* it.  With evidence, the mandatory checks decide and nothing else does.    *)
Settled(observed, informed, checks, facts, report, workspace) ==
    IF DOMAIN checks # {} /\ workspace
    THEN IF /\ ~Raises(checks, facts)
            /\ \A c \in DOMAIN checks :
                  checks[c].mandatory =>
                      EvidenceOf(checks, facts, report, workspace)[c] = "pass"
         THEN "succeeded" ELSE "failed"
    ELSE IF informed THEN observed ELSE "failed"

(* What a fact says of the condition itself, apart from how it is looked at. *)
(* A missing file refutes every condition on its content but those of kind   *)
(* "text", whose evaluation leaves it open.                                  *)
Undecided(kind, fact) ==
    \/ kind \in {"stage", "observed"}
    \/ fact \in {"unreadable", "malformed", "late"}
    \/ fact = "missing" /\ kind \in {"text", "command"}

(* What it takes for a check to stand behind a completion. *)
Backed(kind, fact, word) ==
    IF Undecided(kind, fact) THEN word = "pass" ELSE fact = "holds"
=============================================================================
