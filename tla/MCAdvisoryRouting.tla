-------------------------- MODULE MCAdvisoryRouting --------------------------
(***************************************************************************)
(* The instance of AdvisoryRouting for TLC.                                *)
(***************************************************************************)
EXTENDS AdvisoryRouting, MCProposals, TLC

MCContents == {"old", "new"}
MCTestFiles == {"unit_test"}

Trusted == [delegation_provenance |-> "trusted"]
MCProvided ==
  {<< >>, Trusted,
   [workspace_boundary_status |-> "unknown"] @@ Trusted,
   [validation_status |-> "running"] @@ Trusted,
   [target_file_freshness |-> "unknown"] @@ Trusted,
   [autonomy_budget_status |-> "exceeded"] @@ Trusted}

MCReports ==
  {[field |-> "autonomyBudgetStatus", value |-> v] : v \in {"exceeded", "warning", "ok"}}
  \cup {[field |-> "retryBudgetStatus", value |-> "exceeded"],
        [field |-> "noNetProgress", value |-> TRUE],
        [field |-> "actionScope", value |-> "unknown"]}

MCFileProposals ==
  {FileProposal("edit_file", MCTestFiles, {}, "none", d, FALSE) :
     d \in {"none", "high", "critical"}}
  \cup {FileProposal("edit_file", MCTestFiles, {"high"}, "none", d, FALSE) :
     d \in {"none", "high"}}
  \cup {FileProposal("write_file", MCTestFiles, {"critical"}, s, "none", FALSE) :
     s \in {"none", "content"}}
  \cup {FileProposal("write_file", {}, {}, "none", "none", TRUE),
        FileProposal("delete_file", {}, {}, "none", "none", FALSE),
        FileProposal("edit_file", {}, {}, "certificate", "none", FALSE),
        [FileProposal("edit_file", {}, {}, "none", "none", FALSE) EXCEPT !.named = TRUE]}

MCCommands ==
  {PlainCommand("git", "push"), Command("git", "push", "plain", TRUE, "none", "unknown")}
  \cup {PlainCommand("git", s) : s \in {"commit", "rebase", "status", "bare"}}
  \cup {Deploy(e) : e \in {"production", "staging", "unknown"}}
  \cup {PlainCommand("other", s) :
     s \in {"publish", "release", "list", "move", "install", "sudo", "pipe"}}
MCProposals == MCFileProposals \cup MCCommands
=============================================================================
