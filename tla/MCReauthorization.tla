-------------------------- MODULE MCReauthorization --------------------------
(***************************************************************************)
(* Instances of Reauthorization for TLC: file actions of every risk with   *)
(* two candidate tests, and the commands that land, rewrite or only read.  *)
(***************************************************************************)
EXTENDS Reauthorization, MCProposals

MCContents == {"old", "new"}
MCTestFiles == {"unit_test", "spec_test"}

MCFileProposals ==
  {FileProposal("edit_file", MCTestFiles, l, "none", d, FALSE) :
     l \in {{}, {"medium", "high"}}, d \in {"none", "high"}}
  \cup {FileProposal("write_file", {"unit_test"}, {"medium"}, s, "none", o) :
     s \in {"none", "content"}, o \in BOOLEAN}
  \cup {FileProposal("delete_file", MCTestFiles, {}, "none", "none", FALSE)}
  \cup {FileProposal("edit_file", {}, {"high", "critical"}, "credential", "none", FALSE)}
MCCertificates ==
  {FileProposal("edit_file", {}, {}, "certificate", "none", FALSE)}

MCCommands ==
  {Command("git", "push", f, b, r, "unknown") :
     f \in {"no", "plain", "lease"}, b \in BOOLEAN,
     r \in {"none", "protected", "feature"}}
  \cup {Command("git", s, "no", b, "none", "unknown") :
     s \in {"commit", "merge"}, b \in BOOLEAN}
  \cup {PlainCommand("git", s) : s \in {"rebase", "status", "bare"}}
  \cup {Deploy(e) : e \in {"production", "staging", "unknown"}}
  \cup {PlainCommand("other", s) :
     s \in {"publish", "release", "list", "move", "install", "sudo", "pipe"}}
MCProposals == MCFileProposals \cup MCCertificates \cup MCCommands
=============================================================================
