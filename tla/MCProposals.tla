----------------------------- MODULE MCProposals -----------------------------
(***************************************************************************)
(* Constructors for the proposals of the instances.                        *)
(***************************************************************************)
FileProposal(type, tests, levels, secret, destructive, outside) ==
  [type |-> type, target |-> "module", tests |-> tests, secret |-> secret,
   levels |-> levels, destructive |-> destructive, outside |-> outside,
   named |-> FALSE]

Command(tool, sub, force, bypass, refspec, environment) ==
  [type |-> IF tool = "git" THEN "git_command" ELSE "run_command",
   tool |-> tool, sub |-> sub, force |-> force, bypass |-> bypass,
   refspec |-> refspec, environment |-> environment, named |-> FALSE]
PlainCommand(tool, sub) == Command(tool, sub, "no", FALSE, "none", "unknown")
Deploy(environment) == Command("other", "deploy", "no", FALSE, "none", environment)
=============================================================================
