------------------------------- MODULE Worlds -------------------------------
(***************************************************************************)
(* The proposals under decision and the worlds they are decided in: the    *)
(* files with their latest observations, the latest results of validation  *)
(* commands, and the git repository.                                       *)
(***************************************************************************)
EXTENDS Detectors

CONSTANTS
  Proposals,  \* actions an agent may propose
  Target,     \* the file that the file actions among them mutate
  TestFiles,  \* the candidate related tests
  Contents    \* what a file can hold

Files == {Target} \cup TestFiles
Commands == {"test", "lint", "typecheck", "build"}
CommandStatuses == {"not_run", "stale", "passed", "failed"}
NoRepo == [git |-> FALSE, branch |-> "detached", dirty |-> FALSE]
Repos == [git : {TRUE}, branch : {"protected", "feature", "detached"},
          dirty : BOOLEAN] \cup {NoRepo}

ASSUME ContentsAreNoMarks ==
  Contents \cap {"absent", "never", "missing", "metadata"} = {}
ASSUME ValidationIsNoFile == Validation \notin Files
ASSUME FileProposalsAssumption ==
  \A p \in Proposals :
    IsFileAction(p) => p.target = Target /\ p.tests \subseteq TestFiles /\ p.outside \in BOOLEAN

World == [disk : [Files -> Contents \cup {"absent"}],
          obs : [Files -> Contents \cup {"never", "missing", "metadata"}],
          results : [Commands -> CommandStatuses], repo : Repos]

\* The validation commands a landing action requires.
RequiredFor(p) == IF IsFileAction(p) THEN {} ELSE RequiredCommands(ValidationScope(p))

\* The files a proposal concerns.
FilesOf(p) == IF IsFileAction(p) THEN {p.target} \cup p.tests ELSE {}

\* Nothing has been observed or validated yet.  Of the files and the repository
\* only what matters to the proposal varies.
FreshWorlds(p) ==
  [disk : {d \in [Files -> Contents \cup {"absent"}] :
             \A f \in Files \ FilesOf(p) : d[f] = "absent"},
   obs : {[f \in Files |-> "never"]},
   results : {[c \in Commands |-> "not_run"]},
   repo : IF IsFileAction(p) THEN {NoRepo} ELSE Repos]

-----------------------------------------------------------------------------
(* What happens to a world *)

AfterReading(w, f, mode) == [w EXCEPT !.obs[f] = ObservationOf(mode, w.disk[f])]
AfterResult(w, c, status) == [w EXCEPT !.results[c] = status]

\* The environment, as far as it matters to the proposal: files change, passed
\* results age, the branch or the worktree changes.
Drifts(p, w) ==
  IF IsFileAction(p)
  THEN {[w EXCEPT !.disk[f] = d] : f \in FilesOf(p), d \in Contents \cup {"absent"}} \ {w}
  ELSE {AfterResult(w, c, "stale") :
          c \in {d \in RequiredFor(p) : w.results[d] = "passed"}}
       \cup (IF w.repo.git THEN {[w EXCEPT !.repo = r] : r \in Repos \ {NoRepo, w.repo}}
                          ELSE {})
=============================================================================
