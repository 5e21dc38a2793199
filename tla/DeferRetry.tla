----------------------------- MODULE DeferRetry -----------------------------
(***************************************************************************)
(* The core protocol: proposed actions are decided, deferred until their   *)
(* evidence is gathered, and retried.  Each CLI command (decide, read,     *)
(* retry, validate) is a process of its own; the processes share the       *)
(* working tree, the observation log, the deferred-action registry and the *)
(* validation results, and nothing locks any of them.                      *)
(*                                                                         *)
(* The logs are modelled by what their readers make of them: the latest    *)
(* observation of each file and the latest record of each deferral.        *)
(***************************************************************************)
EXTENDS Naturals, FiniteSets, Verdicts

CONSTANTS
  Files,        \* paths in the working tree
  Contents,     \* what a file can hold; stands for the content's hash too
  Actions,      \* proposed actions
  EditActions,  \* those that mutate a file; the others land (commit, push)
  Target,       \* Target[a]: the file an edit mutates
  Tests,        \* Tests[a]: the candidate related test files of an edit
  Risk,         \* Risk[a]: what the rules that need no evidence decide
  Ids,          \* deferred-action ids
  Procs,        \* CLI processes that can run at the same time
  ReadModes,    \* how the caller reads: "full", "metadata" (--metadata-only)
  None,
  MaxEdits,     \* bound: changes of the working tree by the environment
  MaxAgings,    \* bound: times a passed validation grows too old
  MaxFaults,    \* bound: commands that fail or die half-way
  MaxTears,     \* bound: appends that stop part-way
  MaxSupersedes \* bound: calls of markDeferredActionSuperseded

Decisions == {"PROCEED", "DEFER", "ESCALATE", "BLOCK"}
Marks == {"never", "missing", "metadata"}

ASSUME EditActionsAreActions == EditActions \subseteq Actions
ASSUME TargetType == Target \in [EditActions -> Files]
ASSUME TestsType == Tests \in [EditActions -> SUBSET Files]
ASSUME RiskType == Risk \in [Actions -> Decisions]
ASSUME ReadModesType == ReadModes \subseteq {"full", "metadata"}
ASSUME ContentsAreNoMarks == Contents \cap (Marks \cup {"absent", "unloaded"}) = {}
ASSUME NoneIsNew == None \notin Ids \cup Actions \cup Files \cup Contents
ASSUME ValidationIsNoFile == Validation \notin Files
ASSUME BoundsAreNat ==
  {MaxEdits, MaxAgings, MaxFaults, MaxTears, MaxSupersedes} \subseteq Nat

VARIABLES
  disk,         \* disk[f]: the content of f, or "absent"
  obs,          \* obs[f]: what the latest observation of f says
  obsTail,      \* whether the observation log ends in a fragment
  registry,     \* registry[i]: the latest record of deferral i
  regTail,      \* whether the registry log ends in a fragment
  audit,        \* audit entries that carry a deferral id
  validation,   \* status of the required validation commands
  cli,          \* cli[p]: the command process p runs
  observedEver, \* history: observations that were ever the latest
  issued,       \* history: deferral ids ever generated
  closed,       \* history: deferrals for which a retry returned a verdict
  used          \* how much of each bound is used up

shared == <<disk, obs, obsTail, registry, regTail, audit, validation>>
history == <<observedEver, issued, closed>>
vars == <<disk, obs, obsTail, registry, regTail, audit, validation, cli,
          observedEver, issued, closed, used>>

Observations == Contents \cup Marks
Statuses == {"fresh", "unknown", "missing", "stale"}
Tails == {"whole", "torn"}
Bounds == [edits |-> MaxEdits, agings |-> MaxAgings, faults |-> MaxFaults,
           tears |-> MaxTears, supersedes |-> MaxSupersedes]

Requirements == Files \cup {Validation}
Record == [status : {"none", "pending", "satisfied", "superseded"},
           act : Actions \cup {None}, reqs : SUBSET Requirements]
NoRecord == [status |-> "none", act |-> None, reqs |-> {}]
AuditEntry == [cmd : {"decide", "retry"}, id : Ids, verdict : Decisions]

Pcs == {"idle", "evidence", "target", "tests", "validation", "record",
        "audit", "mark", "return", "hash", "observe", "content"}
Cli == [pc : Pcs, cmd : {"none", "decide", "retry", "read"},
        act : Actions \cup {None}, id : Ids \cup {None},
        file : Files \cup {None}, mode : {"full", "metadata"},
        hash : Observations, reqs : SUBSET Requirements, todo : SUBSET Files,
        loaded : [Files -> Observations \cup {"unloaded"}],
        status : [Files -> Statuses], basis : [Files -> Contents \cup {None}],
        found : SUBSET Files, verdict : Decisions \cup {"none"}]

Idle == [pc |-> "idle", cmd |-> "none", act |-> None, id |-> None,
         file |-> None, mode |-> "full", hash |-> "never", reqs |-> {},
         todo |-> {}, loaded |-> [f \in Files |-> "unloaded"],
         status |-> [f \in Files |-> "unknown"],
         basis |-> [f \in Files |-> None], found |-> {}, verdict |-> "none"]

\* Process p goes on as command state c.
Continue(p, c) == cli' = [cli EXCEPT ![p] = c]
At(p, pcs) == cli[p].pc \in pcs
Spend(what) == /\ used[what] < Bounds[what]
               /\ used' = [used EXCEPT ![what] = @ + 1]

-----------------------------------------------------------------------------
(* Pure parts: verdicts and required evidence. *)

\* Verdicts and required evidence of an action, by its risk.
EditVerdict(a, st, found, read) == VerdictOnEdit(Risk[a], st, found, read)
LandingVerdict(a, v) == VerdictOnLanding(Risk[a], v)
EditRequirements(a, st, found, read) == EvidenceForEdit(Target[a], st, found, read)
LandingRequirements(v) == EvidenceForLanding(v)

\* evaluateDeferredEvidence: only file observations can be found satisfied.
EvidenceSatisfied(c) ==
  \A r \in c.reqs : r \in Files /\ c.status[r] = "fresh"

SomeTestRead(c) == \E t \in c.found : c.status[t] = "fresh"

\* computeSafetySignals starts: an edit checks its target, a landing action
\* the validation results.
WithSignals(c) ==
  IF c.act \in EditActions
  THEN [c EXCEPT !.pc = "target", !.todo = {Target[c.act]}]
  ELSE [c EXCEPT !.pc = "validation"]

\* A verdict is reached; decide records a deferral before anything else.
WithVerdict(c, v, rs) ==
  IF c.cmd = "decide" /\ v = "DEFER"
  THEN [c EXCEPT !.pc = "record", !.verdict = v, !.reqs = rs]
  ELSE [c EXCEPT !.pc = "audit", !.verdict = v]

\* appendFile on the registry: what lands on a fragment cannot be read.
AppendToRegistry(i, r) ==
  /\ registry' = IF regTail = "whole" THEN [registry EXCEPT ![i] = r]
                                      ELSE registry
  /\ regTail' = "whole"

-----------------------------------------------------------------------------
Init ==
  /\ disk \in [Files -> Contents \cup {"absent"}]
  /\ obs = [f \in Files |-> "never"]
  /\ obsTail = "whole"
  /\ registry = [i \in Ids |-> NoRecord]
  /\ regTail = "whole"
  /\ audit = {}
  /\ validation = "not_run"
  /\ cli = [p \in Procs |-> Idle]
  /\ observedEver = {}
  /\ issued = {}
  /\ closed = {}
  /\ used = [b \in DOMAIN Bounds |-> 0]

\* Bound: a decide starts only while an id is left for its deferral.
IdsLeft ==
  Cardinality(issued) + Cardinality({q \in Procs : cli[q].cmd = "decide"})
    < Cardinality(Ids)

\* decide: the action is parsed and normalised, the signals are next.
StartDecide(p, a) ==
  /\ At(p, {"idle"})
  /\ IdsLeft
  /\ Continue(p, WithSignals([Idle EXCEPT !.cmd = "decide", !.act = a]))
  /\ UNCHANGED <<shared, history, used>>

\* Faulty variant of StartRetry: any recorded deferral can be retried.
RetryAny(p, i) ==
  /\ At(p, {"idle"})
  /\ registry[i].status # "none"
  /\ Continue(p, [Idle EXCEPT !.pc = "evidence", !.cmd = "retry", !.id = i,
                              !.act = registry[i].act, !.reqs = registry[i].reqs,
                              !.todo = registry[i].reqs \cap Files])
  /\ UNCHANGED <<shared, history, used>>

\* retry: the latest record of the deferral is read and is pending.  A retry
\* of any other deferral returns an error and changes nothing.
StartRetry(p, i) ==
  /\ At(p, {"idle"})
  /\ registry[i].status = "pending"
  /\ Continue(p, [Idle EXCEPT !.pc = "evidence", !.cmd = "retry", !.id = i,
                              !.act = registry[i].act, !.reqs = registry[i].reqs,
                              !.todo = registry[i].reqs \cap Files])
  /\ UNCHANGED <<shared, history, used>>

\* read: the policy lets the file be read and it exists.
StartRead(p, f, m) ==
  /\ At(p, {"idle"})
  /\ disk[f] # "absent"
  /\ Continue(p, [Idle EXCEPT !.pc = "hash", !.cmd = "read", !.file = f,
                              !.mode = m])
  /\ UNCHANGED <<shared, history, used>>

\* checkFileFreshness, first half: the latest observation is loaded.  The
\* requirements of a deferral are checked one at a time, related tests at once.
LoadObservation(p, f) ==
  LET c == cli[p] IN
  /\ At(p, {"evidence", "target", "tests"})
  /\ f \in c.todo
  /\ c.loaded[f] = "unloaded"
  /\ c.pc = "evidence" => \A g \in Files : c.loaded[g] = "unloaded"
  /\ Continue(p, [c EXCEPT !.loaded[f] = obs[f]])
  /\ UNCHANGED <<shared, history, used>>

\* checkFileFreshness, second half: the file is compared with what was loaded.
\* The basis of f is the content it was last found fresh with.
CompareFile(p, f) ==
  LET c == cli[p]
      st == Freshness(c.loaded[f], disk[f]) IN
  /\ At(p, {"evidence", "target", "tests"})
  /\ f \in c.todo
  /\ c.loaded[f] # "unloaded"
  /\ Continue(p, [c EXCEPT !.loaded[f] = "unloaded", !.todo = @ \ {f},
                           !.status[f] = st,
                           !.basis[f] = IF st = "fresh" THEN disk[f] ELSE @])
  /\ UNCHANGED <<shared, history, used>>

\* Faulty variant of JudgeEvidence: evidence alone lets the action through.
TrustEvidence(p) ==
  LET c == cli[p] IN
  /\ At(p, {"evidence"})
  /\ c.todo = {}
  /\ Continue(p, WithVerdict(c, IF EvidenceSatisfied(c) THEN "PROCEED"
                                                       ELSE "DEFER", {}))
  /\ UNCHANGED <<shared, history, used>>

\* retry: with all evidence at hand the action is analysed anew, otherwise the
\* answer is DEFER again.
JudgeEvidence(p) ==
  LET c == cli[p] IN
  /\ At(p, {"evidence"})
  /\ c.todo = {}
  /\ Continue(p, IF EvidenceSatisfied(c) THEN WithSignals(c)
                 ELSE WithVerdict(c, "DEFER", {}))
  /\ UNCHANGED <<shared, history, used>>

\* findRelatedContext: the candidate tests that exist now are checked next.
FindTests(p) ==
  LET c == cli[p]
      there == {t \in Tests[c.act] : disk[t] # "absent"} IN
  /\ At(p, {"target"})
  /\ c.todo = {}
  /\ Continue(p, [c EXCEPT !.pc = "tests", !.found = there, !.todo = there])
  /\ UNCHANGED <<shared, history, used>>

\* The engine decides an edit.
JudgeEdit(p) ==
  LET c == cli[p]
      st == c.status[Target[c.act]] IN
  /\ At(p, {"tests"})
  /\ c.todo = {}
  /\ Continue(p, WithVerdict(c, EditVerdict(c.act, st, c.found, SomeTestRead(c)),
                      EditRequirements(c.act, st, c.found, SomeTestRead(c))))
  /\ UNCHANGED <<shared, history, used>>

\* The validation results are read and the engine decides a landing action.
JudgeLanding(p) ==
  LET c == cli[p] IN
  /\ At(p, {"validation"})
  /\ Continue(p, WithVerdict(c, LandingVerdict(c.act, validation),
                             LandingRequirements(validation)))
  /\ UNCHANGED <<shared, history, used>>

\* Faulty variant of RecordDeferral: a failed append goes unnoticed.
RecordOrLose(p) ==
  LET c == cli[p] IN
  /\ At(p, {"record"})
  /\ \E i \in Ids \ issued :
       /\ issued' = issued \cup {i}
       /\ \/ AppendToRegistry(i, [status |-> "pending", act |-> c.act,
                                  reqs |-> c.reqs])
          \/ UNCHANGED <<registry, regTail>>
       /\ Continue(p, [c EXCEPT !.pc = "audit", !.id = i])
  /\ UNCHANGED <<disk, obs, obsTail, audit, validation, observedEver, closed,
                 used>>

\* recordDeferredDecision: a pending record with a new id is appended.
RecordDeferral(p) ==
  LET c == cli[p] IN
  /\ At(p, {"record"})
  /\ \E i \in Ids \ issued :
       /\ issued' = issued \cup {i}
       /\ AppendToRegistry(i, [status |-> "pending", act |-> c.act,
                               reqs |-> c.reqs])
       /\ Continue(p, [c EXCEPT !.pc = "audit", !.id = i])
  /\ UNCHANGED <<disk, obs, obsTail, audit, validation, observedEver, closed,
                 used>>

\* Faulty variants of WriteAudit: the record is never marked, and it is
\* marked whatever the verdict.
AuditOnly(p) ==
  LET c == cli[p] IN
  /\ At(p, {"audit"})
  /\ audit' = IF c.id = None THEN audit
              ELSE audit \cup {[cmd |-> c.cmd, id |-> c.id, verdict |-> c.verdict]}
  /\ Continue(p, [c EXCEPT !.pc = "return"])
  /\ UNCHANGED <<disk, obs, obsTail, registry, regTail, validation, history, used>>
AuditThenMark(p) ==
  LET c == cli[p] IN
  /\ At(p, {"audit"})
  /\ audit' = IF c.id = None THEN audit
              ELSE audit \cup {[cmd |-> c.cmd, id |-> c.id, verdict |-> c.verdict]}
  /\ Continue(p, [c EXCEPT !.pc = IF c.cmd = "retry" THEN "mark" ELSE "return"])
  /\ UNCHANGED <<disk, obs, obsTail, registry, regTail, validation, history, used>>

\* The audit record is appended; a retry with a verdict then marks its record.
WriteAudit(p) ==
  LET c == cli[p] IN
  /\ At(p, {"audit"})
  /\ audit' = IF c.id = None THEN audit
              ELSE audit \cup {[cmd |-> c.cmd, id |-> c.id, verdict |-> c.verdict]}
  /\ Continue(p, [c EXCEPT !.pc =
       IF c.cmd = "retry" /\ c.verdict # "DEFER" THEN "mark" ELSE "return"])
  /\ UNCHANGED <<disk, obs, obsTail, registry, regTail, validation, history, used>>

\* markDeferredActionSatisfied: the latest record is read again and appended
\* as satisfied, whatever its status has become; without one there is nothing
\* to append.
MarkSatisfied(p) ==
  LET c == cli[p] IN
  /\ At(p, {"mark"})
  /\ IF registry[c.id].status = "none" THEN UNCHANGED <<registry, regTail>>
     ELSE AppendToRegistry(c.id, [registry[c.id] EXCEPT !.status = "satisfied"])
  /\ Continue(p, [c EXCEPT !.pc = "return"])
  /\ UNCHANGED <<disk, obs, obsTail, audit, validation, history, used>>

\* The command prints its output and its process ends.
Return(p) ==
  LET c == cli[p] IN
  /\ At(p, {"return"})
  /\ closed' = IF c.cmd = "retry" /\ c.verdict # "DEFER" THEN closed \cup {c.id}
                                                         ELSE closed
  /\ Continue(p, Idle)
  /\ UNCHANGED <<shared, observedEver, issued, used>>

\* recordObservation, first half: the file is hashed (or only looked at).
HashFile(p) ==
  LET c == cli[p] IN
  /\ At(p, {"hash"})
  /\ Continue(p, [c EXCEPT !.pc = "observe",
                           !.hash = ObservationOf(c.mode, disk[c.file])])
  /\ UNCHANGED <<shared, history, used>>

\* recordObservation, second half: the observation is appended.
Observe(p) ==
  LET c == cli[p] IN
  /\ At(p, {"observe"})
  /\ obs' = IF obsTail = "whole" THEN [obs EXCEPT ![c.file] = c.hash] ELSE obs
  /\ observedEver' = observedEver \cup
       (IF obsTail = "whole" THEN {<<c.file, c.hash>>} ELSE {})
  /\ obsTail' = "whole"
  /\ Continue(p, [c EXCEPT !.pc = IF c.mode = "metadata" THEN "return"
                                                         ELSE "content"])
  /\ UNCHANGED <<disk, registry, regTail, audit, validation, issued, closed, used>>

\* readAuthorizedFile: the content to hand out, or an error if it has gone.
ReadContent(p) ==
  LET c == cli[p] IN
  /\ At(p, {"content"})
  /\ Continue(p, IF disk[c.file] = "absent" THEN Idle
                 ELSE [c EXCEPT !.pc = "return"])
  /\ UNCHANGED <<shared, history, used>>

\* validate: the required commands run and their results are recorded.
Validate(p) ==
  /\ At(p, {"idle"})
  /\ validation' \in {"passed", "failed"}
  /\ UNCHANGED <<disk, obs, obsTail, registry, regTail, audit, cli, history, used>>

\* markDeferredActionSuperseded, a call of the library's users.
Supersede(i) ==
  /\ registry[i].status # "none"
  /\ Spend("supersedes")
  /\ AppendToRegistry(i, [registry[i] EXCEPT !.status = "superseded"])
  /\ UNCHANGED <<disk, obs, obsTail, audit, validation, cli, history>>

\* A command ends early: the policy, a detector or the audit log reports an
\* error, an append fails and writes nothing, or the process dies.
Abandon(p) ==
  /\ ~At(p, {"idle"})
  /\ Spend("faults")
  /\ Continue(p, Idle)
  /\ UNCHANGED <<shared, history>>

\* An append to the registry or to the observations stops part-way.
TearRegistry(p) ==
  /\ At(p, {"record", "mark"})
  /\ Spend("tears")
  /\ regTail' = "torn"
  /\ Continue(p, Idle)
  /\ UNCHANGED <<disk, obs, obsTail, registry, audit, validation, history>>
TearObservations(p) ==
  /\ At(p, {"observe"})
  /\ Spend("tears")
  /\ obsTail' = "torn"
  /\ Continue(p, Idle)
  /\ UNCHANGED <<disk, obs, registry, regTail, audit, validation, history>>

\* The environment: an editor or the agent changes, creates or deletes a file,
\* and time passes for the validation results.
ChangeFile(f, d) ==
  /\ disk[f] # d
  /\ Spend("edits")
  /\ disk' = [disk EXCEPT ![f] = d]
  /\ UNCHANGED <<obs, obsTail, registry, regTail, audit, validation, cli, history>>
AgeValidation ==
  /\ validation = "passed"
  /\ Spend("agings")
  /\ validation' = "stale"
  /\ UNCHANGED <<disk, obs, obsTail, registry, regTail, audit, cli, history>>

Step(p) ==
  \/ \E f \in Files : LoadObservation(p, f) \/ CompareFile(p, f)
  \/ JudgeEvidence(p) \/ FindTests(p) \/ JudgeEdit(p) \/ JudgeLanding(p)
  \/ RecordDeferral(p) \/ WriteAudit(p) \/ MarkSatisfied(p) \/ Return(p)
  \/ HashFile(p) \/ Observe(p) \/ ReadContent(p)

Next ==
  \/ \E p \in Procs :
       \/ \E a \in Actions : StartDecide(p, a)
       \/ \E i \in Ids : StartRetry(p, i)
       \/ \E f \in Files, m \in ReadModes : StartRead(p, f, m)
       \/ Step(p) \/ Validate(p)
       \/ Abandon(p) \/ TearRegistry(p) \/ TearObservations(p)
  \/ \E i \in Ids : Supersede(i)
  \/ \E f \in Files, d \in Contents \cup {"absent"} : ChangeFile(f, d)
  \/ AgeValidation

Spec == Init /\ [][Next]_vars

-----------------------------------------------------------------------------
(* Safety properties *)

\* Every variable has its type.
TypeOK ==
  /\ disk \in [Files -> Contents \cup {"absent"}]
  /\ obs \in [Files -> Observations]
  /\ obsTail \in Tails
  /\ registry \in [Ids -> Record]
  /\ regTail \in Tails
  /\ audit \in SUBSET AuditEntry
  /\ validation \in {"not_run", "passed", "failed", "stale"}
  /\ cli \in [Procs -> Cli]
  /\ observedEver \in SUBSET (Files \X Observations)
  /\ issued \in SUBSET Ids
  /\ closed \in SUBSET Ids
  /\ used \in [DOMAIN Bounds -> Nat]

\* While a retry carries a verdict other than DEFER, each file its deferral
\* asked for had in this very retry a content that some read had recorded, and
\* an edit that may proceed has a fresh target: edits, reads and other retries
\* in between never let an action through on unobserved content.
WasObserved(c, f) == c.basis[f] # None /\ <<f, c.basis[f]>> \in observedEver
RestsOnObservation(c) ==
  /\ c.cmd = "retry" /\ c.verdict # "DEFER" =>
       \A r \in c.reqs : r \in Files /\ WasObserved(c, r)
  /\ c.verdict = "PROCEED" /\ c.act \in EditActions =>
       c.status[Target[c.act]] = "fresh" /\ WasObserved(c, Target[c.act])
VerdictRestsOnObservation ==
  \A p \in Procs :
    At(p, {"audit", "mark", "return"}) => RestsOnObservation(cli[p])

\* Once a retry has returned a verdict on a deferral, no later retry of it
\* starts: its approval cannot be had twice, though retries under way at the
\* same time may both get one.  A partial write of the registry can undo this,
\* as the append after it is lost.
ReturnedIsNotPending ==
  used["tears"] = 0 => \A i \in closed : registry[i].status # "pending"
NoRetryAfterReturn ==
  [][ \A p \in Procs :
        used["tears"] = 0 /\ cli[p].pc = "idle" /\ cli'[p].cmd = "retry"
          => cli'[p].id \notin closed ]_vars

\* Every deferral id the audit log names was in the registry first, whatever
\* fails between the two logs: decide records before it audits.
AuditNamesKnownDeferrals ==
  used["tears"] = 0 => \A e \in audit : registry[e.id].status # "none"

\* A deferral is satisfied only after a retry passed a verdict on it, and it
\* never becomes pending again: the registry and the audit log, written by
\* processes that share no lock, implement the contract of a deferral.
Contract == INSTANCE DeferralContract WITH
  status <- [i \in Ids |-> registry[i].status],
  verdicts <- [i \in Ids |->
    {e.verdict : e \in {x \in audit : x.cmd = "retry" /\ x.id = i}}]
ContractSpec == Contract!Spec

-----------------------------------------------------------------------------
(* Liveness.  Commands do not wait for each other, so each runs to its end. *)
(* The agent is the assumption: it goes on reading the files, running the   *)
(* validation and retrying, as the fetch plan of a DEFER tells it to.       *)

AgentFollowsPlan(p) ==
  /\ \A f \in Files : SF_vars(StartRead(p, f, "full"))
  /\ \A i \in Ids : SF_vars(StartRetry(p, i))
  /\ SF_vars(Validate(p) /\ validation' = "passed")
FairSpec ==
  /\ Spec
  /\ \A p \in Procs : WF_vars(Step(p)) /\ AgentFollowsPlan(p)

Pending(i) == registry[i].status = "pending"

\* Once an agent follows the fetch plan, an edit deferred for its files does
\* not stay pending: what a retry asks for is what reading the files gives.
\* The exception is a file that is gone, which no read can observe.
FileDeferralsResolve ==
  \A i \in Ids, a \in EditActions :
    Pending(i) /\ registry[i].act = a ~>
      \/ ~Pending(i)
      \/ \E f \in registry[i].reqs \cup {Target[a]} : disk[f] = "absent"

\* The same for a landing action: its fetch plan says to run the required
\* validation before retrying authorization.
LandingDeferralsResolve ==
  \A i \in Ids :
    Pending(i) /\ registry[i].act \notin EditActions ~>
      ~Pending(i) \/ validation # "passed"
=============================================================================
