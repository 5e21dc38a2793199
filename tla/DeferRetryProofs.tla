-------------------------- MODULE DeferRetryProofs --------------------------
(***************************************************************************)
(* Proofs about DeferRetry, for every number of files, actions, deferrals  *)
(* and processes, and every bound.                                         *)
(***************************************************************************)
EXTENDS DeferRetry, TLAPS

-----------------------------------------------------------------------------
(* The fields of a command that its position determines, and the records   *)
(* of the registry: what the type invariant needs to be inductive.         *)

CommandOK(c) ==
  /\ c.pc = "idle" <=> c.cmd = "none"
  /\ c.pc \in {"hash", "observe", "content"} => c.cmd = "read"
  /\ c.cmd = "read" => /\ c.file \in Files /\ c.verdict = "none"
                       /\ c.pc \in {"hash", "observe", "content", "return"}
  /\ c.cmd \in {"decide", "retry"} => c.act \in Actions
  /\ c.cmd = "retry" => c.id \in Ids
  /\ c.pc \in {"target", "tests"} => c.act \in EditActions
  /\ c.pc = "validation" => c.act \notin EditActions
  /\ c.pc = "evidence" => c.cmd = "retry"
  /\ c.pc = "record" => c.cmd = "decide" /\ c.verdict = "DEFER"
  /\ c.pc = "mark" => c.cmd = "retry" /\ c.verdict # "DEFER"
  /\ c.pc = "audit" => c.verdict # "none"

CommandsOK == \A p \in Procs : CommandOK(cli[p])
RecordsOK ==
  \A i \in Ids : registry[i].status # "none" =>
    registry[i].act \in Actions /\ i \in issued
TypeInv == TypeOK /\ CommandsOK /\ RecordsOK

\* A process that goes on as a well-formed command keeps cli well-formed.
LEMMA ContinueOK ==
  ASSUME TypeInv, NEW p \in Procs, NEW c, c \in Cli, CommandOK(c),
         Continue(p, c)
  PROVE  cli' \in [Procs -> Cli] /\ CommandsOK'
<1>1. cli \in [Procs -> Cli] /\ cli' = [cli EXCEPT ![p] = c]
  BY DEF TypeInv, TypeOK, Continue
<1>2. cli' \in [Procs -> Cli]
  BY <1>1
<1>3. \A q \in Procs : cli'[q] = IF q = p THEN c ELSE cli[q]
  BY <1>1
<1>4. \A q \in Procs : CommandOK(cli'[q])
  BY <1>3 DEF TypeInv, CommandsOK
<1>5. QED
  BY <1>2, <1>4 DEF CommandsOK

\* Idle is a command state.
LEMMA IdleOK == Idle \in Cli /\ CommandOK(Idle)
  BY DEF Idle, Cli, CommandOK, Pcs, Observations, Marks, Statuses, Decisions

\* A fresh file exists and holds what was observed.
LEMMA FreshIsObserved ==
  ASSUME NEW o, NEW d, Freshness(o, d) = "fresh"
  PROVE  o = d /\ d # "absent" /\ o \notin {"never", "metadata"}
  BY DEF Freshness

LEMMA FreshnessType ==
  ASSUME NEW o, NEW d
  PROVE  Freshness(o, d) \in Statuses
  BY DEF Freshness, Statuses

\* What one more use of a bound does.
LEMMA SpendType ==
  ASSUME TypeOK, NEW what \in DOMAIN Bounds, Spend(what)
  PROVE  /\ used' \in [DOMAIN Bounds -> Nat]
         /\ used'["tears"] = 0 => used["tears"] = 0 /\ what # "tears"
  BY DEF Spend, TypeOK, Bounds

\* An append to the registry keeps the records well-formed.
LEMMA AppendOK ==
  ASSUME TypeInv, NEW i \in Ids, NEW r \in Record, r.status # "none",
         r.act \in Actions, i \in issued', issued \subseteq issued',
         AppendToRegistry(i, r)
  PROVE  registry' \in [Ids -> Record] /\ regTail' \in Tails /\ RecordsOK'
  BY DEF TypeInv, TypeOK, RecordsOK, AppendToRegistry, Tails

\* Verdicts are decisions, and a verdict reached keeps a command well-formed.
LEMMA VerdictTypes ==
  /\ \A a \in Actions : \A st, found, read :
       EditVerdict(a, st, found, read) \in Decisions
  /\ \A a \in Actions : \A v : LandingVerdict(a, v) \in Decisions
  BY RiskType DEF EditVerdict, LandingVerdict, VerdictOnEdit, VerdictOnLanding, Decisions

LEMMA VerdictOK ==
  ASSUME NEW c \in Cli, CommandOK(c), c.cmd \in {"decide", "retry"},
         NEW v \in Decisions, NEW rs \in SUBSET Requirements
  PROVE  WithVerdict(c, v, rs) \in Cli /\ CommandOK(WithVerdict(c, v, rs))
<1>1. CASE c.cmd = "decide" /\ v = "DEFER"
  <2> DEFINE d == [c EXCEPT !.pc = "record", !.verdict = v, !.reqs = rs]
  <2>1. d \in Cli
    BY DEF Cli, Pcs
  <2>2. /\ d.pc = "record" /\ d.cmd = "decide" /\ d.verdict = "DEFER"
        /\ d.act = c.act
    BY <1>1 DEF Cli
  <2>3. CommandOK(d)
    BY <2>2 DEF CommandOK
  <2>4. QED
    BY <1>1, <2>1, <2>3 DEF WithVerdict
<1>2. CASE ~(c.cmd = "decide" /\ v = "DEFER")
  <2> DEFINE d == [c EXCEPT !.pc = "audit", !.verdict = v]
  <2>1. d \in Cli
    BY DEF Cli, Pcs
  <2>2. /\ d.pc = "audit" /\ d.cmd = c.cmd /\ d.verdict = v
        /\ d.act = c.act /\ d.id = c.id
    BY DEF Cli
  <2>3. v # "none"
    BY DEF Decisions
  <2>4. CommandOK(d)
    BY <2>2, <2>3 DEF CommandOK
  <2>5. QED
    BY <1>2, <2>1, <2>4 DEF WithVerdict
<1>3. QED
  BY <1>1, <1>2

LEMMA SignalsOK ==
  ASSUME NEW c \in Cli, c.cmd \in {"decide", "retry"}, c.act \in Actions,
         c.cmd = "retry" => c.id \in Ids
  PROVE  WithSignals(c) \in Cli /\ CommandOK(WithSignals(c))
<1>1. CASE c.act \in EditActions
  <2> DEFINE d == [c EXCEPT !.pc = "target", !.todo = {Target[c.act]}]
  <2>0. {Target[c.act]} \in SUBSET Files
    BY <1>1, TargetType
  <2>1. d \in Cli
    BY <2>0 DEF Cli, Pcs
  <2>2. d.pc = "target" /\ d.cmd = c.cmd /\ d.act = c.act /\ d.id = c.id
    BY DEF Cli
  <2>3. CommandOK(d)
    BY <1>1, <2>2 DEF CommandOK
  <2>4. QED
    BY <1>1, <2>1, <2>3 DEF WithSignals
<1>2. CASE c.act \notin EditActions
  <2> DEFINE d == [c EXCEPT !.pc = "validation"]
  <2>1. d \in Cli
    BY DEF Cli, Pcs
  <2>2. d.pc = "validation" /\ d.cmd = c.cmd /\ d.act = c.act /\ d.id = c.id
    BY DEF Cli
  <2>3. CommandOK(d)
    BY <1>2, <2>2 DEF CommandOK
  <2>4. QED
    BY <1>2, <2>1, <2>3 DEF WithSignals
<1>3. QED
  BY <1>1, <1>2

-----------------------------------------------------------------------------
(* Type correctness. *)

LEMMA InitType == Init => TypeInv
<1>1. SUFFICES ASSUME Init PROVE TypeInv
  OBVIOUS
<1>2. CommandsOK
  BY <1>1, IdleOK DEF Init, CommandsOK
<1>3. RecordsOK
  BY <1>1 DEF Init, RecordsOK, NoRecord
<1>4. cli \in [Procs -> Cli]
  BY <1>1, IdleOK DEF Init
<1>5. registry \in [Ids -> Record]
  BY <1>1 DEF Init, NoRecord, Record
<1>6. used \in [DOMAIN Bounds -> Nat]
  BY <1>1 DEF Init
<1>7. obs \in [Files -> Observations]
  BY <1>1 DEF Init, Observations, Marks
<1>8. TypeOK
  BY <1>1, <1>4, <1>5, <1>6, <1>7 DEF Init, TypeOK, Tails
<1>9. QED
  BY <1>2, <1>3, <1>8 DEF TypeInv

\* A step that leaves all but the commands alone.
LEMMA CommandStep ==
  ASSUME TypeInv, NEW p \in Procs, NEW c \in Cli, CommandOK(c), Continue(p, c),
         UNCHANGED <<shared, history, used>>
  PROVE  TypeInv'
<1>1. cli' \in [Procs -> Cli] /\ CommandsOK'
  BY ContinueOK
<1>2. TypeOK'
  BY <1>1 DEF TypeInv, TypeOK, shared, history
<1>3. RecordsOK'
  BY DEF TypeInv, RecordsOK, shared, history
<1>4. QED
  BY <1>1, <1>2, <1>3 DEF TypeInv

LEMMA StartType ==
  ASSUME TypeInv, NEW p \in Procs
  PROVE  /\ \A a \in Actions : StartDecide(p, a) => TypeInv'
         /\ \A i \in Ids : StartRetry(p, i) => TypeInv'
         /\ \A f \in Files, m \in ReadModes : StartRead(p, f, m) => TypeInv'
<1>1. ASSUME NEW a \in Actions, StartDecide(p, a) PROVE TypeInv'
  <2> DEFINE b == [Idle EXCEPT !.cmd = "decide", !.act = a]
  <2>1. b \in Cli /\ b.cmd = "decide" /\ b.act = a
    BY IdleOK DEF Cli, Idle
  <2>2. WithSignals(b) \in Cli /\ CommandOK(WithSignals(b))
    BY <2>1, SignalsOK
  <2>3. QED
    BY <1>1, <2>2, CommandStep DEF StartDecide
<1>2. ASSUME NEW i \in Ids, StartRetry(p, i) PROVE TypeInv'
  <2> DEFINE b == [Idle EXCEPT !.pc = "evidence", !.cmd = "retry", !.id = i,
                       !.act = registry[i].act, !.reqs = registry[i].reqs,
                       !.todo = registry[i].reqs \cap Files]
  <2>1. registry[i] \in Record /\ registry[i].act \in Actions
    BY <1>2 DEF StartRetry, TypeInv, TypeOK, RecordsOK
  <2>2. b \in Cli
    BY <2>1, IdleOK DEF Cli, Record, Pcs
  <2>3. b.pc = "evidence" /\ b.cmd = "retry" /\ b.id = i /\ b.act = registry[i].act
    BY DEF Idle
  <2>4. CommandOK(b)
    BY <2>1, <2>3 DEF CommandOK
  <2>5. QED
    BY <1>2, <2>2, <2>4, CommandStep DEF StartRetry
<1>3. ASSUME NEW f \in Files, NEW m \in ReadModes, StartRead(p, f, m) PROVE TypeInv'
  <2> DEFINE b == [Idle EXCEPT !.pc = "hash", !.cmd = "read", !.file = f,
                              !.mode = m]
  <2>1. b \in Cli /\ CommandOK(b)
    BY IdleOK, ReadModesType, ZenonT(40) DEF Cli, Idle, CommandOK, Pcs
  <2>2. QED
    BY <1>3, <2>1, CommandStep DEF StartRead
<1>4. QED
  BY <1>1, <1>2, <1>3

LEMMA CheckType ==
  ASSUME TypeInv, NEW p \in Procs
  PROVE  /\ \A f \in Files : LoadObservation(p, f) => TypeInv'
         /\ \A f \in Files : CompareFile(p, f) => TypeInv'
         /\ FindTests(p) => TypeInv'
<1> DEFINE c == cli[p]
<1>0. c \in Cli /\ CommandOK(c)
  BY DEF TypeInv, TypeOK, CommandsOK
<1>1. ASSUME NEW f \in Files, LoadObservation(p, f) PROVE TypeInv'
  <2> DEFINE d == [c EXCEPT !.loaded[f] = obs[f]]
  <2>1. obs[f] \in Observations
    BY DEF TypeInv, TypeOK
  <2>2. d \in Cli
    BY <1>0, <2>1 DEF Cli
  <2>3. /\ d.pc = c.pc /\ d.cmd = c.cmd /\ d.act = c.act /\ d.id = c.id
        /\ d.file = c.file /\ d.verdict = c.verdict
    BY <1>0 DEF Cli
  <2>4. CommandOK(d)
    BY <1>0, <2>3 DEF CommandOK
  <2>5. QED
    BY <1>1, <2>2, <2>4, CommandStep DEF LoadObservation
<1>2. ASSUME NEW f \in Files, CompareFile(p, f) PROVE TypeInv'
  <2> DEFINE st == Freshness(c.loaded[f], disk[f])
             x == IF st = "fresh" THEN disk[f] ELSE c.basis[f]
             d == [c EXCEPT !.loaded[f] = "unloaded", !.todo = @ \ {f},
                            !.status[f] = st,
                            !.basis[f] = IF st = "fresh" THEN disk[f] ELSE @]
  <2>1. st \in Statuses
    BY FreshnessType
  <2>2. disk[f] \in Contents \cup {"absent"}
    BY DEF TypeInv, TypeOK
  <2>3. x \in Contents \cup {None}
    <3>1. c.basis[f] \in Contents \cup {None}
      BY <1>0 DEF Cli
    <3>2. CASE st = "fresh"
      BY <2>2, <3>2, FreshIsObserved
    <3>3. QED
      BY <3>1, <3>2
  <2>4. /\ [c.loaded EXCEPT ![f] = "unloaded"] \in [Files -> Observations \cup {"unloaded"}]
        /\ [c.status EXCEPT ![f] = st] \in [Files -> Statuses]
        /\ [c.basis EXCEPT ![f] = x] \in [Files -> Contents \cup {None}]
        /\ c.todo \ {f} \in SUBSET Files
    BY <1>0, <2>1, <2>3 DEF Cli
  <2>5. d = [c EXCEPT !.loaded = [c.loaded EXCEPT ![f] = "unloaded"],
                      !.todo = c.todo \ {f},
                      !.status = [c.status EXCEPT ![f] = st],
                      !.basis = [c.basis EXCEPT ![f] = x]]
    BY <1>0 DEF Cli
  <2>6. d \in Cli
    <3> HIDE DEF st, x, d
    <3>1. QED
      BY <1>0, <2>4, <2>5 DEF Cli
  <2>7. /\ d.pc = c.pc /\ d.cmd = c.cmd /\ d.act = c.act /\ d.id = c.id
        /\ d.file = c.file /\ d.verdict = c.verdict
    BY <1>0 DEF Cli
  <2>8. CommandOK(d)
    BY <1>0, <2>7 DEF CommandOK
  <2>9. QED
    BY <1>2, <2>6, <2>8, CommandStep DEF CompareFile
<1>3. ASSUME FindTests(p) PROVE TypeInv'
  <2> DEFINE there == {t \in Tests[c.act] : disk[t] # "absent"}
             d == [c EXCEPT !.pc = "tests", !.found = there, !.todo = there]
  <2>1. c.pc = "target" /\ c.act \in EditActions
    BY <1>0, <1>3 DEF FindTests, At, CommandOK
  <2>2. there \in SUBSET Files
    BY <2>1, TestsType
  <2>3. d \in Cli
    <3> HIDE DEF there
    <3>1. QED
      BY <1>0, <2>2 DEF Cli, Pcs
  <2>4. d.pc = "tests" /\ d.cmd = c.cmd /\ d.act = c.act /\ d.id = c.id
    BY <1>0 DEF Cli
  <2>5. CommandOK(d)
    BY <1>0, <2>1, <2>4 DEF CommandOK
  <2>6. QED
    BY <1>3, <2>3, <2>5, CommandStep DEF FindTests
<1>4. QED
  BY <1>1, <1>2, <1>3

LEMMA JudgeType ==
  ASSUME TypeInv, NEW p \in Procs
  PROVE  /\ JudgeEvidence(p) => TypeInv'
         /\ JudgeEdit(p) => TypeInv'
         /\ JudgeLanding(p) => TypeInv'
<1> DEFINE c == cli[p]
<1>0. c \in Cli /\ CommandOK(c)
  BY DEF TypeInv, TypeOK, CommandsOK
<1>1. ASSUME JudgeEvidence(p) PROVE TypeInv'
  <2>1. c.cmd = "retry" /\ c.act \in Actions /\ c.id \in Ids
    BY <1>0, <1>1 DEF JudgeEvidence, At, CommandOK
  <2>2. WithSignals(c) \in Cli /\ CommandOK(WithSignals(c))
    BY <1>0, <2>1, SignalsOK
  <2>3. WithVerdict(c, "DEFER", {}) \in Cli /\ CommandOK(WithVerdict(c, "DEFER", {}))
    BY <1>0, <2>1, VerdictOK DEF Decisions
  <2>4. QED
    BY <1>1, <2>2, <2>3, CommandStep DEF JudgeEvidence
<1>2. ASSUME JudgeEdit(p) PROVE TypeInv'
  <2> DEFINE st == c.status[Target[c.act]]
             v == EditVerdict(c.act, st, c.found, SomeTestRead(c))
             rs == EditRequirements(c.act, st, c.found, SomeTestRead(c))
  <2>1. c.pc = "tests" /\ c.act \in EditActions /\ c.act \in Actions
        /\ c.cmd \in {"decide", "retry"}
    BY <1>0, <1>2, EditActionsAreActions DEF JudgeEdit, At, CommandOK, Cli
  <2>2. v \in Decisions
    BY <2>1, VerdictTypes
  <2>3. rs \in SUBSET Requirements
    BY <1>0, <2>1, TargetType DEF EditRequirements, EvidenceForEdit, Requirements, Cli
  <2>4. WithVerdict(c, v, rs) \in Cli /\ CommandOK(WithVerdict(c, v, rs))
    BY <1>0, <2>1, <2>2, <2>3, VerdictOK
  <2>5. QED
    BY <1>2, <2>4, CommandStep DEF JudgeEdit
<1>3. ASSUME JudgeLanding(p) PROVE TypeInv'
  <2> DEFINE v == LandingVerdict(c.act, validation)
             rs == LandingRequirements(validation)
  <2>1. c.cmd \in {"decide", "retry"} /\ c.act \in Actions
    BY <1>0, <1>3 DEF JudgeLanding, At, CommandOK, Cli
  <2>2. v \in Decisions
    BY <2>1, VerdictTypes
  <2>3. rs \in SUBSET Requirements
    BY DEF LandingRequirements, EvidenceForLanding, Requirements
  <2>4. WithVerdict(c, v, rs) \in Cli /\ CommandOK(WithVerdict(c, v, rs))
    BY <1>0, <2>1, <2>2, <2>3, VerdictOK
  <2>5. QED
    BY <1>3, <2>4, CommandStep DEF JudgeLanding
<1>4. QED
  BY <1>1, <1>2, <1>3

LEMMA RecordingType ==
  ASSUME TypeInv, NEW p \in Procs
  PROVE  /\ RecordDeferral(p) => TypeInv'
         /\ WriteAudit(p) => TypeInv'
         /\ MarkSatisfied(p) => TypeInv'
         /\ Return(p) => TypeInv'
<1> DEFINE c == cli[p]
<1>0. c \in Cli /\ CommandOK(c)
  BY DEF TypeInv, TypeOK, CommandsOK
<1>1. ASSUME RecordDeferral(p) PROVE TypeInv'
  <2>1. PICK i \in Ids \ issued :
          /\ issued' = issued \cup {i}
          /\ AppendToRegistry(i, [status |-> "pending", act |-> c.act,
                                  reqs |-> c.reqs])
          /\ Continue(p, [c EXCEPT !.pc = "audit", !.id = i])
    BY <1>1 DEF RecordDeferral
  <2> DEFINE d == [c EXCEPT !.pc = "audit", !.id = i]
             r == [status |-> "pending", act |-> c.act, reqs |-> c.reqs]
  <2>2. c.cmd = "decide" /\ c.act \in Actions /\ c.verdict = "DEFER"
    BY <1>0, <1>1 DEF RecordDeferral, At, CommandOK
  <2>3. d \in Cli
    BY <1>0 DEF Cli, Pcs
  <2>4. d.pc = "audit" /\ d.cmd = "decide" /\ d.act = c.act /\ d.verdict = "DEFER"
    BY <1>0, <2>2 DEF Cli
  <2>5. CommandOK(d)
    BY <2>2, <2>4 DEF CommandOK
  <2>6. cli' \in [Procs -> Cli] /\ CommandsOK'
    BY <2>1, <2>3, <2>5, ContinueOK
  <2>7. r \in Record /\ r.status # "none" /\ r.act \in Actions
    BY <1>0, <2>2 DEF Cli, Record
  <2>8. registry' \in [Ids -> Record] /\ regTail' \in Tails /\ RecordsOK'
    BY <2>1, <2>7, AppendOK
  <2>9. TypeOK'
    BY <1>1, <2>1, <2>6, <2>8 DEF TypeInv, TypeOK, RecordDeferral
  <2>10. QED
    BY <2>6, <2>8, <2>9 DEF TypeInv
<1>2. ASSUME WriteAudit(p) PROVE TypeInv'
  <2> DEFINE next == IF c.cmd = "retry" /\ c.verdict # "DEFER" THEN "mark" ELSE "return"
             d == [c EXCEPT !.pc = next]
  <2>1. c.pc = "audit" /\ c.cmd \in {"decide", "retry"} /\ c.verdict \in Decisions
    BY <1>0, <1>2 DEF WriteAudit, At, CommandOK, Cli
  <2>2. d \in Cli
    BY <1>0 DEF Cli, Pcs
  <2>3. /\ d.pc = next /\ d.cmd = c.cmd /\ d.act = c.act /\ d.verdict = c.verdict
        /\ d.id = c.id
    BY <1>0 DEF Cli
  <2>4. CommandOK(d)
    BY <1>0, <2>1, <2>3 DEF CommandOK
  <2>5. cli' \in [Procs -> Cli] /\ CommandsOK'
    BY <1>2, <2>2, <2>4, ContinueOK DEF WriteAudit
  <2>6. audit' \in SUBSET AuditEntry
    <3>1. CASE c.id = None
      BY <1>2, <3>1 DEF WriteAudit, TypeInv, TypeOK
    <3>2. CASE c.id # None
      <4>1. [cmd |-> c.cmd, id |-> c.id, verdict |-> c.verdict] \in AuditEntry
        BY <1>0, <2>1, <3>2 DEF AuditEntry, Cli
      <4>2. QED
        BY <1>2, <3>2, <4>1 DEF WriteAudit, TypeInv, TypeOK
    <3>3. QED
      BY <3>1, <3>2
  <2>7. TypeOK'
    BY <1>2, <2>5, <2>6 DEF TypeInv, TypeOK, WriteAudit, history
  <2>8. RecordsOK'
    BY <1>2 DEF TypeInv, RecordsOK, WriteAudit, history
  <2>9. QED
    BY <2>5, <2>7, <2>8 DEF TypeInv
<1>3. ASSUME MarkSatisfied(p) PROVE TypeInv'
  <2> DEFINE d == [c EXCEPT !.pc = "return"]
             r == [registry[c.id] EXCEPT !.status = "satisfied"]
  <2>1. c.pc = "mark" /\ c.cmd = "retry" /\ c.id \in Ids /\ c.act \in Actions
    BY <1>0, <1>3 DEF MarkSatisfied, At, CommandOK
  <2>2. d \in Cli
    BY <1>0 DEF Cli, Pcs
  <2>3. d.pc = "return" /\ d.cmd = "retry" /\ d.act = c.act /\ d.id = c.id
    BY <1>0, <2>1 DEF Cli
  <2>4. CommandOK(d)
    BY <2>1, <2>3 DEF CommandOK
  <2>5. cli' \in [Procs -> Cli] /\ CommandsOK'
    BY <1>3, <2>2, <2>4, ContinueOK DEF MarkSatisfied
  <2>6. registry' \in [Ids -> Record] /\ regTail' \in Tails /\ RecordsOK'
    <3>1. CASE registry[c.id].status = "none"
      BY <1>3, <3>1 DEF MarkSatisfied, history, TypeInv, TypeOK, RecordsOK
    <3>2. CASE registry[c.id].status # "none"
      <4>1. registry[c.id] \in Record
        BY <2>1 DEF TypeInv, TypeOK
      <4>2. registry[c.id].act \in Actions /\ c.id \in issued
        BY <2>1, <3>2 DEF TypeInv, RecordsOK
      <4>3. r \in Record /\ r.status # "none" /\ r.act \in Actions
        BY <4>1, <4>2 DEF Record
      <4>4. AppendToRegistry(c.id, r) /\ issued' = issued
        BY <1>3, <3>2 DEF MarkSatisfied, history
      <4>5. QED
        BY <2>1, <4>2, <4>3, <4>4, AppendOK
    <3>3. QED
      BY <3>1, <3>2
  <2>7. TypeOK'
    BY <1>3, <2>5, <2>6 DEF TypeInv, TypeOK, MarkSatisfied, history
  <2>8. QED
    BY <2>5, <2>6, <2>7 DEF TypeInv
<1>4. ASSUME Return(p) PROVE TypeInv'
  <2>1. cli' \in [Procs -> Cli] /\ CommandsOK'
    BY <1>4, IdleOK, ContinueOK DEF Return
  <2>2. c.cmd = "retry" => c.id \in Ids
    BY <1>0 DEF CommandOK
  <2>3. closed' \in SUBSET Ids
    BY <1>4, <2>2 DEF Return, TypeInv, TypeOK
  <2>4. TypeOK'
    BY <1>4, <2>1, <2>3 DEF TypeInv, TypeOK, Return, shared
  <2>5. RecordsOK'
    BY <1>4 DEF TypeInv, RecordsOK, Return, shared
  <2>6. QED
    BY <2>1, <2>4, <2>5 DEF TypeInv
<1>5. QED
  BY <1>1, <1>2, <1>3, <1>4

LEMMA ReadingType ==
  ASSUME TypeInv, NEW p \in Procs
  PROVE  /\ HashFile(p) => TypeInv'
         /\ Observe(p) => TypeInv'
         /\ ReadContent(p) => TypeInv'
<1> DEFINE c == cli[p]
<1>0. c \in Cli /\ CommandOK(c)
  BY DEF TypeInv, TypeOK, CommandsOK
<1>1. ASSUME HashFile(p) PROVE TypeInv'
  <2> DEFINE h == ObservationOf(c.mode, disk[c.file])
             d == [c EXCEPT !.pc = "observe", !.hash = h]
  <2>1. c.cmd = "read" /\ c.file \in Files /\ c.verdict = "none"
    BY <1>0, <1>1 DEF HashFile, At, CommandOK
  <2>2. disk[c.file] \in Contents \cup {"absent"}
    BY <2>1 DEF TypeInv, TypeOK
  <2>3. h \in Observations
    BY <2>2 DEF ObservationOf, Observations, Marks
  <2>4. d \in Cli
    <3> HIDE DEF h
    <3>1. QED
      BY <1>0, <2>3 DEF Cli, Pcs
  <2>5. d.pc = "observe" /\ d.cmd = "read" /\ d.file = c.file /\ d.verdict = c.verdict
    BY <1>0, <2>1 DEF Cli
  <2>6. CommandOK(d)
    BY <2>1, <2>5 DEF CommandOK
  <2>7. QED
    BY <1>1, <2>4, <2>6, CommandStep DEF HashFile
<1>2. ASSUME Observe(p) PROVE TypeInv'
  <2> DEFINE next == IF c.mode = "metadata" THEN "return" ELSE "content"
             d == [c EXCEPT !.pc = next]
  <2>1. c.cmd = "read" /\ c.file \in Files /\ c.verdict = "none"
    BY <1>0, <1>2 DEF Observe, At, CommandOK
  <2>2. d \in Cli
    BY <1>0 DEF Cli, Pcs
  <2>3. d.pc = next /\ d.cmd = "read" /\ d.file = c.file /\ d.verdict = c.verdict
    BY <1>0, <2>1 DEF Cli
  <2>4. CommandOK(d)
    BY <2>1, <2>3 DEF CommandOK
  <2>5. cli' \in [Procs -> Cli] /\ CommandsOK'
    BY <1>2, <2>2, <2>4, ContinueOK DEF Observe
  <2>6. c.hash \in Observations
    BY <1>0 DEF Cli
  <2>7. obs' \in [Files -> Observations] /\ obsTail' \in Tails
    BY <1>2, <2>1, <2>6 DEF Observe, TypeInv, TypeOK, Tails
  <2>8. observedEver' \in SUBSET (Files \X Observations)
    BY <1>2, <2>1, <2>6 DEF Observe, TypeInv, TypeOK
  <2>9. TypeOK'
    BY <1>2, <2>5, <2>7, <2>8 DEF TypeInv, TypeOK, Observe
  <2>10. RecordsOK'
    BY <1>2 DEF TypeInv, RecordsOK, Observe
  <2>11. QED
    BY <2>5, <2>9, <2>10 DEF TypeInv
<1>3. ASSUME ReadContent(p) PROVE TypeInv'
  <2> DEFINE d == [c EXCEPT !.pc = "return"]
  <2>1. c.cmd = "read" /\ c.file \in Files /\ c.verdict = "none"
    BY <1>0, <1>3 DEF ReadContent, At, CommandOK
  <2>2. d \in Cli
    BY <1>0 DEF Cli, Pcs
  <2>3. d.pc = "return" /\ d.cmd = "read" /\ d.file = c.file /\ d.verdict = c.verdict
    BY <1>0, <2>1 DEF Cli
  <2>4. CommandOK(d)
    BY <2>1, <2>3 DEF CommandOK
  <2>5. QED
    BY <1>3, <2>2, <2>4, IdleOK, CommandStep DEF ReadContent
<1>4. QED
  BY <1>1, <1>2, <1>3

LEMMA MishapType ==
  ASSUME TypeInv, NEW p \in Procs
  PROVE  /\ Abandon(p) => TypeInv'
         /\ TearRegistry(p) => TypeInv'
         /\ TearObservations(p) => TypeInv'
<1>0. {"faults", "tears"} \subseteq DOMAIN Bounds
  BY DEF Bounds
<1>1. ASSUME Abandon(p) PROVE TypeInv'
  <2>1. cli' \in [Procs -> Cli] /\ CommandsOK'
    BY <1>1, IdleOK, ContinueOK DEF Abandon
  <2>2. used' \in [DOMAIN Bounds -> Nat]
    BY <1>0, <1>1, SpendType DEF Abandon, TypeInv
  <2>3. TypeOK'
    BY <1>1, <2>1, <2>2 DEF TypeInv, TypeOK, Abandon, shared, history
  <2>4. QED
    BY <1>1, <2>1, <2>3 DEF TypeInv, RecordsOK, Abandon, shared, history
<1>2. ASSUME TearRegistry(p) PROVE TypeInv'
  <2>1. cli' \in [Procs -> Cli] /\ CommandsOK'
    BY <1>2, IdleOK, ContinueOK DEF TearRegistry
  <2>2. used' \in [DOMAIN Bounds -> Nat]
    BY <1>0, <1>2, SpendType DEF TearRegistry, TypeInv
  <2>3. TypeOK'
    BY <1>2, <2>1, <2>2 DEF TypeInv, TypeOK, TearRegistry, Tails, history
  <2>4. QED
    BY <1>2, <2>1, <2>3 DEF TypeInv, RecordsOK, TearRegistry, history
<1>3. ASSUME TearObservations(p) PROVE TypeInv'
  <2>1. cli' \in [Procs -> Cli] /\ CommandsOK'
    BY <1>3, IdleOK, ContinueOK DEF TearObservations
  <2>2. used' \in [DOMAIN Bounds -> Nat]
    BY <1>0, <1>3, SpendType DEF TearObservations, TypeInv
  <2>3. TypeOK'
    BY <1>3, <2>1, <2>2 DEF TypeInv, TypeOK, TearObservations, Tails, history
  <2>4. QED
    BY <1>3, <2>1, <2>3 DEF TypeInv, RecordsOK, TearObservations, history
<1>4. QED
  BY <1>1, <1>2, <1>3

LEMMA EnvironmentType ==
  ASSUME TypeInv
  PROVE  /\ \A p \in Procs : Validate(p) => TypeInv'
         /\ \A i \in Ids : Supersede(i) => TypeInv'
         /\ \A f \in Files, d \in Contents \cup {"absent"} :
              ChangeFile(f, d) => TypeInv'
         /\ AgeValidation => TypeInv'
         /\ UNCHANGED vars => TypeInv'
<1>0. {"edits", "agings", "supersedes"} \subseteq DOMAIN Bounds
  BY DEF Bounds
<1>1. ASSUME NEW p \in Procs, Validate(p) PROVE TypeInv'
  BY <1>1 DEF TypeInv, TypeOK, CommandsOK, CommandOK, RecordsOK, Validate, history
<1>2. ASSUME NEW i \in Ids, Supersede(i) PROVE TypeInv'
  <2> DEFINE r == [registry[i] EXCEPT !.status = "superseded"]
  <2>1. registry[i] \in Record /\ registry[i].act \in Actions /\ i \in issued
    BY <1>2 DEF Supersede, TypeInv, TypeOK, RecordsOK
  <2>2. r \in Record /\ r.status # "none" /\ r.act \in Actions
    BY <2>1 DEF Record
  <2>3. AppendToRegistry(i, r) /\ issued' = issued
    BY <1>2 DEF Supersede, history
  <2>4. registry' \in [Ids -> Record] /\ regTail' \in Tails /\ RecordsOK'
    BY <2>1, <2>2, <2>3, AppendOK
  <2>5. used' \in [DOMAIN Bounds -> Nat]
    BY <1>0, <1>2, SpendType DEF Supersede, TypeInv
  <2>6. TypeOK'
    BY <1>2, <2>4, <2>5 DEF TypeInv, TypeOK, Supersede, history
  <2>7. CommandsOK'
    BY <1>2 DEF TypeInv, CommandsOK, CommandOK, Supersede
  <2>8. QED
    BY <2>4, <2>6, <2>7 DEF TypeInv
<1>3. ASSUME NEW f \in Files, NEW d \in Contents \cup {"absent"}, ChangeFile(f, d)
      PROVE  TypeInv'
  <2>1. used' \in [DOMAIN Bounds -> Nat]
    BY <1>0, <1>3, SpendType DEF ChangeFile, TypeInv
  <2>2. TypeOK'
    BY <1>3, <2>1 DEF TypeInv, TypeOK, ChangeFile, history
  <2>3. QED
    BY <1>3, <2>2
    DEF TypeInv, CommandsOK, CommandOK, RecordsOK, ChangeFile, history
<1>4. ASSUME AgeValidation PROVE TypeInv'
  <2>1. used' \in [DOMAIN Bounds -> Nat]
    BY <1>0, <1>4, SpendType DEF AgeValidation, TypeInv
  <2>2. TypeOK'
    BY <1>4, <2>1 DEF TypeInv, TypeOK, AgeValidation, history
  <2>3. QED
    BY <1>4, <2>2
    DEF TypeInv, CommandsOK, CommandOK, RecordsOK, AgeValidation, history
<1>5. ASSUME UNCHANGED vars PROVE TypeInv'
  BY <1>5 DEF vars, TypeInv, TypeOK, CommandsOK, CommandOK, RecordsOK
<1>6. QED
  BY <1>1, <1>2, <1>3, <1>4, <1>5

LEMMA TypeStep == TypeInv /\ [Next]_vars => TypeInv'
BY StartType, CheckType, JudgeType, RecordingType, ReadingType, MishapType,
   EnvironmentType
DEF Next, Step

\* TypeOK holds in every reachable state: each command carries what the next
\* step of it uses, and each record of a deferral names an action.
THEOREM TypeCorrect == Spec => []TypeOK
<1>1. TypeInv => TypeOK
  BY DEF TypeInv
<1>2. QED
  BY InitType, TypeStep, <1>1, PTL DEF Spec

-----------------------------------------------------------------------------
(* Verdicts rest on observations.  The hash a command has loaded, and the   *)
(* content it found a file fresh with, were recorded by some read; what a   *)
(* retry found fresh it keeps until it returns.                             *)

Known(f, o) == o \in Contents => <<f, o>> \in observedEver
ChecksKnown(c) ==
  \A f \in Files :
    /\ Known(f, c.loaded[f])
    /\ c.basis[f] # None => <<f, c.basis[f]>> \in observedEver
    /\ c.status[f] = "fresh" => c.basis[f] # None
EvidenceKept(c) ==
  c.cmd = "retry" /\ c.pc \in {"target", "tests", "validation"} =>
    \A r \in c.reqs : r \in Files /\ c.basis[r] # None
VerdictRests(c) ==
  c.pc \in {"audit", "mark", "return"} =>
    /\ c.cmd = "retry" /\ c.verdict # "DEFER" =>
         \A r \in c.reqs : r \in Files /\ c.basis[r] # None
    /\ c.verdict = "PROCEED" /\ c.act \in EditActions =>
         c.status[Target[c.act]] = "fresh"
CommandRests(c) == ChecksKnown(c) /\ EvidenceKept(c) /\ VerdictRests(c)
ObservedInv ==
  /\ \A f \in Files : Known(f, obs[f])
  /\ \A p \in Procs : CommandRests(cli[p])

\* The marks of an observation are no contents.
LEMMA MarksAreNoContents == Contents \cap {"never", "missing", "metadata", "unloaded", "absent"} = {}
  BY ContentsAreNoMarks DEF Marks

LEMMA IdleRests == CommandRests(Idle)
  BY MarksAreNoContents
  DEF Idle, CommandRests, ChecksKnown, Known, EvidenceKept, VerdictRests

\* A process that goes on with what is known keeps the invariant.
LEMMA ContinueRests ==
  ASSUME TypeInv, ObservedInv, NEW p \in Procs, NEW c \in Cli, CommandRests(c),
         Continue(p, c), UNCHANGED <<obs, observedEver>>
  PROVE  ObservedInv'
<1>1. \A q \in Procs : cli'[q] = IF q = p THEN c ELSE cli[q]
  BY DEF TypeInv, TypeOK, Continue
<1>2. \A q \in Procs : CommandRests(cli'[q])
  BY <1>1 DEF ObservedInv
<1>3. \A q \in Procs : CommandRests(cli[q])'
  BY <1>2 DEF CommandRests, ChecksKnown, Known, EvidenceKept, VerdictRests
<1>4. \A f \in Files : Known(f, obs[f])'
  BY DEF ObservedInv, Known
<1>5. QED
  BY <1>3, <1>4 DEF ObservedInv

\* So does a step that leaves the commands and the observations alone.
LEMMA StutterRests ==
  ASSUME ObservedInv, UNCHANGED <<cli, obs, observedEver>>
  PROVE  ObservedInv'
  BY DEF ObservedInv, CommandRests, ChecksKnown, Known, EvidenceKept, VerdictRests

LEMMA InitObserved == Init => ObservedInv
  BY IdleRests, MarksAreNoContents DEF Init, ObservedInv, Known

\* Signals and verdicts carry the checks over.
LEMMA SignalsRest ==
  ASSUME NEW c \in Cli, ChecksKnown(c),
         c.cmd = "retry" => \A r \in c.reqs : r \in Files /\ c.basis[r] # None
  PROVE  CommandRests(WithSignals(c))
<1> DEFINE d == WithSignals(c)
<1>1. /\ d.loaded = c.loaded /\ d.basis = c.basis /\ d.status = c.status
      /\ d.reqs = c.reqs /\ d.cmd = c.cmd /\ d.pc \in {"target", "validation"}
  BY DEF WithSignals, Cli
<1>2. QED
  BY <1>1 DEF CommandRests, ChecksKnown, EvidenceKept, VerdictRests

LEMMA VerdictRestsToo ==
  ASSUME NEW c \in Cli, NEW v, NEW rs, ChecksKnown(c),
         c.cmd = "retry" /\ v # "DEFER" =>
           \A r \in c.reqs : r \in Files /\ c.basis[r] # None,
         v = "PROCEED" /\ c.act \in EditActions =>
           c.status[Target[c.act]] = "fresh"
  PROVE  CommandRests(WithVerdict(c, v, rs))
<1> DEFINE d == WithVerdict(c, v, rs)
<1>1. /\ d.loaded = c.loaded /\ d.basis = c.basis /\ d.status = c.status
      /\ d.cmd = c.cmd /\ d.act = c.act /\ d.verdict = v
      /\ d.pc \in {"record", "audit"}
      /\ d.cmd = "retry" => d.reqs = c.reqs
  BY DEF WithVerdict, Cli
<1>2. QED
  BY <1>1 DEF CommandRests, ChecksKnown, EvidenceKept, VerdictRests

\* So does moving on within a command.
LEMMA MoveRests ==
  ASSUME NEW c \in Cli, CommandRests(c), NEW d,
         d.loaded = c.loaded, d.basis = c.basis, d.status = c.status,
         d.cmd = c.cmd, d.act = c.act, d.verdict = c.verdict, d.reqs = c.reqs,
         \/ c.pc = "target" /\ d.pc = "tests"
         \/ c.pc \in {"audit", "mark"} /\ d.pc \in {"mark", "return"}
         \/ c.pc = "record" /\ c.verdict = "DEFER" /\ d.pc = "audit"
         \/ d.pc \in {"hash", "observe", "content"}
         \/ d.pc = "return" /\ c.cmd = "read" /\ c.verdict = "none"
  PROVE  CommandRests(d)
  BY DEF CommandRests, ChecksKnown, EvidenceKept, VerdictRests
LEMMA StartRests ==
  ASSUME TypeInv, ObservedInv, NEW p \in Procs
  PROVE  /\ \A a \in Actions : StartDecide(p, a) => ObservedInv'
         /\ \A i \in Ids : StartRetry(p, i) => ObservedInv'
         /\ \A f \in Files, m \in ReadModes : StartRead(p, f, m) => ObservedInv'
<1>0. ChecksKnown(Idle) /\ Idle \in Cli
  BY IdleRests, IdleOK DEF CommandRests
<1>1. ASSUME NEW a \in Actions, StartDecide(p, a) PROVE ObservedInv'
  <2> DEFINE b == [Idle EXCEPT !.cmd = "decide", !.act = a]
  <2>1. b \in Cli /\ b.cmd = "decide" /\ b.act = a
    BY IdleOK DEF Cli, Idle
  <2>2. b.loaded = Idle.loaded /\ b.basis = Idle.basis /\ b.status = Idle.status
    BY <1>0 DEF Cli
  <2>3. ChecksKnown(b)
    BY <1>0, <2>2 DEF ChecksKnown
  <2>4. CommandRests(WithSignals(b))
    BY <2>1, <2>3, SignalsRest
  <2>5. WithSignals(b) \in Cli
    BY <2>1, SignalsOK
  <2>6. QED
    BY <1>1, <2>4, <2>5, ContinueRests DEF StartDecide, shared, history
<1>2. ASSUME NEW i \in Ids, StartRetry(p, i) PROVE ObservedInv'
  <2> DEFINE b == [Idle EXCEPT !.pc = "evidence", !.cmd = "retry", !.id = i,
                       !.act = registry[i].act, !.reqs = registry[i].reqs,
                       !.todo = registry[i].reqs \cap Files]
  <2>1. registry[i] \in Record
    BY DEF TypeInv, TypeOK
  <2>2. b \in Cli
    BY <2>1, IdleOK DEF Cli, Record, Pcs
  <2>3. /\ b.pc = "evidence" /\ b.loaded = Idle.loaded /\ b.basis = Idle.basis
        /\ b.status = Idle.status
    BY <1>0 DEF Cli
  <2>4. CommandRests(b)
    BY <1>0, <2>3 DEF CommandRests, ChecksKnown, EvidenceKept, VerdictRests
  <2>5. QED
    BY <1>2, <2>2, <2>4, ContinueRests DEF StartRetry, shared, history
<1>3. ASSUME NEW f \in Files, NEW m \in ReadModes, StartRead(p, f, m) PROVE ObservedInv'
  <2> DEFINE b == [Idle EXCEPT !.pc = "hash", !.cmd = "read", !.file = f,
                              !.mode = m]
  <2>1. b \in Cli
    BY IdleOK, ReadModesType DEF Cli, Idle, Pcs
  <2>2. /\ b.pc = "hash" /\ b.loaded = Idle.loaded /\ b.basis = Idle.basis
        /\ b.status = Idle.status
    BY <1>0 DEF Cli
  <2>3. CommandRests(b)
    BY <1>0, <2>2 DEF CommandRests, ChecksKnown, EvidenceKept, VerdictRests
  <2>4. QED
    BY <1>3, <2>1, <2>3, ContinueRests DEF StartRead, shared, history
<1>4. QED
  BY <1>1, <1>2, <1>3

LEMMA CheckRests ==
  ASSUME TypeInv, ObservedInv, NEW p \in Procs
  PROVE  /\ \A f \in Files : LoadObservation(p, f) => ObservedInv'
         /\ \A f \in Files : CompareFile(p, f) => ObservedInv'
         /\ FindTests(p) => ObservedInv'
<1> DEFINE c == cli[p]
<1>0. c \in Cli /\ CommandOK(c) /\ CommandRests(c)
  BY DEF TypeInv, TypeOK, CommandsOK, ObservedInv
<1>1. ASSUME NEW f \in Files, LoadObservation(p, f) PROVE ObservedInv'
  <2> DEFINE d == [c EXCEPT !.loaded[f] = obs[f]]
  <2>1. obs[f] \in Observations /\ Known(f, obs[f])
    BY DEF TypeInv, TypeOK, ObservedInv
  <2>2. d \in Cli
    BY <1>0, <2>1 DEF Cli
  <2>3. /\ d.loaded = [c.loaded EXCEPT ![f] = obs[f]]
        /\ d.basis = c.basis /\ d.status = c.status /\ d.cmd = c.cmd
        /\ d.act = c.act /\ d.verdict = c.verdict /\ d.reqs = c.reqs /\ d.pc = c.pc
    BY <1>0 DEF Cli
  <2>4. c.loaded \in [Files -> Observations \cup {"unloaded"}]
    BY <1>0 DEF Cli
  <2>5. ChecksKnown(d)
    BY <1>0, <2>1, <2>3, <2>4 DEF CommandRests, ChecksKnown
  <2>6. CommandRests(d)
    BY <1>0, <2>3, <2>5 DEF CommandRests, EvidenceKept, VerdictRests
  <2>7. QED
    BY <1>1, <2>2, <2>6, ContinueRests DEF LoadObservation, shared, history
<1>2. ASSUME NEW f \in Files, CompareFile(p, f) PROVE ObservedInv'
  <2> DEFINE st == Freshness(c.loaded[f], disk[f])
             x == IF st = "fresh" THEN disk[f] ELSE c.basis[f]
             d == [c EXCEPT !.loaded[f] = "unloaded", !.todo = @ \ {f},
                            !.status[f] = st,
                            !.basis[f] = IF st = "fresh" THEN disk[f] ELSE @]
  <2>1. st \in Statuses /\ disk[f] \in Contents \cup {"absent"}
    BY FreshnessType DEF TypeInv, TypeOK
  <2>2. /\ c.loaded \in [Files -> Observations \cup {"unloaded"}]
        /\ c.status \in [Files -> Statuses]
        /\ c.basis \in [Files -> Contents \cup {None}]
    BY <1>0 DEF Cli
  <2>3. /\ d.loaded = [c.loaded EXCEPT ![f] = "unloaded"]
        /\ d.status = [c.status EXCEPT ![f] = st]
        /\ d.basis = [c.basis EXCEPT ![f] = x]
        /\ d.cmd = c.cmd /\ d.act = c.act /\ d.verdict = c.verdict
        /\ d.reqs = c.reqs /\ d.pc = c.pc
    BY <1>0 DEF Cli
  <2>4. st = "fresh" => x \in Contents /\ x # None /\ <<f, x>> \in observedEver
    <3>1. ASSUME st = "fresh" PROVE x \in Contents /\ x = c.loaded[f]
      BY <2>1, <3>1, FreshIsObserved
    <3>2. QED
      BY <1>0, <3>1, NoneIsNew DEF CommandRests, ChecksKnown, Known
  <2>5. x # None => <<f, x>> \in observedEver
    BY <1>0, <2>4 DEF CommandRests, ChecksKnown
  <2>6. c.basis[f] # None => x # None
    BY <2>4
  <2>7. ChecksKnown(d)
    <3>1. ASSUME NEW g \in Files
          PROVE  /\ Known(g, d.loaded[g])
                 /\ d.basis[g] # None => <<g, d.basis[g]>> \in observedEver
                 /\ d.status[g] = "fresh" => d.basis[g] # None
      <4>1. CASE g = f
        <5>1. d.loaded[g] = "unloaded" /\ d.status[g] = st /\ d.basis[g] = x
          BY <2>2, <2>3, <4>1
        <5>2. QED
          BY <2>4, <2>5, <4>1, <5>1, MarksAreNoContents DEF Known
      <4>2. CASE g # f
        <5>1. /\ d.loaded[g] = c.loaded[g] /\ d.status[g] = c.status[g]
              /\ d.basis[g] = c.basis[g]
          BY <2>2, <2>3, <4>2
        <5>2. QED
          BY <1>0, <5>1 DEF CommandRests, ChecksKnown
      <4>3. QED
        BY <4>1, <4>2
    <3>2. QED
      BY <3>1 DEF ChecksKnown
  <2>8. c.pc \in {"evidence", "target", "tests"}
    BY <1>2 DEF CompareFile, At
  <2>9. VerdictRests(d)
    BY <2>3, <2>8 DEF VerdictRests
  <2>10. EvidenceKept(d)
    <3>1. \A g \in Files : c.basis[g] # None => d.basis[g] # None
      BY <2>2, <2>3, <2>6
    <3>2. QED
      BY <1>0, <2>3, <3>1 DEF CommandRests, EvidenceKept
  <2>11. d \in Cli
    <3>1. /\ d.loaded \in [Files -> Observations \cup {"unloaded"}]
          /\ d.status \in [Files -> Statuses]
          /\ d.todo = c.todo \ {f}
      BY <1>0, <2>1, <2>2, <2>3 DEF Cli
    <3>2. x \in Contents \cup {None}
      BY <2>2, <2>4
    <3>3. d.basis \in [Files -> Contents \cup {None}]
      BY <2>2, <2>3, <3>2
    <3>4. d = [c EXCEPT !.loaded = d.loaded, !.todo = d.todo,
                        !.status = d.status, !.basis = d.basis]
      BY <1>0 DEF Cli
    <3>5. d.todo \in SUBSET Files
      BY <1>0, <3>1 DEF Cli
    <3> HIDE DEF d, x, st
    <3>6. QED
      BY <1>0, <3>1, <3>3, <3>4, <3>5 DEF Cli
  <2>12. CommandRests(d)
    BY <2>7, <2>9, <2>10 DEF CommandRests
  <2>13. QED
    BY <1>2, <2>11, <2>12, ContinueRests DEF CompareFile, shared, history
<1>3. ASSUME FindTests(p) PROVE ObservedInv'
  <2> DEFINE there == {t \in Tests[c.act] : disk[t] # "absent"}
             d == [c EXCEPT !.pc = "tests", !.found = there, !.todo = there]
  <2>1. c.pc = "target" /\ c.act \in EditActions
    BY <1>0, <1>3 DEF FindTests, At, CommandOK
  <2>2. there \in SUBSET Files
    BY <2>1, TestsType
  <2>3. d \in Cli
    <3> HIDE DEF there
    <3>1. QED
      BY <1>0, <2>2 DEF Cli, Pcs
  <2>4. /\ d.loaded = c.loaded /\ d.basis = c.basis /\ d.status = c.status
        /\ d.cmd = c.cmd /\ d.act = c.act /\ d.verdict = c.verdict
        /\ d.reqs = c.reqs /\ d.pc = "tests"
    BY <1>0 DEF Cli
  <2>5. CommandRests(d)
    <3> HIDE DEF d
    <3>1. QED
      BY <1>0, <2>1, <2>4, MoveRests
  <2>6. QED
    BY <1>3, <2>3, <2>5, ContinueRests DEF FindTests, shared, history
<1>4. QED
  BY <1>1, <1>2, <1>3
LEMMA JudgeRests ==
  ASSUME TypeInv, ObservedInv, NEW p \in Procs
  PROVE  /\ JudgeEvidence(p) => ObservedInv'
         /\ JudgeEdit(p) => ObservedInv'
         /\ JudgeLanding(p) => ObservedInv'
<1> DEFINE c == cli[p]
<1>0. c \in Cli /\ CommandOK(c) /\ ChecksKnown(c) /\ EvidenceKept(c)
  BY DEF TypeInv, TypeOK, CommandsOK, ObservedInv, CommandRests
<1>1. ASSUME JudgeEvidence(p) PROVE ObservedInv'
  <2>1. c.pc = "evidence" /\ c.cmd = "retry" /\ c.act \in Actions /\ c.id \in Ids
    BY <1>0, <1>1 DEF JudgeEvidence, At, CommandOK
  <2>2. CASE EvidenceSatisfied(c)
    <3>1. \A r \in c.reqs : r \in Files /\ c.basis[r] # None
      BY <1>0, <2>2 DEF EvidenceSatisfied, ChecksKnown
    <3>2. CommandRests(WithSignals(c))
      BY <1>0, <3>1, SignalsRest
    <3>3. WithSignals(c) \in Cli
      BY <1>0, <2>1, SignalsOK
    <3>4. QED
      BY <1>1, <2>2, <3>2, <3>3, ContinueRests DEF JudgeEvidence, shared, history
  <2>3. CASE ~EvidenceSatisfied(c)
    <3>1. CommandRests(WithVerdict(c, "DEFER", {}))
      BY <1>0, VerdictRestsToo
    <3>2. WithVerdict(c, "DEFER", {}) \in Cli
      BY <1>0, <2>1, VerdictOK DEF Decisions
    <3>3. QED
      BY <1>1, <2>3, <3>1, <3>2, ContinueRests DEF JudgeEvidence, shared, history
  <2>4. QED
    BY <2>2, <2>3
<1>2. ASSUME JudgeEdit(p) PROVE ObservedInv'
  <2> DEFINE st == c.status[Target[c.act]]
             v == EditVerdict(c.act, st, c.found, SomeTestRead(c))
             rs == EditRequirements(c.act, st, c.found, SomeTestRead(c))
  <2>1. c.pc = "tests" /\ c.act \in EditActions /\ c.act \in Actions
        /\ c.cmd \in {"decide", "retry"}
    BY <1>0, <1>2, EditActionsAreActions DEF JudgeEdit, At, CommandOK, Cli
  <2>2. v \in Decisions
    BY <2>1, VerdictTypes
  <2>3. rs \in SUBSET Requirements
    BY <1>0, <2>1, TargetType DEF EditRequirements, EvidenceForEdit, Requirements, Cli
  <2>4. v = "PROCEED" => st = "fresh"
    BY DEF EditVerdict, VerdictOnEdit
  <2>5. c.cmd = "retry" => \A r \in c.reqs : r \in Files /\ c.basis[r] # None
    BY <1>0, <2>1 DEF EvidenceKept
  <2>6. CommandRests(WithVerdict(c, v, rs))
    <3> HIDE DEF v, rs
    <3>1. QED
      BY <1>0, <2>4, <2>5, VerdictRestsToo
  <2>7. WithVerdict(c, v, rs) \in Cli
    BY <1>0, <2>1, <2>2, <2>3, VerdictOK
  <2>8. QED
    BY <1>2, <2>6, <2>7, ContinueRests DEF JudgeEdit, shared, history
<1>3. ASSUME JudgeLanding(p) PROVE ObservedInv'
  <2> DEFINE v == LandingVerdict(c.act, validation)
             rs == LandingRequirements(validation)
  <2>1. c.pc = "validation" /\ c.cmd \in {"decide", "retry"} /\ c.act \in Actions
        /\ c.act \notin EditActions
    BY <1>0, <1>3 DEF JudgeLanding, At, CommandOK, Cli
  <2>2. v \in Decisions
    BY <2>1, VerdictTypes
  <2>3. rs \in SUBSET Requirements
    BY DEF LandingRequirements, EvidenceForLanding, Requirements
  <2>4. c.cmd = "retry" => \A r \in c.reqs : r \in Files /\ c.basis[r] # None
    BY <1>0, <2>1 DEF EvidenceKept
  <2>5. CommandRests(WithVerdict(c, v, rs))
    <3> HIDE DEF v, rs
    <3>1. QED
      BY <1>0, <2>1, <2>4, VerdictRestsToo
  <2>6. WithVerdict(c, v, rs) \in Cli
    BY <1>0, <2>1, <2>2, <2>3, VerdictOK
  <2>7. QED
    BY <1>3, <2>5, <2>6, ContinueRests DEF JudgeLanding, shared, history
<1>4. QED
  BY <1>1, <1>2, <1>3

\* The new state of a command that only moves on.
LEMMA MovedFields ==
  ASSUME NEW c \in Cli, NEW pc \in Pcs
  PROVE  LET d == [c EXCEPT !.pc = pc] IN
         /\ d \in Cli
         /\ d.loaded = c.loaded /\ d.basis = c.basis /\ d.status = c.status
         /\ d.cmd = c.cmd /\ d.act = c.act /\ d.verdict = c.verdict
         /\ d.reqs = c.reqs /\ d.id = c.id /\ d.pc = pc
  BY DEF Cli

LEMMA RecordingRests ==
  ASSUME TypeInv, ObservedInv, NEW p \in Procs
  PROVE  /\ RecordDeferral(p) => ObservedInv'
         /\ WriteAudit(p) => ObservedInv'
         /\ MarkSatisfied(p) => ObservedInv'
         /\ Return(p) => ObservedInv'
<1> DEFINE c == cli[p]
<1>0. c \in Cli /\ CommandOK(c) /\ CommandRests(c)
  BY DEF TypeInv, TypeOK, CommandsOK, ObservedInv
<1>1. ASSUME RecordDeferral(p) PROVE ObservedInv'
  <2>1. PICK i \in Ids \ issued : Continue(p, [c EXCEPT !.pc = "audit", !.id = i])
    BY <1>1 DEF RecordDeferral
  <2> DEFINE d == [c EXCEPT !.pc = "audit", !.id = i]
  <2>2. c.pc = "record" /\ c.verdict = "DEFER"
    BY <1>0, <1>1 DEF RecordDeferral, At, CommandOK
  <2>3. /\ d.loaded = c.loaded /\ d.basis = c.basis /\ d.status = c.status
        /\ d.cmd = c.cmd /\ d.act = c.act /\ d.verdict = c.verdict
        /\ d.reqs = c.reqs /\ d.pc = "audit" /\ d \in Cli
    BY <1>0 DEF Cli, Pcs
  <2>4. CommandRests(d)
    <3> HIDE DEF d
    <3>1. QED
      BY <1>0, <2>2, <2>3, MoveRests
  <2>5. QED
    BY <1>1, <2>1, <2>3, <2>4, ContinueRests DEF RecordDeferral
<1>2. ASSUME WriteAudit(p) PROVE ObservedInv'
  <2> DEFINE next == IF c.cmd = "retry" /\ c.verdict # "DEFER" THEN "mark" ELSE "return"
             d == [c EXCEPT !.pc = next]
  <2>1. c.pc = "audit" /\ next \in {"mark", "return"} /\ next \in Pcs
    BY <1>2 DEF WriteAudit, At, Pcs
  <2>2. CommandRests(d)
    <3> HIDE DEF next
    <3>1. QED
      BY <1>0, <2>1, MovedFields, MoveRests
  <2>3. d \in Cli
    <3> HIDE DEF next
    <3>1. QED
      BY <1>0, <2>1, MovedFields
  <2>4. QED
    BY <1>2, <2>2, <2>3, ContinueRests DEF WriteAudit, history
<1>3. ASSUME MarkSatisfied(p) PROVE ObservedInv'
  <2> DEFINE d == [c EXCEPT !.pc = "return"]
  <2>1. c.pc = "mark" /\ "return" \in Pcs
    BY <1>3 DEF MarkSatisfied, At, Pcs
  <2>2. d \in Cli /\ CommandRests(d)
    BY <1>0, <2>1, MovedFields, MoveRests
  <2>3. QED
    BY <1>3, <2>2, ContinueRests DEF MarkSatisfied, history
<1>4. ASSUME Return(p) PROVE ObservedInv'
  BY <1>4, IdleOK, IdleRests, ContinueRests DEF Return, shared
<1>5. QED
  BY <1>1, <1>2, <1>3, <1>4

LEMMA ReadingRests ==
  ASSUME TypeInv, ObservedInv, NEW p \in Procs
  PROVE  /\ HashFile(p) => ObservedInv'
         /\ Observe(p) => ObservedInv'
         /\ ReadContent(p) => ObservedInv'
<1> DEFINE c == cli[p]
<1>0. c \in Cli /\ CommandOK(c) /\ CommandRests(c)
  BY DEF TypeInv, TypeOK, CommandsOK, ObservedInv
<1>1. ASSUME HashFile(p) PROVE ObservedInv'
  <2> DEFINE h == ObservationOf(c.mode, disk[c.file])
             d == [c EXCEPT !.pc = "observe", !.hash = h]
  <2>1. c.file \in Files
    BY <1>0, <1>1 DEF HashFile, At, CommandOK
  <2>2. disk[c.file] \in Contents \cup {"absent"}
    BY <2>1 DEF TypeInv, TypeOK
  <2>3. h \in Observations
    BY <2>2 DEF ObservationOf, Observations, Marks
  <2>4. d \in Cli
    <3> HIDE DEF h
    <3>1. QED
      BY <1>0, <2>3 DEF Cli, Pcs
  <2>5. /\ d.loaded = c.loaded /\ d.basis = c.basis /\ d.status = c.status
        /\ d.cmd = c.cmd /\ d.act = c.act /\ d.verdict = c.verdict
        /\ d.reqs = c.reqs /\ d.pc = "observe"
    BY <1>0 DEF Cli
  <2>6. CommandRests(d)
    <3> HIDE DEF d
    <3>1. QED
      BY <1>0, <2>5, MoveRests
  <2>7. QED
    BY <1>1, <2>4, <2>6, ContinueRests DEF HashFile, shared, history
<1>2. ASSUME Observe(p) PROVE ObservedInv'
  <2> DEFINE next == IF c.mode = "metadata" THEN "return" ELSE "content"
             d == [c EXCEPT !.pc = next]
  <2>1. c.cmd = "read" /\ c.verdict = "none" /\ next \in {"return", "content"}
        /\ next \in Pcs
    BY <1>0, <1>2 DEF Observe, At, CommandOK, Pcs
  <2>2. CommandRests(d)
    <3>1. /\ d.loaded = c.loaded /\ d.basis = c.basis /\ d.status = c.status
          /\ d.cmd = c.cmd /\ d.act = c.act /\ d.verdict = c.verdict
          /\ d.reqs = c.reqs /\ d.pc = next
      BY <1>0 DEF Cli
    <3> HIDE DEF next, d
    <3>2. QED
      BY <1>0, <2>1, <3>1, MoveRests
  <2>3. \A q \in Procs : cli'[q] = IF q = p THEN d ELSE cli[q]
    BY <1>2 DEF Observe, Continue, TypeInv, TypeOK
  <2>4. observedEver \subseteq observedEver'
    BY <1>2 DEF Observe
  <2>5. \A q \in Procs : CommandRests(cli'[q])
    BY <2>2, <2>3 DEF ObservedInv
  <2>6. \A q \in Procs : CommandRests(cli[q])'
    BY <2>4, <2>5 DEF CommandRests, ChecksKnown, Known, EvidenceKept, VerdictRests
  <2>7. \A f \in Files : Known(f, obs[f])'
    BY <1>2, <2>4 DEF Observe, ObservedInv, Known, TypeInv, TypeOK
  <2>8. QED
    BY <2>6, <2>7 DEF ObservedInv
<1>3. ASSUME ReadContent(p) PROVE ObservedInv'
  <2> DEFINE d == [c EXCEPT !.pc = "return"]
  <2>1. c.cmd = "read" /\ c.verdict = "none" /\ "return" \in Pcs
    BY <1>0, <1>3 DEF ReadContent, At, CommandOK, Pcs
  <2>2. d \in Cli /\ CommandRests(d)
    BY <1>0, <2>1, MovedFields, MoveRests
  <2>3. QED
    BY <1>3, <2>2, IdleOK, IdleRests, ContinueRests DEF ReadContent, shared, history
<1>4. QED
  BY <1>1, <1>2, <1>3

LEMMA ObservedStep == TypeInv /\ ObservedInv /\ [Next]_vars => ObservedInv'
<1> SUFFICES ASSUME TypeInv, ObservedInv, [Next]_vars PROVE ObservedInv'
  OBVIOUS
<1>1. CASE Next
  <2>1. ASSUME NEW p \in Procs,
               \/ \E a \in Actions : StartDecide(p, a)
               \/ \E i \in Ids : StartRetry(p, i)
               \/ \E f \in Files, m \in ReadModes : StartRead(p, f, m)
               \/ Step(p)
        PROVE  ObservedInv'
    BY <2>1, StartRests, CheckRests, JudgeRests, RecordingRests, ReadingRests
    DEF Step
  <2>2. ASSUME NEW p \in Procs,
               Abandon(p) \/ TearRegistry(p) \/ TearObservations(p)
        PROVE  ObservedInv'
    BY <2>2, IdleOK, IdleRests, ContinueRests
    DEF Abandon, TearRegistry, TearObservations, shared, history
  <2>3. ASSUME NEW p \in Procs, Validate(p) PROVE ObservedInv'
    BY <2>3, StutterRests DEF Validate, history
  <2>4. ASSUME NEW i \in Ids, Supersede(i) PROVE ObservedInv'
    BY <2>4, StutterRests DEF Supersede, history
  <2>5. ASSUME NEW f \in Files, NEW d \in Contents \cup {"absent"}, ChangeFile(f, d)
        PROVE  ObservedInv'
    BY <2>5, StutterRests DEF ChangeFile, history
  <2>6. ASSUME AgeValidation PROVE ObservedInv'
    BY <2>6, StutterRests DEF AgeValidation, history
  <2>7. QED
    BY <1>1, <2>1, <2>2, <2>3, <2>4, <2>5, <2>6 DEF Next
<1>2. CASE UNCHANGED vars
  BY <1>2, StutterRests DEF vars
<1>3. QED
  BY <1>1, <1>2

\* Whatever commands run at the same time and whatever changes in between, a
\* verdict other than DEFER rests on contents that some read recorded.
THEOREM VerdictsRestOnObservations == Spec => []VerdictRestsOnObservation
<1>1. TypeInv /\ ObservedInv => VerdictRestsOnObservation
  <2> SUFFICES ASSUME TypeInv, ObservedInv, NEW p \in Procs,
                      At(p, {"audit", "mark", "return"})
               PROVE  RestsOnObservation(cli[p])
    BY DEF VerdictRestsOnObservation
  <2>1. ChecksKnown(cli[p]) /\ VerdictRests(cli[p])
    BY DEF ObservedInv, CommandRests
  <2>2. cli[p].act \in EditActions => Target[cli[p].act] \in Files
    BY TargetType
  <2>3. QED
    BY <2>1, <2>2
    DEF RestsOnObservation, WasObserved, VerdictRests, ChecksKnown, At
<1>2. QED
  BY InitType, TypeStep, InitObserved, ObservedStep, <1>1, PTL DEF Spec
-----------------------------------------------------------------------------
(* The registry.  A record never vanishes and never becomes pending again,  *)
(* a retry about to mark its deferral has audited a verdict on it, and      *)
(* while no write has stopped part-way every append to the registry counts. *)

Gone == {"none", "pending"}
Evolves ==
  \A i \in Ids :
    /\ registry[i].status # "none" => registry'[i].status # "none"
    /\ registry[i].status \notin Gone => registry'[i].status \notin Gone

Retried(r, c) == c.cmd = "retry" => r[c.id].status # "none"
Audited(a, c) ==
  c.pc = "mark" => [cmd |-> "retry", id |-> c.id, verdict |-> c.verdict] \in a
Named(r, c) == c.id \in Ids => r[c.id].status # "none"
Closing(r, c) ==
  c.cmd = "retry" /\ c.pc = "return" /\ c.verdict # "DEFER" =>
    r[c.id].status \notin Gone

ContractInv ==
  \A p \in Procs : Retried(registry, cli[p]) /\ Audited(audit, cli[p])
LogsInv ==
  used["tears"] = 0 =>
    /\ regTail = "whole"
    /\ \A p \in Procs : Named(registry, cli[p]) /\ Closing(registry, cli[p])
    /\ \A i \in closed : registry[i].status \notin Gone
    /\ \A e \in audit : registry[e.id].status # "none"
RegistryInv == ContractInv /\ LogsInv

LEMMA AppendEvolves ==
  ASSUME TypeInv, NEW i \in Ids, NEW r \in Record, AppendToRegistry(i, r),
         \/ r.status \notin Gone
         \/ r.status = "pending" /\ i \notin issued
  PROVE  Evolves
<1>1. i \notin issued => registry[i].status = "none"
  BY DEF TypeInv, RecordsOK
<1>2. QED
  BY <1>1 DEF AppendToRegistry, Evolves, Gone, TypeInv, TypeOK

\* A process goes on, the registry evolves, and the audit log may grow.
LEMMA ContinueRegistry ==
  ASSUME TypeInv, RegistryInv, NEW p \in Procs, NEW c \in Cli, CommandOK(c),
         Continue(p, c), Evolves, audit \subseteq audit',
         Retried(registry', c), Audited(audit', c),
         used'["tears"] = 0 =>
           /\ used["tears"] = 0
           /\ regTail' = "whole"
           /\ Named(registry', c) /\ Closing(registry', c)
           /\ \A e \in audit' \ audit : registry'[e.id].status # "none"
           /\ \A i \in closed' \ closed : registry'[i].status \notin Gone
  PROVE  RegistryInv'
<1>1. \A q \in Procs : cli'[q] = IF q = p THEN c ELSE cli[q]
  BY DEF TypeInv, TypeOK, Continue
<1>2. \A q \in Procs : cli[q].cmd = "retry" => cli[q].id \in Ids
  BY DEF TypeInv, CommandsOK, CommandOK
<1>3. ContractInv'
  BY <1>1, <1>2 DEF RegistryInv, ContractInv, Evolves, Retried, Audited
<1>4. ASSUME used'["tears"] = 0
      PROVE  /\ \A q \in Procs : Named(registry', cli'[q]) /\ Closing(registry', cli'[q])
             /\ \A i \in closed' : registry'[i].status \notin Gone
             /\ \A e \in audit' : registry'[e.id].status # "none"
  <2>1. LogsInv /\ used["tears"] = 0
    BY <1>4 DEF RegistryInv
  <2>2. \A q \in Procs : Named(registry', cli[q]) /\ Closing(registry', cli[q])
    BY <1>2, <2>1 DEF LogsInv, Evolves, Named, Closing
  <2>3. \A q \in Procs : Named(registry', cli'[q]) /\ Closing(registry', cli'[q])
    BY <1>1, <1>4, <2>2
  <2>4. \A i \in closed' : registry'[i].status \notin Gone
    BY <1>4, <2>1 DEF LogsInv, Evolves, TypeInv, TypeOK
  <2>5. \A e \in audit : e.id \in Ids
    BY DEF TypeInv, TypeOK, AuditEntry
  <2>6. \A e \in audit' : registry'[e.id].status # "none"
    BY <1>4, <2>1, <2>5 DEF LogsInv, Evolves
  <2>7. QED
    BY <2>3, <2>4, <2>6
<1>5. LogsInv'
  BY <1>4 DEF LogsInv
<1>6. QED
  BY <1>3, <1>5 DEF RegistryInv

\* A step that leaves all but the commands alone.
LEMMA CommandRegistry ==
  ASSUME TypeInv, RegistryInv, NEW p \in Procs, NEW c \in Cli, CommandOK(c),
         Continue(p, c), UNCHANGED <<shared, history, used>>,
         c.pc # "mark", c.pc = "return" => c.cmd # "retry",
         c.id # None => c.id = cli[p].id \/ registry[c.id].status # "none",
         c.cmd = "retry" => cli[p].cmd = "retry" \/ registry[c.id].status # "none"
  PROVE  RegistryInv'
<1>1. Evolves /\ registry' = registry
  BY DEF Evolves, shared
<1>2. Retried(registry', c)
  <2>1. Retried(registry, cli[p])
    BY DEF RegistryInv, ContractInv
  <2>2. c.cmd = "retry" => c.id \in Ids /\ c.id # None
    BY NoneIsNew DEF CommandOK
  <2>3. QED
    BY <1>1, <2>1, <2>2 DEF Retried
<1>3. Audited(audit', c) /\ Closing(registry', c)
  BY DEF Audited, Closing
<1>4. used["tears"] = 0 => Named(registry', c)
  <2>1. used["tears"] = 0 => Named(registry, cli[p])
    BY DEF RegistryInv, LogsInv
  <2>2. c.id \in Ids => c.id # None
    BY NoneIsNew
  <2>3. QED
    BY <1>1, <2>1, <2>2 DEF Named
<1>5. /\ audit' = audit /\ closed' = closed /\ used' = used /\ regTail' = regTail
  BY DEF shared, history
<1>6. used["tears"] = 0 => regTail = "whole"
  BY DEF RegistryInv, LogsInv
<1>7. QED
  BY <1>1, <1>2, <1>3, <1>4, <1>5, <1>6, ContinueRegistry
\* The fields of a command that the registry depends on, after signals and
\* after a verdict.
LEMMA SignalFields ==
  ASSUME NEW c \in Cli
  PROVE  LET d == WithSignals(c) IN
         d.id = c.id /\ d.cmd = c.cmd /\ d.pc \in {"target", "validation"}
  BY DEF WithSignals, Cli

LEMMA VerdictFields ==
  ASSUME NEW c \in Cli, NEW v, NEW rs
  PROVE  LET d == WithVerdict(c, v, rs) IN
         d.id = c.id /\ d.cmd = c.cmd /\ d.pc \in {"record", "audit"}
  BY DEF WithVerdict, Cli

LEMMA IdleFields == Idle.id = None /\ Idle.cmd = "none" /\ Idle.pc = "idle"
  BY DEF Idle

LEMMA InitRegistry == Init => RegistryInv
<1> SUFFICES ASSUME Init PROVE RegistryInv
  OBVIOUS
<1>1. \A p \in Procs : cli[p] = Idle
  BY DEF Init
<1>2. ContractInv
  BY <1>1, IdleFields DEF ContractInv, Retried, Audited
<1>3. LogsInv
  BY <1>1, IdleFields, NoneIsNew DEF Init, LogsInv, Named, Closing
<1>4. QED
  BY <1>2, <1>3 DEF RegistryInv

LEMMA StartRegistry ==
  ASSUME TypeInv, RegistryInv, NEW p \in Procs
  PROVE  /\ \A a \in Actions : StartDecide(p, a) => RegistryInv'
         /\ \A i \in Ids : StartRetry(p, i) => RegistryInv'
         /\ \A f \in Files, m \in ReadModes : StartRead(p, f, m) => RegistryInv'
<1>1. ASSUME NEW a \in Actions, StartDecide(p, a) PROVE RegistryInv'
  <2> DEFINE b == [Idle EXCEPT !.cmd = "decide", !.act = a]
  <2>1. b \in Cli /\ b.cmd = "decide" /\ b.act = a /\ b.id = None
    BY IdleOK DEF Cli, Idle
  <2>2. WithSignals(b) \in Cli /\ CommandOK(WithSignals(b))
    BY <2>1, SignalsOK
  <2> HIDE DEF b
  <2>3. WithSignals(b).id = None /\ WithSignals(b).cmd = "decide"
        /\ WithSignals(b).pc \in {"target", "validation"}
    BY <2>1, SignalFields
  <2>4. QED
    BY <1>1, <2>2, <2>3, CommandRegistry DEF StartDecide, b
<1>2. ASSUME NEW i \in Ids, StartRetry(p, i) PROVE RegistryInv'
  <2> DEFINE b == [Idle EXCEPT !.pc = "evidence", !.cmd = "retry", !.id = i,
                       !.act = registry[i].act, !.reqs = registry[i].reqs,
                       !.todo = registry[i].reqs \cap Files]
  <2>1. registry[i] \in Record /\ registry[i].act \in Actions
        /\ registry[i].status = "pending"
    BY <1>2 DEF StartRetry, TypeInv, TypeOK, RecordsOK
  <2>2. b \in Cli
    BY <2>1, IdleOK DEF Cli, Record, Pcs
  <2>3. b.pc = "evidence" /\ b.cmd = "retry" /\ b.id = i /\ b.act = registry[i].act
    BY DEF Idle
  <2>4. CommandOK(b)
    BY <2>1, <2>3 DEF CommandOK
  <2>5. QED
    <3> HIDE DEF b
    <3>1. Continue(p, b) /\ UNCHANGED <<shared, history, used>>
      BY <1>2 DEF StartRetry, b
    <3>2. QED
      BY <2>1, <2>2, <2>3, <2>4, <3>1, CommandRegistry
<1>3. ASSUME NEW f \in Files, NEW m \in ReadModes, StartRead(p, f, m) PROVE RegistryInv'
  <2> DEFINE b == [Idle EXCEPT !.pc = "hash", !.cmd = "read", !.file = f,
                              !.mode = m]
  <2>1. b \in Cli /\ CommandOK(b)
    BY IdleOK, ReadModesType, ZenonT(40) DEF Cli, Idle, CommandOK, Pcs
  <2>2. b.pc = "hash" /\ b.cmd = "read" /\ b.id = None
    BY DEF Idle
  <2>3. QED
    <3> HIDE DEF b
    <3>1. Continue(p, b) /\ UNCHANGED <<shared, history, used>>
      BY <1>3 DEF StartRead, b
    <3>2. QED
      BY <2>1, <2>2, <3>1, CommandRegistry
<1>4. QED
  BY <1>1, <1>2, <1>3

\* A step within a command that changes nothing shared keeps the registry's
\* invariant as long as the command keeps its id and does not close.
LEMMA QuietStep ==
  ASSUME TypeInv, RegistryInv, NEW p \in Procs, NEW d, d.id = cli[p].id,
         d.cmd = cli[p].cmd, d.pc # "mark", d.pc = "return" => d.cmd # "retry",
         Continue(p, d), CommandsOK', cli' \in [Procs -> Cli],
         UNCHANGED <<shared, history, used>>
  PROVE  RegistryInv'
<1>1. cli'[p] = d
  BY DEF Continue, TypeInv, TypeOK
<1>2. d \in Cli /\ CommandOK(d)
  BY <1>1 DEF CommandsOK, CommandOK
<1>3. QED
  BY <1>2, CommandRegistry

LEMMA CheckRegistry ==
  ASSUME TypeInv, TypeInv', RegistryInv, NEW p \in Procs
  PROVE  /\ \A f \in Files : LoadObservation(p, f) => RegistryInv'
         /\ \A f \in Files : CompareFile(p, f) => RegistryInv'
         /\ FindTests(p) => RegistryInv'
         /\ JudgeEvidence(p) => RegistryInv'
         /\ JudgeEdit(p) => RegistryInv'
         /\ JudgeLanding(p) => RegistryInv'
<1> DEFINE c == cli[p]
<1>0. c \in Cli /\ CommandOK(c) /\ CommandsOK' /\ cli' \in [Procs -> Cli]
  BY DEF TypeInv, TypeOK, CommandsOK
<1>1. ASSUME NEW f \in Files, LoadObservation(p, f) PROVE RegistryInv'
  <2> DEFINE d == [c EXCEPT !.loaded[f] = obs[f]]
  <2>1. d.id = c.id /\ d.cmd = c.cmd /\ d.pc = c.pc
        /\ c.pc \in {"evidence", "target", "tests"}
    BY <1>0, <1>1 DEF Cli, LoadObservation, At
  <2>2. Continue(p, d) /\ UNCHANGED <<shared, history, used>>
    BY <1>1 DEF LoadObservation
  <2> HIDE DEF d
  <2>3. QED
    BY <1>0, <2>1, <2>2, QuietStep
<1>2. ASSUME NEW f \in Files, CompareFile(p, f) PROVE RegistryInv'
  <2> DEFINE st == Freshness(c.loaded[f], disk[f])
             d == [c EXCEPT !.loaded[f] = "unloaded", !.todo = @ \ {f},
                            !.status[f] = st,
                            !.basis[f] = IF st = "fresh" THEN disk[f] ELSE @]
  <2>1. d.id = c.id /\ d.cmd = c.cmd /\ d.pc = c.pc
        /\ c.pc \in {"evidence", "target", "tests"}
    BY <1>0, <1>2 DEF Cli, CompareFile, At
  <2>2. Continue(p, d) /\ UNCHANGED <<shared, history, used>>
    BY <1>2 DEF CompareFile
  <2> HIDE DEF d
  <2>3. QED
    BY <1>0, <2>1, <2>2, QuietStep
<1>3. ASSUME FindTests(p) PROVE RegistryInv'
  <2> DEFINE there == {t \in Tests[c.act] : disk[t] # "absent"}
             d == [c EXCEPT !.pc = "tests", !.found = there, !.todo = there]
  <2>1. d.id = c.id /\ d.cmd = c.cmd /\ d.pc = "tests"
    BY <1>0 DEF Cli
  <2>2. Continue(p, d) /\ UNCHANGED <<shared, history, used>>
    BY <1>3 DEF FindTests
  <2> HIDE DEF d
  <2>3. QED
    BY <1>0, <2>1, <2>2, QuietStep
<1>4. ASSUME JudgeEvidence(p) PROVE RegistryInv'
  <2>1. PICK d \in {WithSignals(c), WithVerdict(c, "DEFER", {})} :
          Continue(p, d) /\ UNCHANGED <<shared, history, used>>
    BY <1>4 DEF JudgeEvidence
  <2>2. d.id = c.id /\ d.cmd = c.cmd
        /\ d.pc \in {"target", "validation", "record", "audit"}
    BY <1>0, SignalFields, VerdictFields
  <2>3. QED
    BY <1>0, <2>1, <2>2, QuietStep
<1>5. ASSUME JudgeEdit(p) PROVE RegistryInv'
  <2> DEFINE st == c.status[Target[c.act]]
             d == WithVerdict(c, EditVerdict(c.act, st, c.found, SomeTestRead(c)),
                              EditRequirements(c.act, st, c.found, SomeTestRead(c)))
  <2>1. d.id = c.id /\ d.cmd = c.cmd /\ d.pc \in {"record", "audit"}
    BY <1>0, VerdictFields
  <2>2. Continue(p, d) /\ UNCHANGED <<shared, history, used>>
    BY <1>5 DEF JudgeEdit
  <2> HIDE DEF d
  <2>3. QED
    BY <1>0, <2>1, <2>2, QuietStep
<1>6. ASSUME JudgeLanding(p) PROVE RegistryInv'
  <2> DEFINE d == WithVerdict(c, LandingVerdict(c.act, validation),
                              LandingRequirements(validation))
  <2>1. d.id = c.id /\ d.cmd = c.cmd /\ d.pc \in {"record", "audit"}
    BY <1>0, VerdictFields
  <2>2. Continue(p, d) /\ UNCHANGED <<shared, history, used>>
    BY <1>6 DEF JudgeLanding
  <2> HIDE DEF d
  <2>3. QED
    BY <1>0, <2>1, <2>2, QuietStep
<1>7. QED
  BY <1>1, <1>2, <1>3, <1>4, <1>5, <1>6
\* A step of none of the commands.
LEMMA SharedRegistry ==
  ASSUME TypeInv, RegistryInv, Evolves, UNCHANGED <<cli, audit, closed>>,
         used'["tears"] = 0 => used["tears"] = 0,
         regTail' = "whole" \/ regTail' = regTail
  PROVE  RegistryInv'
<1>1. \A q \in Procs : cli[q].cmd = "retry" => cli[q].id \in Ids
  BY DEF TypeInv, CommandsOK, CommandOK
<1>2. ContractInv'
  BY <1>1 DEF RegistryInv, ContractInv, Evolves, Retried, Audited
<1>3. \A e \in audit : e.id \in Ids
  BY DEF TypeInv, TypeOK, AuditEntry
<1>4. LogsInv'
  <2> SUFFICES ASSUME used'["tears"] = 0
               PROVE  /\ regTail' = "whole"
                      /\ \A q \in Procs : /\ Named(registry', cli[q])
                                          /\ Closing(registry', cli[q])
                      /\ \A i \in closed : registry'[i].status \notin Gone
                      /\ \A e \in audit : registry'[e.id].status # "none"
    BY DEF LogsInv
  <2>1. LogsInv /\ used["tears"] = 0
    BY DEF RegistryInv
  <2>2. \A q \in Procs : Named(registry', cli[q]) /\ Closing(registry', cli[q])
    BY <1>1, <2>1 DEF LogsInv, Evolves, Named, Closing
  <2>3. \A i \in closed : registry'[i].status \notin Gone
    BY <2>1 DEF LogsInv, Evolves, TypeInv, TypeOK
  <2>4. \A e \in audit : registry'[e.id].status # "none"
    BY <1>3, <2>1 DEF LogsInv, Evolves
  <2>5. QED
    BY <2>1, <2>2, <2>3, <2>4 DEF LogsInv
<1>5. QED
  BY <1>2, <1>4 DEF RegistryInv

LEMMA RecordingRegistry ==
  ASSUME TypeInv, TypeInv', RegistryInv, NEW p \in Procs
  PROVE  /\ RecordDeferral(p) => RegistryInv'
         /\ WriteAudit(p) => RegistryInv'
         /\ MarkSatisfied(p) => RegistryInv'
         /\ Return(p) => RegistryInv'
<1> DEFINE c == cli[p]
<1>0. c \in Cli /\ CommandOK(c) /\ CommandsOK' /\ cli' \in [Procs -> Cli]
  BY DEF TypeInv, TypeOK, CommandsOK
<1>a. Retried(registry, c) /\ Audited(audit, c)
  BY DEF RegistryInv, ContractInv
<1>b. used["tears"] = 0 =>
        regTail = "whole" /\ Named(registry, c) /\ Closing(registry, c)
  BY DEF RegistryInv, LogsInv
<1>1. ASSUME RecordDeferral(p) PROVE RegistryInv'
  <2>1. PICK i \in Ids \ issued :
          /\ issued' = issued \cup {i}
          /\ AppendToRegistry(i, [status |-> "pending", act |-> c.act,
                                  reqs |-> c.reqs])
          /\ Continue(p, [c EXCEPT !.pc = "audit", !.id = i])
    BY <1>1 DEF RecordDeferral
  <2> DEFINE d == [c EXCEPT !.pc = "audit", !.id = i]
             r == [status |-> "pending", act |-> c.act, reqs |-> c.reqs]
  <2>2. c.cmd = "decide" /\ c.act \in Actions /\ c.verdict = "DEFER"
    BY <1>0, <1>1 DEF RecordDeferral, At, CommandOK
  <2>3. d \in Cli /\ d.pc = "audit" /\ d.cmd = "decide" /\ d.id = i
        /\ d.act = c.act /\ d.verdict = "DEFER"
    BY <1>0, <2>2 DEF Cli, Pcs
  <2>4. CommandOK(d)
    BY <2>2, <2>3 DEF CommandOK
  <2>5. r \in Record /\ r.status = "pending"
    BY <1>0, <2>2 DEF Cli, Record
  <2>6. AppendToRegistry(i, r) /\ Continue(p, d)
    BY <2>1
  <2>7. UNCHANGED <<audit, closed, used>>
    BY <1>1 DEF RecordDeferral
  <2> HIDE DEF d, r
  <2>8. Evolves
    BY <2>1, <2>5, <2>6, AppendEvolves
  <2>9. regTail' = "whole"
    BY <2>6 DEF AppendToRegistry
  <2>10. used["tears"] = 0 => Named(registry', d)
    BY <1>b, <2>3, <2>5, <2>6 DEF AppendToRegistry, Named, TypeInv, TypeOK
  <2>11. Retried(registry', d) /\ Audited(audit', d) /\ Closing(registry', d)
    BY <2>3 DEF Retried, Audited, Closing
  <2>12. QED
    BY <2>3, <2>4, <2>6, <2>7, <2>8, <2>9, <2>10, <2>11, ContinueRegistry
<1>2. ASSUME WriteAudit(p) PROVE RegistryInv'
  <2> DEFINE next == IF c.cmd = "retry" /\ c.verdict # "DEFER" THEN "mark" ELSE "return"
             d == [c EXCEPT !.pc = next]
             e == [cmd |-> c.cmd, id |-> c.id, verdict |-> c.verdict]
  <2>1. Continue(p, d) /\ UNCHANGED <<registry, regTail, closed, used>>
    BY <1>2 DEF WriteAudit, history
  <2>2. d \in Cli /\ d.pc = next /\ d.cmd = c.cmd /\ d.id = c.id
        /\ d.verdict = c.verdict
    BY <1>0, ZenonT(40) DEF Cli, Pcs
  <2>3. cli'[p] = d
    BY <2>1 DEF Continue, TypeInv, TypeOK
  <2>4. CommandOK(d)
    BY <1>0, <2>3 DEF CommandsOK, CommandOK
  <2>5. audit' = IF c.id = None THEN audit ELSE audit \cup {e}
    BY <1>2 DEF WriteAudit
  <2>6. c.cmd = "retry" => c.id \in Ids /\ c.id # None
    BY <1>0, NoneIsNew DEF CommandOK
  <2>7. c.id # None => c.id \in Ids
    BY <1>0 DEF Cli
  <2>8. Evolves
    BY <2>1 DEF Evolves
  <2>9. Retried(registry', d) /\ Closing(registry', d)
    BY <1>a, <2>1, <2>2 DEF Retried, Closing
  <2>10. Audited(audit', d)
    BY <2>2, <2>5, <2>6 DEF Audited
  <2>11. used["tears"] = 0 => /\ regTail' = "whole" /\ Named(registry', d)
                              /\ \A x \in audit' \ audit : registry'[x.id].status # "none"
    BY <1>b, <2>1, <2>2, <2>5, <2>7 DEF Named
  <2> HIDE DEF d
  <2>12. QED
    BY <2>1, <2>2, <2>4, <2>5, <2>8, <2>9, <2>10, <2>11, ContinueRegistry
<1>3. ASSUME MarkSatisfied(p) PROVE RegistryInv'
  <2> DEFINE d == [c EXCEPT !.pc = "return"]
             r == [registry[c.id] EXCEPT !.status = "satisfied"]
  <2>1. c.pc = "mark" /\ c.cmd = "retry" /\ c.id \in Ids
    BY <1>0, <1>3 DEF MarkSatisfied, At, CommandOK
  <2>2. registry[c.id].status # "none" /\ registry[c.id] \in Record
    BY <1>a, <2>1 DEF Retried, TypeInv, TypeOK
  <2>3. r \in Record /\ r.status = "satisfied"
    BY <2>2 DEF Record
  <2>4. AppendToRegistry(c.id, r) /\ Continue(p, d)
        /\ UNCHANGED <<audit, closed, used>>
    BY <1>3, <2>2 DEF MarkSatisfied, history
  <2>5. d \in Cli /\ d.pc = "return" /\ d.cmd = "retry" /\ d.id = c.id
    BY <1>0, <2>1 DEF Cli, Pcs
  <2>6. cli'[p] = d
    BY <2>4 DEF Continue, TypeInv, TypeOK
  <2>7. CommandOK(d)
    BY <1>0, <2>6 DEF CommandsOK, CommandOK
  <2> HIDE DEF d, r
  <2>8. Evolves
    BY <2>1, <2>3, <2>4, AppendEvolves DEF Gone
  <2>9. Retried(registry', d)
    BY <2>1, <2>2, <2>5, <2>8 DEF Retried, Evolves
  <2>10. Audited(audit', d)
    BY <2>5 DEF Audited
  <2>11. used["tears"] = 0 => Named(registry', d) /\ Closing(registry', d)
    <3>1. used["tears"] = 0 => registry'[c.id] = r
      BY <1>b, <2>1, <2>4 DEF AppendToRegistry, TypeInv, TypeOK
    <3>2. QED
      BY <2>3, <2>5, <3>1 DEF Named, Closing, Gone
  <2>12. regTail' = "whole"
    BY <2>4 DEF AppendToRegistry
  <2>13. QED
    BY <2>4, <2>5, <2>7, <2>8, <2>9, <2>10, <2>11, <2>12, ContinueRegistry
<1>4. ASSUME Return(p) PROVE RegistryInv'
  <2>1. Continue(p, Idle) /\ UNCHANGED <<registry, regTail, audit, used>>
        /\ c.pc = "return"
    BY <1>4 DEF Return, shared, At
  <2>2. Evolves
    BY <2>1 DEF Evolves
  <2>3. Retried(registry', Idle) /\ Audited(audit', Idle) /\ Closing(registry', Idle)
        /\ Named(registry', Idle)
    BY IdleFields, NoneIsNew DEF Retried, Audited, Closing, Named
  <2>4. used["tears"] = 0 => \A i \in closed' \ closed : registry'[i].status \notin Gone
    BY <1>4, <1>b, <2>1 DEF Return, Closing
  <2>5. QED
    BY <1>b, <2>1, <2>2, <2>3, <2>4, IdleOK, ContinueRegistry
<1>5. QED
  BY <1>1, <1>2, <1>3, <1>4
LEMMA ReadingRegistry ==
  ASSUME TypeInv, TypeInv', RegistryInv, NEW p \in Procs
  PROVE  /\ HashFile(p) => RegistryInv'
         /\ Observe(p) => RegistryInv'
         /\ ReadContent(p) => RegistryInv'
<1> DEFINE c == cli[p]
<1>0. c \in Cli /\ CommandOK(c) /\ CommandsOK' /\ cli' \in [Procs -> Cli]
  BY DEF TypeInv, TypeOK, CommandsOK
<1>1. ASSUME HashFile(p) PROVE RegistryInv'
  <2> DEFINE d == [c EXCEPT !.pc = "observe",
                            !.hash = ObservationOf(c.mode, disk[c.file])]
  <2>1. d.id = c.id /\ d.cmd = c.cmd /\ d.pc = "observe"
    BY <1>0 DEF Cli
  <2>2. Continue(p, d) /\ UNCHANGED <<shared, history, used>>
    BY <1>1 DEF HashFile
  <2> HIDE DEF d
  <2>3. QED
    BY <1>0, <2>1, <2>2, QuietStep
<1>2. ASSUME Observe(p) PROVE RegistryInv'
  <2> DEFINE next == IF c.mode = "metadata" THEN "return" ELSE "content"
             d == [c EXCEPT !.pc = next]
  <2>1. c.cmd = "read"
    BY <1>0, <1>2 DEF Observe, At, CommandOK
  <2>2. d.id = c.id /\ d.cmd = "read" /\ d.pc \in {"return", "content"}
    BY <1>0, <2>1 DEF Cli
  <2>3. /\ Continue(p, d)
        /\ UNCHANGED <<registry, regTail, audit, closed, used>>
    BY <1>2 DEF Observe
  <2>4. cli'[p] = d
    BY <2>3 DEF Continue, TypeInv, TypeOK
  <2>5. d \in Cli /\ CommandOK(d)
    BY <1>0, <2>4 DEF CommandsOK
  <2> HIDE DEF d
  <2>6. Evolves
    BY <2>3 DEF Evolves
  <2>7. Retried(registry', d) /\ Audited(audit', d) /\ Closing(registry', d)
    BY <2>2 DEF Retried, Audited, Closing
  <2>8. used["tears"] = 0 => regTail = "whole" /\ Named(registry, c)
    BY DEF RegistryInv, LogsInv
  <2>9. used["tears"] = 0 => regTail' = "whole" /\ Named(registry', d)
    BY <2>2, <2>3, <2>8 DEF Named
  <2>10. QED
    BY <2>3, <2>5, <2>6, <2>7, <2>9, ContinueRegistry
<1>3. ASSUME ReadContent(p) PROVE RegistryInv'
  <2>1. PICK d \in {Idle, [c EXCEPT !.pc = "return"]} :
          Continue(p, d) /\ UNCHANGED <<shared, history, used>>
    BY <1>3 DEF ReadContent
  <2>2. c.cmd = "read"
    BY <1>0, <1>3 DEF ReadContent, At, CommandOK
  <2>3. CASE d = Idle
    BY <2>1, <2>3, IdleOK, IdleFields, CommandRegistry
  <2>4. CASE d = [c EXCEPT !.pc = "return"]
    <3>1. d.id = c.id /\ d.cmd = "read" /\ d.pc = "return"
      BY <1>0, <2>2, <2>4 DEF Cli
    <3>2. QED
      BY <1>0, <2>1, <2>2, <3>1, QuietStep
  <2>5. QED
    BY <2>1, <2>3, <2>4
<1>4. QED
  BY <1>1, <1>2, <1>3

\* A command that ends half-way, and an append that stops part-way.
LEMMA MishapRegistry ==
  ASSUME TypeInv, RegistryInv, NEW p \in Procs
  PROVE  /\ Abandon(p) => RegistryInv'
         /\ TearRegistry(p) => RegistryInv'
         /\ TearObservations(p) => RegistryInv'
<1>0. {"faults", "tears"} \subseteq DOMAIN Bounds /\ TypeOK
  BY DEF Bounds, TypeInv
<1>1. /\ Retried(registry', Idle) /\ Audited(audit', Idle)
      /\ Named(registry', Idle) /\ Closing(registry', Idle)
  BY IdleFields, NoneIsNew DEF Retried, Audited, Named, Closing
<1>2. used["tears"] = 0 => regTail = "whole"
  BY DEF RegistryInv, LogsInv
<1>3. ASSUME Abandon(p) PROVE RegistryInv'
  <2>1. /\ Continue(p, Idle) /\ Spend("faults")
        /\ UNCHANGED <<registry, regTail, audit, closed>>
    BY <1>3 DEF Abandon, shared, history
  <2>2. used'["tears"] = 0 => used["tears"] = 0
    BY <1>0, <2>1, SpendType
  <2>3. Evolves
    BY <2>1 DEF Evolves
  <2>4. QED
    BY <1>1, <1>2, <2>1, <2>2, <2>3, IdleOK, ContinueRegistry
<1>4. ASSUME TearRegistry(p) \/ TearObservations(p) PROVE RegistryInv'
  <2>1. /\ Continue(p, Idle) /\ Spend("tears")
        /\ UNCHANGED <<registry, audit, closed>>
    BY <1>4 DEF TearRegistry, TearObservations, history
  <2>2. used'["tears"] # 0
    BY <1>0, <2>1, SpendType
  <2>3. Evolves
    BY <2>1 DEF Evolves
  <2>4. QED
    BY <1>1, <2>1, <2>2, <2>3, IdleOK, ContinueRegistry
<1>5. QED
  BY <1>3, <1>4

LEMMA EnvironmentRegistry ==
  ASSUME TypeInv, RegistryInv
  PROVE  /\ \A p \in Procs : Validate(p) => RegistryInv'
         /\ \A i \in Ids : Supersede(i) => RegistryInv'
         /\ \A f \in Files, d \in Contents \cup {"absent"} :
              ChangeFile(f, d) => RegistryInv'
         /\ AgeValidation => RegistryInv'
         /\ UNCHANGED vars => RegistryInv'
<1>0. {"edits", "agings", "supersedes"} \subseteq DOMAIN Bounds /\ TypeOK
  BY DEF Bounds, TypeInv
<1>1. UNCHANGED registry => Evolves
  BY DEF Evolves
<1>2. ASSUME NEW p \in Procs, Validate(p) PROVE RegistryInv'
  BY <1>1, <1>2, SharedRegistry DEF Validate, history
<1>3. ASSUME NEW i \in Ids, Supersede(i) PROVE RegistryInv'
  <2> DEFINE r == [registry[i] EXCEPT !.status = "superseded"]
  <2>1. registry[i] \in Record
    BY DEF TypeInv, TypeOK
  <2>2. r \in Record /\ r.status = "superseded"
    BY <2>1 DEF Record
  <2>3. AppendToRegistry(i, r) /\ Spend("supersedes")
        /\ UNCHANGED <<cli, audit, closed>>
    BY <1>3 DEF Supersede, history
  <2> HIDE DEF r
  <2>4. Evolves
    BY <2>2, <2>3, AppendEvolves DEF Gone
  <2>5. used'["tears"] = 0 => used["tears"] = 0
    BY <1>0, <2>3, SpendType
  <2>6. regTail' = "whole"
    BY <2>3 DEF AppendToRegistry
  <2>7. QED
    BY <2>3, <2>4, <2>5, <2>6, SharedRegistry
<1>4. ASSUME NEW f \in Files, NEW d \in Contents \cup {"absent"}, ChangeFile(f, d)
      PROVE  RegistryInv'
  <2>1. used'["tears"] = 0 => used["tears"] = 0
    BY <1>0, <1>4, SpendType DEF ChangeFile
  <2>2. QED
    BY <1>1, <1>4, <2>1, SharedRegistry DEF ChangeFile, history
<1>5. ASSUME AgeValidation PROVE RegistryInv'
  <2>1. used'["tears"] = 0 => used["tears"] = 0
    BY <1>0, <1>5, SpendType DEF AgeValidation
  <2>2. QED
    BY <1>1, <1>5, <2>1, SharedRegistry DEF AgeValidation, history
<1>6. ASSUME UNCHANGED vars PROVE RegistryInv'
  BY <1>1, <1>6, SharedRegistry DEF vars
<1>7. QED
  BY <1>2, <1>3, <1>4, <1>5, <1>6

LEMMA RegistryStep == TypeInv /\ TypeInv' /\ RegistryInv /\ [Next]_vars => RegistryInv'
BY StartRegistry, CheckRegistry, RecordingRegistry, ReadingRegistry, MishapRegistry,
   EnvironmentRegistry
DEF Next, Step

LEMMA RegistryHolds == Spec => [](TypeInv /\ RegistryInv)
BY InitType, TypeStep, InitRegistry, RegistryStep, PTL DEF Spec

\* No deferral id reaches the audit log before it is in the registry, wherever
\* the commands that write the two logs stop.
THEOREM AuditNamesAreKnown == Spec => []AuditNamesKnownDeferrals
<1>1. RegistryInv => AuditNamesKnownDeferrals
  BY DEF RegistryInv, LogsInv, AuditNamesKnownDeferrals
<1>2. QED
  BY RegistryHolds, <1>1, PTL

\* After a retry has returned a verdict on a deferral no retry of it starts.
THEOREM ReturnedStaysReturned == Spec => NoRetryAfterReturn
<1>1. TypeInv /\ TypeInv' /\ RegistryInv /\ [Next]_vars =>
      [ \A p \in Procs :
          used["tears"] = 0 /\ cli[p].pc = "idle" /\ cli'[p].cmd = "retry"
            => cli'[p].id \notin closed ]_vars
  <2> SUFFICES ASSUME TypeInv, TypeInv', RegistryInv, Next, NEW p \in Procs,
                      used["tears"] = 0, cli[p].pc = "idle", cli'[p].cmd = "retry"
               PROVE  cli'[p].id \notin closed
    OBVIOUS
  <2>1. cli \in [Procs -> Cli] /\ \A q \in Procs : CommandOK(cli[q])
    BY DEF TypeInv, TypeOK, CommandsOK
  <2>2. cli[p].cmd = "none"
    BY <2>1 DEF CommandOK
  <2>3. cli' # cli
    BY <2>2
  <2>4. \A i \in Ids : registry[i].status = "pending" => i \notin closed
    BY DEF RegistryInv, LogsInv, Gone
  <2>5. \A c, q : q \in Procs /\ q # p /\ Continue(q, c) => cli'[p] = cli[p]
    BY <2>1 DEF Continue
  <2>6. \A c : Continue(p, c) => cli'[p] = c
    BY <2>1 DEF Continue
  <2>7. PICK q \in Procs :
          \/ \E a \in Actions : StartDecide(q, a)
          \/ \E i \in Ids : StartRetry(q, i)
          \/ \E f \in Files, m \in ReadModes : StartRead(q, f, m)
          \/ Step(q) \/ Abandon(q) \/ TearRegistry(q) \/ TearObservations(q)
    BY <2>3 DEF Next, Validate, Supersede, ChangeFile, AgeValidation
  <2>8. \E c : Continue(q, c)
    BY <2>7
    DEF StartDecide, StartRetry, StartRead, Step, LoadObservation, CompareFile,
        JudgeEvidence, FindTests, JudgeEdit, JudgeLanding, RecordDeferral,
        WriteAudit, MarkSatisfied, Return, HashFile, Observe, ReadContent,
        Abandon, TearRegistry, TearObservations
  <2>9. q = p
    BY <2>2, <2>5, <2>8
  <2>10. ~Step(p) /\ ~Abandon(p) /\ ~TearRegistry(p) /\ ~TearObservations(p)
    BY DEF Step, LoadObservation, CompareFile, JudgeEvidence, FindTests, JudgeEdit,
           JudgeLanding, RecordDeferral, WriteAudit, MarkSatisfied, Return, HashFile,
           Observe, ReadContent, Abandon, TearRegistry, TearObservations, At
  <2>11. ASSUME NEW a \in Actions, StartDecide(p, a) PROVE FALSE
    <3> DEFINE b == [Idle EXCEPT !.cmd = "decide", !.act = a]
    <3>1. b \in Cli /\ b.cmd = "decide"
      BY IdleOK DEF Cli, Idle
    <3> HIDE DEF b
    <3>2. WithSignals(b).cmd = "decide"
      BY <3>1, SignalFields
    <3>3. QED
      BY <2>6, <2>11, <3>2 DEF StartDecide, b
  <2>12. ASSUME NEW f \in Files, NEW m \in ReadModes, StartRead(p, f, m) PROVE FALSE
    <3> DEFINE b == [Idle EXCEPT !.pc = "hash", !.cmd = "read", !.file = f,
                                !.mode = m]
    <3>1. b.cmd = "read"
      BY DEF Idle
    <3>2. QED
      BY <2>6, <2>12, <3>1 DEF StartRead
  <2>13. ASSUME NEW i \in Ids, StartRetry(p, i) PROVE cli'[p].id \notin closed
    <3> DEFINE b == [Idle EXCEPT !.pc = "evidence", !.cmd = "retry", !.id = i,
                       !.act = registry[i].act, !.reqs = registry[i].reqs,
                       !.todo = registry[i].reqs \cap Files]
    <3>1. b.id = i
      BY DEF Idle
    <3>2. QED
      BY <2>4, <2>6, <2>13, <3>1 DEF StartRetry
  <2>14. QED
    BY <2>7, <2>9, <2>10, <2>11, <2>12, <2>13
<1>2. QED
  BY RegistryHolds, <1>1, PTL DEF Spec, NoRetryAfterReturn
-----------------------------------------------------------------------------
(* The registry and the audit log implement the contract of a deferral.     *)

StatusOf == [i \in Ids |-> registry[i].status]
PassedOn(i) == {e.verdict : e \in {x \in audit : x.cmd = "retry" /\ x.id = i}}
VerdictsOn == [i \in Ids |-> PassedOn(i)]

\* The contract's step, in the terms of its refinement mapping.
LEMMA ContractStep ==
  ASSUME \/ UNCHANGED <<StatusOf, VerdictsOn>>
         \/ \E i \in Ids :
              /\ StatusOf[i] = "none"
              /\ StatusOf' = [StatusOf EXCEPT ![i] = "pending"]
              /\ VerdictsOn' = VerdictsOn
         \/ \E i \in Ids, d \in Decisions :
              /\ StatusOf[i] # "none"
              /\ VerdictsOn' = [VerdictsOn EXCEPT ![i] = @ \cup {d}]
              /\ StatusOf' = StatusOf
         \/ \E i \in Ids :
              /\ StatusOf[i] # "none"
              /\ \E d \in VerdictsOn[i] : d # "DEFER"
              /\ StatusOf' = [StatusOf EXCEPT ![i] = "satisfied"]
              /\ VerdictsOn' = VerdictsOn
         \/ \E i \in Ids :
              /\ StatusOf[i] # "none"
              /\ StatusOf' = [StatusOf EXCEPT ![i] = "superseded"]
              /\ VerdictsOn' = VerdictsOn
  PROVE  [Contract!Next]_(Contract!contractVars)
BY DEF StatusOf, VerdictsOn, PassedOn, Contract!Next, Contract!Defer, Contract!Judge,
       Contract!Satisfy, Contract!Supersede, Contract!contractVars

\* Steps that write neither log.
LEMMA QuietContract ==
  ASSUME UNCHANGED <<registry, audit>>
  PROVE  [Contract!Next]_(Contract!contractVars)
BY ContractStep DEF StatusOf, VerdictsOn, PassedOn

\* What an append to the registry does to the status of a deferral.
LEMMA AppendStatus ==
  ASSUME TypeInv, NEW i \in Ids, NEW r \in Record, AppendToRegistry(i, r)
  PROVE  \/ registry' = registry
         \/ StatusOf' = [StatusOf EXCEPT ![i] = r.status]
BY DEF AppendToRegistry, StatusOf, TypeInv, TypeOK

LEMMA DeferContract ==
  ASSUME TypeInv, NEW p \in Procs, RecordDeferral(p)
  PROVE  [Contract!Next]_(Contract!contractVars)
<1> DEFINE c == cli[p]
           r == [status |-> "pending", act |-> c.act, reqs |-> c.reqs]
<1>1. c \in Cli
  BY DEF TypeInv, TypeOK
<1>2. PICK i \in Ids \ issued : AppendToRegistry(i, r)
  BY DEF RecordDeferral
<1>3. r \in Record /\ r.status = "pending"
  BY <1>1 DEF Cli, Record
<1>4. StatusOf[i] = "none"
  BY <1>2 DEF StatusOf, TypeInv, RecordsOK
<1>5. audit' = audit
  BY DEF RecordDeferral
<1>6. VerdictsOn' = VerdictsOn
  BY <1>5 DEF VerdictsOn, PassedOn
<1> HIDE DEF r
<1>7. registry' = registry \/ StatusOf' = [StatusOf EXCEPT ![i] = "pending"]
  BY <1>2, <1>3, AppendStatus
<1>8. QED
  BY <1>2, <1>4, <1>5, <1>6, <1>7, QuietContract, ContractStep

LEMMA JudgeContract ==
  ASSUME TypeInv, RegistryInv, NEW p \in Procs, WriteAudit(p)
  PROVE  [Contract!Next]_(Contract!contractVars)
<1> DEFINE c == cli[p]
           e == [cmd |-> c.cmd, id |-> c.id, verdict |-> c.verdict]
<1>1. c \in Cli /\ CommandOK(c) /\ Retried(registry, c) /\ c.pc = "audit"
  BY DEF TypeInv, TypeOK, CommandsOK, RegistryInv, ContractInv, WriteAudit, At
<1>2. registry' = registry
  BY DEF WriteAudit
<1>3. StatusOf' = StatusOf
  BY <1>2 DEF StatusOf
<1>4. CASE c.cmd # "retry"
  <2>1. audit' = audit \/ audit' = audit \cup {e}
    BY DEF WriteAudit
  <2>2. \A i \in Ids : PassedOn(i)' = PassedOn(i)
    BY <1>4, <2>1 DEF PassedOn
  <2>3. VerdictsOn' = VerdictsOn
    BY <2>2 DEF VerdictsOn
  <2>4. QED
    BY <1>3, <2>3, ContractStep
<1>5. CASE c.cmd = "retry"
  <2>1. c.id \in Ids /\ c.id # None /\ c.verdict \in Decisions
    BY <1>1, <1>5, NoneIsNew DEF CommandOK, Cli
  <2>2. audit' = audit \cup {e}
    BY <2>1 DEF WriteAudit
  <2>3. \A i \in Ids : PassedOn(i)' =
          IF i = c.id THEN PassedOn(i) \cup {c.verdict} ELSE PassedOn(i)
    <3>1. e.cmd = "retry" /\ e.id = c.id /\ e.verdict = c.verdict
      BY <1>5
    <3> HIDE DEF e, c
    <3>2. ASSUME NEW i \in Ids, i = c.id
          PROVE  PassedOn(i)' = PassedOn(i) \cup {c.verdict}
      <4>1. {x \in audit' : x.cmd = "retry" /\ x.id = i} =
              {x \in audit : x.cmd = "retry" /\ x.id = i} \cup {e}
        BY <2>2, <3>1, <3>2
      <4>2. QED
        BY <3>1, <4>1 DEF PassedOn
    <3>3. ASSUME NEW i \in Ids, i # c.id
          PROVE  PassedOn(i)' = PassedOn(i)
      <4>1. {x \in audit' : x.cmd = "retry" /\ x.id = i} =
              {x \in audit : x.cmd = "retry" /\ x.id = i}
        BY <2>2, <3>1, <3>3
      <4>2. QED
        BY <4>1 DEF PassedOn
    <3>4. QED
      BY <3>2, <3>3
  <2>4. VerdictsOn' = [VerdictsOn EXCEPT ![c.id] = @ \cup {c.verdict}]
    BY <2>1, <2>3 DEF VerdictsOn
  <2>5. StatusOf[c.id] # "none"
    BY <1>1, <1>5, <2>1 DEF Retried, StatusOf
  <2>6. QED
    BY <1>3, <2>1, <2>4, <2>5, ContractStep
<1>6. QED
  BY <1>4, <1>5

LEMMA SatisfyContract ==
  ASSUME TypeInv, RegistryInv, NEW p \in Procs, MarkSatisfied(p)
  PROVE  [Contract!Next]_(Contract!contractVars)
<1> DEFINE c == cli[p]
           r == [registry[c.id] EXCEPT !.status = "satisfied"]
<1>1. c \in Cli /\ CommandOK(c) /\ Audited(audit, c) /\ c.pc = "mark"
  BY DEF TypeInv, TypeOK, CommandsOK, RegistryInv, ContractInv, MarkSatisfied, At
<1>2. c.id \in Ids /\ c.verdict # "DEFER"
  BY <1>1 DEF CommandOK
<1>3. c.verdict \in PassedOn(c.id)
  BY <1>1 DEF Audited, PassedOn
<1>4. \E d \in VerdictsOn[c.id] : d # "DEFER"
  BY <1>2, <1>3 DEF VerdictsOn
<1>5. audit' = audit
  BY DEF MarkSatisfied
<1>6. VerdictsOn' = VerdictsOn
  BY <1>5 DEF VerdictsOn, PassedOn
<1>7. CASE registry[c.id].status = "none"
  BY <1>5, <1>7, QuietContract DEF MarkSatisfied
<1>8. CASE registry[c.id].status # "none"
  <2>1. r \in Record /\ r.status = "satisfied"
    BY <1>2 DEF Record, TypeInv, TypeOK
  <2>2. AppendToRegistry(c.id, r)
    BY <1>8 DEF MarkSatisfied
  <2> HIDE DEF r
  <2>3. registry' = registry \/ StatusOf' = [StatusOf EXCEPT ![c.id] = "satisfied"]
    BY <1>2, <2>1, <2>2, AppendStatus
  <2>4. StatusOf[c.id] # "none"
    BY <1>2, <1>8 DEF StatusOf
  <2>5. QED
    BY <1>2, <1>4, <1>5, <1>6, <2>3, <2>4, QuietContract, ContractStep
<1>9. QED
  BY <1>7, <1>8

LEMMA SupersedeContract ==
  ASSUME TypeInv, NEW i \in Ids, Supersede(i)
  PROVE  [Contract!Next]_(Contract!contractVars)
<1> DEFINE r == [registry[i] EXCEPT !.status = "superseded"]
<1>1. r \in Record /\ r.status = "superseded"
  BY DEF Record, TypeInv, TypeOK
<1>2. AppendToRegistry(i, r) /\ audit' = audit /\ StatusOf[i] # "none"
  BY DEF Supersede, StatusOf
<1> HIDE DEF r
<1>3. VerdictsOn' = VerdictsOn
  BY <1>2 DEF VerdictsOn, PassedOn
<1>4. registry' = registry \/ StatusOf' = [StatusOf EXCEPT ![i] = "superseded"]
  BY <1>1, <1>2, AppendStatus
<1>5. QED
  BY <1>2, <1>3, <1>4, QuietContract, ContractStep

LEMMA StepContract ==
  TypeInv /\ RegistryInv /\ [Next]_vars => [Contract!Next]_(Contract!contractVars)
<1> SUFFICES ASSUME TypeInv, RegistryInv, [Next]_vars
             PROVE  [Contract!Next]_(Contract!contractVars)
  OBVIOUS
<1>1. CASE UNCHANGED vars
  BY <1>1, QuietContract DEF vars
<1>2. ASSUME NEW p \in Procs, Step(p)
      PROVE  [Contract!Next]_(Contract!contractVars)
  <2>1. CASE RecordDeferral(p)
    BY <2>1, DeferContract
  <2>2. CASE WriteAudit(p)
    BY <2>2, JudgeContract
  <2>3. CASE MarkSatisfied(p)
    BY <2>3, SatisfyContract
  <2>4. CASE ~(RecordDeferral(p) \/ WriteAudit(p) \/ MarkSatisfied(p))
    BY <1>2, <2>4, QuietContract
    DEF Step, LoadObservation, CompareFile, JudgeEvidence, FindTests, JudgeEdit,
        JudgeLanding, Return, HashFile, Observe, ReadContent, shared
  <2>5. QED
    BY <2>1, <2>2, <2>3, <2>4
<1>3. ASSUME NEW p \in Procs,
             \/ \E a \in Actions : StartDecide(p, a)
             \/ \E i \in Ids : StartRetry(p, i)
             \/ \E f \in Files, m \in ReadModes : StartRead(p, f, m)
             \/ Validate(p) \/ Abandon(p) \/ TearRegistry(p) \/ TearObservations(p)
      PROVE  [Contract!Next]_(Contract!contractVars)
  BY <1>3, QuietContract
  DEF StartDecide, StartRetry, StartRead, Validate, Abandon, TearRegistry,
      TearObservations, shared
<1>4. ASSUME NEW i \in Ids, Supersede(i)
      PROVE  [Contract!Next]_(Contract!contractVars)
  BY <1>4, SupersedeContract
<1>5. ASSUME \/ \E f \in Files, d \in Contents \cup {"absent"} : ChangeFile(f, d)
             \/ AgeValidation
      PROVE  [Contract!Next]_(Contract!contractVars)
  BY <1>5, QuietContract DEF ChangeFile, AgeValidation
<1>6. QED
  BY <1>1, <1>2, <1>3, <1>4, <1>5 DEF Next

LEMMA InitContract == Init => Contract!Init
<1> SUFFICES ASSUME Init PROVE Contract!Init
  OBVIOUS
<1>1. \A i \in Ids : registry[i].status = "none"
  BY DEF Init, NoRecord
<1>2. audit = {}
  BY DEF Init
<1>3. QED
  BY <1>1, <1>2 DEF Contract!Init

\* The registry and the audit log, written by processes that share no lock and
\* may stop between any two writes, implement the contract of a deferral.
THEOREM ImplementsContract == Spec => ContractSpec
BY RegistryHolds, InitContract, StepContract, PTL
DEF Spec, ContractSpec, Contract!Spec
=============================================================================
