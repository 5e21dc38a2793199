---------------------------- MODULE ValidationGate ----------------------------
(***************************************************************************)
(* Validation: validate processes run commands under a timer and append    *)
(* their results to a log no lock guards and nothing repairs, while a      *)
(* landing decision reads the latest result of each required command,      *)
(* twice.  An append that stops part-way leaves a line without its end,    *)
(* and the next record is written to that line: the two are one line that  *)
(* cannot be parsed, and readers pass over it.                             *)
(***************************************************************************)
EXTENDS Naturals, FiniteSets, Verdicts

CONSTANTS
  Commands,  \* the validation commands the landing action requires
  Procs,     \* validate processes that can run at the same time
  Children,  \* how each command may take SIGTERM: "obedient" ones end, "stubborn" need not
  None,
  Earlier,   \* how the last run of each command ended, for each log to begin with
  MaxRuns,   \* bound: validation commands started
  MaxAgings, \* bound: times that results grow too old
  MaxTears   \* bound: appends that stop part-way

ASSUME ChildrenType == Children \in [Commands -> SUBSET {"obedient", "stubborn"}]
ASSUME EarlierType == Earlier \subseteq [Commands -> {"none", "passed", "failed"}]
ASSUME NoneIsNew == None \notin Commands
ASSUME BoundsAreNat == MaxRuns \in Nat /\ MaxAgings \in Nat /\ MaxTears \in Nat

VARIABLES
  run,      \* run[p]: the command that validate process p runs
  latest,   \* latest[c]: the last result of c that the log's readers find
  tail,     \* the last line of the log, open until its end is written
  clock,    \* completions so far, and until which of them results are too old
  gate,     \* the landing decision
  ended,    \* history: ended[c] is how the last run of c to end by itself ended
  doubt,    \* history: doubt[c] is what speaks against taking latest[c] for that
  used      \* how much of each bound is used up

vars == <<run, latest, tail, clock, gate, ended, doubt, used>>

Outcomes == {"passed", "failed"}
Statuses == {"not_run", "passed", "failed", "stale"}

\* A result and when it completed, as a number of completions.
Result == [status : Outcomes \cup {"none"}, at : Nat]
NoResult == [status |-> "none", at |-> 0]

Run == [pc : {"idle", "running", "closing", "record"}, cmd : Commands \cup {None},
        child : {"obedient", "stubborn"}, timedOut : BOOLEAN, alone : BOOLEAN,
        result : Result]
IdleRun == [pc |-> "idle", cmd |-> None, child |-> "obedient",
            timedOut |-> FALSE, alone |-> TRUE, result |-> NoResult]

\* The last line of the log: it has its end; or it is the whole record of a
\* command, whose latest result was another until then; or it is a fragment.
LastLine == [open : BOOLEAN, cmd : Commands \cup {None}, was : Result]
Closed == [open |-> FALSE, cmd |-> None, was |-> NoResult]
Fragment == [Closed EXCEPT !.open = TRUE]

\* The latest results once something has been appended to the open last line.
Behind == [c \in Commands |-> IF c = tail.cmd THEN tail.was ELSE latest[c]]

\* Nothing; the result was appended to an open line; or runs overlapped, or died
\* before they had recorded.
Doubts == {"none", "swallowed", "muddled"}

Gate == [pc : {"idle", "validation", "landing", "decided"},
         read : [Commands -> Statuses \cup {"unread"}],
         required : Statuses \cup {"unread"},
         verdict : {"none", "PROCEED", "DEFER", "ESCALATE", "BLOCK"},
         basis : [Commands -> Outcomes \cup {"none"}],
         doubt : [Commands -> Doubts], failed : BOOLEAN]
Unread == [c \in Commands |-> "unread"]
IdleGate == [pc |-> "idle", read |-> Unread, required |-> "unread",
             verdict |-> "none", basis |-> [c \in Commands |-> "none"],
             doubt |-> [c \in Commands |-> "muddled"], failed |-> FALSE]

Busy(c) == \E p \in Procs : run[p].cmd = c
Continue(p, r) == run' = [run EXCEPT ![p] = r]

-----------------------------------------------------------------------------
\* The log holds the results of earlier runs, all of one age.
Init ==
  /\ run = [p \in Procs |-> IdleRun]
  /\ ended \in Earlier
  /\ latest = [c \in Commands |-> IF ended[c] = "none" THEN NoResult
                                  ELSE [status |-> ended[c], at |-> 1]]
  /\ tail = Closed
  /\ clock = [now |-> 1, horizon |-> 0]
  /\ gate = IdleGate
  /\ doubt = [c \in Commands |-> "none"]
  /\ used = [runs |-> 0, agings |-> 0, tears |-> 0]

\* validate: the policy lets the command run; it is spawned, its timer starts.
Start(p, c, child) ==
  /\ run[p].pc = "idle"
  /\ run' = [q \in Procs |->
       IF q = p THEN [IdleRun EXCEPT !.pc = "running", !.cmd = c, !.child = child,
                                     !.alone = ~Busy(c)]
       ELSE IF run[q].cmd = c THEN [run[q] EXCEPT !.alone = FALSE] ELSE run[q]]
  /\ used.runs < MaxRuns /\ used' = [used EXCEPT !.runs = @ + 1]
  /\ UNCHANGED <<latest, tail, clock, gate, ended, doubt>>

\* Faulty variant of FireTimer: the command is not told to end.
FireTimerQuietly(p) ==
  /\ run[p].pc \in {"running", "closing"} /\ ~run[p].timedOut
  /\ Continue(p, [run[p] EXCEPT !.timedOut = TRUE, !.child = "stubborn"])
  /\ UNCHANGED <<latest, tail, clock, gate, ended, doubt, used>>

\* The timer: SIGTERM, once, to the command's shell.
FireTimer(p) ==
  /\ run[p].pc \in {"running", "closing"} /\ ~run[p].timedOut
  /\ Continue(p, [run[p] EXCEPT !.timedOut = TRUE])
  /\ UNCHANGED <<latest, tail, clock, gate, ended, doubt, used>>

\* The command and whatever holds its output have ended.
Exit(p) ==
  /\ run[p].pc = "running"
  /\ Continue(p, [run[p] EXCEPT !.pc = "closing"])
  /\ UNCHANGED <<latest, tail, clock, gate, ended, doubt, used>>

\* The command ends by itself; its result carries the time of that.
Complete(p, status) ==
  /\ clock' = [clock EXCEPT !.now = @ + 1]
  /\ ended' = [ended EXCEPT ![run[p].cmd] = status]
  /\ Continue(p, [run[p] EXCEPT !.pc = "record",
                               !.result = [status |-> status, at |-> clock.now + 1]])

\* Faulty variant of Close: only the exit code counts.
CloseByExitCode(p) ==
  /\ run[p].pc = "closing"
  /\ \E status \in Outcomes : Complete(p, status)
  /\ UNCHANGED <<latest, tail, gate, doubt, used>>

\* The close event settles the run: an error if the timer has fired, whatever
\* the exit code, otherwise the result that is recorded next.
Close(p) ==
  /\ run[p].pc = "closing"
  /\ \/ /\ run[p].timedOut
        /\ Continue(p, IdleRun)
        /\ UNCHANGED <<clock, ended>>
     \/ ~run[p].timedOut /\ \E status \in Outcomes : Complete(p, status)
  /\ UNCHANGED <<latest, tail, gate, doubt, used>>

\* appendFile: a text goes to the end of the log, with or without its own end.
\* Readers split the log into lines and find the records that are alone on one.
AppendText(p, text, end) ==
  LET c        == run[p].cmd
      readable == text = "record" /\ ~tail.open
  IN /\ latest' = IF readable THEN [latest EXCEPT ![c] = run[p].result] ELSE Behind
     /\ tail' = IF end THEN Closed
                ELSE IF readable THEN [open |-> TRUE, cmd |-> c, was |-> latest[c]]
                ELSE Fragment
     /\ doubt' = [doubt EXCEPT ![c] = IF ~end \/ ~run[p].alone THEN "muddled"
                                      ELSE IF readable THEN "none" ELSE "swallowed"]

\* Faulty variant of Record: the run is not cleared.
RecordWithoutReset(p) ==
  /\ run[p].pc = "record"
  /\ AppendText(p, "record", TRUE)
  /\ Continue(p, [run[p] EXCEPT !.pc = "idle"])
  /\ UNCHANGED <<clock, gate, ended, used>>

\* recordValidationResult: the repository is looked up and the result appended;
\* validate reports it as recorded.
Record(p) ==
  /\ run[p].pc = "record"
  /\ AppendText(p, "record", TRUE)
  /\ Continue(p, IdleRun)
  /\ UNCHANGED <<clock, gate, ended, used>>

\* The append stops part-way: the process dies, or validate reports that it
\* could not write.  At most the end of the line is missing.
Tear(p) ==
  /\ run[p].pc = "record"
  /\ \E text \in {"record", "fragment"} : AppendText(p, text, FALSE)
  /\ Continue(p, IdleRun)
  /\ used.tears < MaxTears /\ used' = [used EXCEPT !.tears = @ + 1]
  /\ UNCHANGED <<clock, gate, ended>>

\* The command cannot be spawned, or the process dies or fails with nothing of
\* its result written.
Abandon(p) ==
  /\ run[p].pc # "idle"
  /\ doubt' = IF run[p].pc = "record" THEN [doubt EXCEPT ![run[p].cmd] = "muddled"]
              ELSE doubt
  /\ Continue(p, IdleRun)
  /\ UNCHANGED <<latest, tail, clock, gate, ended, used>>

\* Results grow older than the maximal age.
Age ==
  /\ \E until \in (clock.horizon + 1)..clock.now : clock' = [clock EXCEPT !.horizon = until]
  /\ used.agings < MaxAgings /\ used' = [used EXCEPT !.agings = @ + 1]
  /\ UNCHANGED <<run, latest, tail, gate, ended, doubt>>

IsOld(result) == result.at <= clock.horizon

\* Faulty variant of StatusOf: the age is looked at first.
StatusByAge(result) ==
  IF result.status = "none" THEN "not_run"
  ELSE IF IsOld(result) THEN "stale" ELSE result.status

\* checkValidationFreshness: a failure does not age.
StatusOf(result) ==
  IF result.status = "none" THEN "not_run"
  ELSE IF result.status = "passed" /\ IsOld(result) THEN "stale" ELSE result.status

\* A landing action is decided: its validation gate reads the log for each
\* required command, in any order.
StartGate ==
  /\ gate.pc = "idle"
  /\ gate' = [IdleGate EXCEPT !.pc = "validation"]
  /\ UNCHANGED <<run, latest, tail, clock, ended, doubt, used>>
ReadForValidation(c) ==
  /\ gate.pc = "validation" /\ gate.read[c] = "unread"
  /\ gate' = [gate EXCEPT !.read[c] = StatusOf(latest[c]),
                          !.basis[c] = ended[c],
                          !.doubt[c] = IF Busy(c) THEN "muddled" ELSE doubt[c]]
  /\ UNCHANGED <<run, latest, tail, clock, ended, doubt, used>>

\* The validation status is the strongest; the landing gate reads anew.
EndValidation ==
  /\ gate.pc = "validation" /\ \A c \in Commands : gate.read[c] # "unread"
  /\ gate' = [gate EXCEPT !.pc = "landing", !.read = Unread,
                          !.required = StrongestStatus(gate.read, Commands)]
  /\ UNCHANGED <<run, latest, tail, clock, ended, doubt, used>>
ReadForLanding(c) ==
  /\ gate.pc = "landing" /\ gate.read[c] = "unread"
  /\ gate' = [gate EXCEPT !.read[c] = StatusOf(latest[c]),
                          !.failed = @ \/ latest[c].status = "failed"]
  /\ UNCHANGED <<run, latest, tail, clock, ended, doubt, used>>

\* The engine decides.  The landing risk, high after a failure, comes from the
\* second reading, and the rules about validation from the first.
EndLanding ==
  LET risk == IF StrongestStatus(gate.read, Commands) = "failed" THEN "ESCALATE"
              ELSE "PROCEED" IN
  /\ gate.pc = "landing" /\ \A c \in Commands : gate.read[c] # "unread"
  /\ gate' = [gate EXCEPT !.pc = "decided",
                          !.verdict = VerdictOnLanding(risk, gate.required)]
  /\ UNCHANGED <<run, latest, tail, clock, ended, doubt, used>>
Land ==
  /\ gate.pc = "decided"
  /\ gate' = IdleGate
  /\ UNCHANGED <<run, latest, tail, clock, ended, doubt, used>>

RunStep(p) == FireTimer(p) \/ Close(p) \/ Record(p)
GateStep ==
  \/ \E c \in Commands : ReadForValidation(c) \/ ReadForLanding(c)
  \/ EndValidation \/ EndLanding

Next ==
  \/ \E p \in Procs :
       \/ \E c \in Commands : \E child \in Children[c] : Start(p, c, child)
       \/ RunStep(p) \/ Exit(p) \/ Tear(p) \/ Abandon(p)
  \/ Age \/ StartGate \/ GateStep \/ Land

Spec == Init /\ [][Next]_vars

\* Timers, events and the steps of a process happen.  A command that obeys ends
\* once it has had the signal; nothing else makes a command end.
FairSpec ==
  /\ Spec
  /\ \A p \in Procs :
       /\ WF_vars(RunStep(p))
       /\ WF_vars(Exit(p) /\ run[p].timedOut /\ run[p].child = "obedient")
  /\ WF_vars(GateStep)

-----------------------------------------------------------------------------
(* Properties *)

\* Every variable has its type, and exactly a run about to be recorded has a
\* result.
TypeOK ==
  /\ run \in [Procs -> Run]
  /\ latest \in [Commands -> Result]
  /\ tail \in LastLine
  /\ clock \in [now : Nat, horizon : Nat]
  /\ gate \in Gate
  /\ ended \in [Commands -> Outcomes \cup {"none"}]
  /\ doubt \in [Commands -> Doubts]
  /\ used \in [runs : 0..MaxRuns, agings : 0..MaxAgings, tears : 0..MaxTears]
  /\ \A p \in Procs : run[p].pc = "record" <=> run[p].result.status # "none"

\* A landing decision reflects how the last run of each command ended, however
\* runs, timeouts, deaths and torn appends interleaved with it: it proceeds only
\* if each passed, and blocks if one failed.  It may be wrong about a command
\* that was running as its result was read, whose last runs overlapped or died
\* before they had recorded, or whose last result was appended to a line that a
\* torn append had left without end; torn appends of other commands do no harm.
\* A failure that only the second reading finds still keeps the action from
\* proceeding.
VerdictReflectsRuns ==
  gate.pc = "decided" =>
    /\ \A c \in Commands : gate.doubt[c] = "none" =>
         /\ gate.verdict = "PROCEED" => gate.basis[c] = "passed"
         /\ gate.basis[c] = "failed" => gate.verdict = "BLOCK"
    /\ gate.failed => gate.verdict # "PROCEED"

\* A failure that validate reports as recorded blocks the landing: the last run
\* of the command, with no other run beside it, failed and its append succeeded.
\* The code does not keep this after a torn append.
RecordedFailuresBlock ==
  gate.pc = "decided" =>
    \A c \in Commands :
      gate.doubt[c] # "muddled" /\ gate.basis[c] = "failed" => gate.verdict = "BLOCK"

\* A run that timed out leaves no result, even if its command exited 0: what
\* readers take for the latest result changes to that of a run whose timer never
\* fired, or back to the result before a record that became unreadable.
TimeoutsLeaveNoResult ==
  [][ \A c \in Commands :
        latest'[c] # latest[c] =>
          \/ \E p \in Procs : /\ run[p].cmd = c /\ run'[p].cmd = None
                              /\ ~run[p].timedOut /\ latest'[c] = run[p].result
          \/ tail.cmd = c /\ latest'[c] = tail.was ]_vars

\* A run settles: validate returns, by the command's exit or by the timeout,
\* if the command ends on SIGTERM.
Settled(p) == run[p].pc = "idle"
ObedientRunsSettle ==
  \A p \in Procs :
    ~Settled(p) /\ run[p].child = "obedient" ~> Settled(p)

=============================================================================
