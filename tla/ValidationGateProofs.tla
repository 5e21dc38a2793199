------------------------ MODULE ValidationGateProofs ------------------------
(***************************************************************************)
(* Theorems on ValidationGate, for any commands, processes, kinds of       *)
(* children and bounds.                                                    *)
(***************************************************************************)
EXTENDS ValidationGate, TLAPS

(***************************************************************************)
(* Types                                                                   *)
(***************************************************************************)
\* What the place of a run says of its other fields.
RunOK(r) ==
  /\ r.pc = "idle" <=> r.cmd = None
  /\ r.pc = "record" <=> r.result.status # "none"
  /\ r.pc = "record" => ~r.timedOut
RunsOK == \A p \in Procs : RunOK(run[p])
TypeInv == TypeOK /\ RunsOK

LEMMA IdleRunOK == IdleRun \in Run /\ RunOK(IdleRun)
  BY DEF IdleRun, Run, RunOK, Result, NoResult

LEMMA IdleGateOK == IdleGate \in Gate
  BY DEF IdleGate, Gate, Unread, Statuses, Outcomes, Doubts

LEMMA TailsOK == Closed \in LastLine /\ Fragment \in LastLine
  BY DEF Closed, Fragment, LastLine, Result, NoResult

\* A process that goes on as a well-formed run keeps the runs well-formed.
LEMMA ContinueOK ==
  ASSUME TypeInv, NEW p \in Procs, NEW r \in Run, RunOK(r), Continue(p, r)
  PROVE  /\ run' \in [Procs -> Run] /\ RunsOK'
         /\ run'[p] = r /\ \A q \in Procs : q # p => run'[q] = run[q]
  BY DEF TypeInv, TypeOK, Continue, RunsOK

LEMMA StatusType ==
  ASSUME NEW result \in Result
  PROVE  StatusOf(result) \in Statuses
  BY DEF Result, StatusOf, Statuses, Outcomes

LEMMA BehindType == TypeOK => Behind \in [Commands -> Result]
  BY DEF TypeOK, Behind, LastLine

\* What an append makes of the log and of the doubts.
LEMMA AppendType ==
  ASSUME TypeInv, NEW p \in Procs, run[p].pc = "record", NEW text, NEW end \in BOOLEAN,
         AppendText(p, text, end)
  PROVE  latest' \in [Commands -> Result] /\ tail' \in LastLine /\ doubt' \in [Commands -> Doubts]
<1>1. run[p].result \in Result /\ run[p].cmd \in Commands
  BY DEF TypeInv, TypeOK, RunsOK, RunOK, Run
<1>2. latest' \in [Commands -> Result]
  BY <1>1, BehindType DEF AppendText, TypeInv, TypeOK
<1>3. tail' \in LastLine
  <2>1. [open |-> TRUE, cmd |-> run[p].cmd, was |-> latest[run[p].cmd]] \in LastLine
    BY <1>1 DEF LastLine, TypeInv, TypeOK
  <2> QED
    BY <2>1, TailsOK DEF AppendText
<1>4. doubt' \in [Commands -> Doubts]
  BY DEF AppendText, TypeInv, TypeOK, Doubts
<1> QED
  BY <1>2, <1>3, <1>4

LEMMA StrongestType ==
  ASSUME NEW read \in [Commands -> Statuses \cup {"unread"}]
  PROVE  StrongestStatus(read, Commands) \in Statuses
  BY DEF StrongestStatus, Statuses

LEMMA LandingType ==
  ASSUME NEW risk \in {"PROCEED", "ESCALATE"}, NEW v
  PROVE  VerdictOnLanding(risk, v) \in {"PROCEED", "DEFER", "ESCALATE", "BLOCK"}
  BY DEF VerdictOnLanding

\* The steps of validate and of time.
LEMMA RunTypeStep ==
  ASSUME TypeInv, NEW p \in Procs,
         \/ \E c \in Commands : \E child \in Children[c] : Start(p, c, child)
         \/ RunStep(p) \/ Exit(p) \/ Tear(p) \/ Abandon(p)
  PROVE  TypeInv'
<1> USE DEF TypeInv, TypeOK
<1>0. run[p] \in Run /\ RunOK(run[p])
  BY DEF RunsOK
<1>1. ASSUME NEW c \in Commands, NEW child \in Children[c], Start(p, c, child) PROVE TypeInv'
  <2>1. [IdleRun EXCEPT !.pc = "running", !.cmd = c, !.child = child, !.alone = ~Busy(c)] \in Run
    BY ChildrenType DEF IdleRun, Run, Busy, Result, NoResult
  <2>2. RunOK([IdleRun EXCEPT !.pc = "running", !.cmd = c, !.child = child, !.alone = ~Busy(c)])
    BY NoneIsNew DEF IdleRun, RunOK, NoResult
  <2>3. \A q \in Procs : /\ [run[q] EXCEPT !.alone = FALSE] \in Run
                         /\ RunOK([run[q] EXCEPT !.alone = FALSE])
    <3>1. ASSUME NEW q \in Procs
          PROVE  [run[q] EXCEPT !.alone = FALSE] \in Run /\ RunOK([run[q] EXCEPT !.alone = FALSE])
      <4>1. run[q] \in Run /\ RunOK(run[q])
        BY DEF RunsOK
      <4> QED
        BY <4>1 DEF Run, RunOK
    <3> QED
      BY <3>1
  <2>4. run' \in [Procs -> Run] /\ RunsOK'
    BY <1>1, <2>1, <2>2, <2>3 DEF Start, RunsOK
  <2>5. used' \in [runs : 0..MaxRuns, agings : 0..MaxAgings, tears : 0..MaxTears]
    <3>1. used.runs < MaxRuns /\ used' = [used EXCEPT !.runs = used.runs + 1]
      BY <1>1 DEF Start
    <3>2. used.runs \in 0..MaxRuns
      OBVIOUS
    <3> QED
      BY <3>1, <3>2, BoundsAreNat
  <2> QED
    BY <1>1, <2>4, <2>5 DEF Start, RunsOK, RunOK
<1>2. CASE FireTimer(p)
  <2>1. [run[p] EXCEPT !.timedOut = TRUE] \in Run /\ RunOK([run[p] EXCEPT !.timedOut = TRUE])
    BY <1>0, <1>2 DEF FireTimer, Run, RunOK
  <2> QED
    BY <1>2, <2>1, ContinueOK DEF FireTimer, RunsOK, RunOK
<1>3. CASE Exit(p)
  <2>1. [run[p] EXCEPT !.pc = "closing"] \in Run /\ RunOK([run[p] EXCEPT !.pc = "closing"])
    BY <1>0, <1>3 DEF Exit, Run, RunOK
  <2> QED
    BY <1>3, <2>1, ContinueOK DEF Exit, RunsOK, RunOK
<1>4. CASE Close(p)
  <2>1. CASE run[p].timedOut
    BY <1>4, <2>1, IdleRunOK, ContinueOK DEF Close, RunsOK, RunOK
  <2>2. CASE ~run[p].timedOut
    <3>1. PICK status \in Outcomes : Complete(p, status)
      BY <1>4, <2>2 DEF Close
    <3> DEFINE r == [run[p] EXCEPT !.pc = "record",
                                   !.result = [status |-> status, at |-> clock.now + 1]]
    <3>2. r \in Run /\ RunOK(r)
      <4>1. [status |-> status, at |-> clock.now + 1] \in Result
        BY DEF Result
      <4> QED
        BY <1>0, <1>4, <2>2, <4>1 DEF Close, Run, RunOK, Outcomes
    <3>3. run' \in [Procs -> Run] /\ RunsOK'
      BY <3>1, <3>2, ContinueOK DEF Complete
    <3>4. clock' \in [now : Nat, horizon : Nat] /\ ended' \in [Commands -> Outcomes \cup {"none"}]
      <4>1. clock' = [clock EXCEPT !.now = clock.now + 1] /\ clock.now + 1 \in Nat
        BY <3>1 DEF Complete
      <4>2. clock' \in [now : Nat, horizon : Nat]
        BY <4>1
      <4>3. ended' \in [Commands -> Outcomes \cup {"none"}]
        BY <3>1 DEF Complete
      <4> QED
        BY <4>2, <4>3
    <3> QED
      BY <1>4, <3>3, <3>4 DEF Close, RunsOK, RunOK
  <2> QED
    BY <2>1, <2>2
<1>5. CASE Record(p)
  <2>1. run' \in [Procs -> Run] /\ RunsOK'
    BY <1>5, IdleRunOK, ContinueOK DEF Record
  <2> QED
    BY <1>5, <2>1, AppendType DEF Record, RunsOK, RunOK
<1>6. CASE Tear(p)
  <2>1. run' \in [Procs -> Run] /\ RunsOK'
    BY <1>6, IdleRunOK, ContinueOK DEF Tear
  <2>2. PICK text \in {"record", "fragment"} : AppendText(p, text, FALSE)
    BY <1>6 DEF Tear
  <2>3. latest' \in [Commands -> Result] /\ tail' \in LastLine /\ doubt' \in [Commands -> Doubts]
    BY <1>6, <2>2, AppendType DEF Tear
  <2>4. used' \in [runs : 0..MaxRuns, agings : 0..MaxAgings, tears : 0..MaxTears]
    BY <1>6, BoundsAreNat DEF Tear
  <2> QED
    BY <1>6, <2>1, <2>3, <2>4 DEF Tear, RunsOK, RunOK
<1>7. CASE Abandon(p)
  <2>1. run' \in [Procs -> Run] /\ RunsOK'
    BY <1>7, IdleRunOK, ContinueOK DEF Abandon
  <2> QED
    BY <1>7, <2>1 DEF Abandon, RunsOK, RunOK, Doubts
<1> QED
  BY <1>1, <1>2, <1>3, <1>4, <1>5, <1>6, <1>7 DEF RunStep

LEMMA AgeTypeStep ==
  ASSUME TypeInv, Age
  PROVE  TypeInv'
<1>1. used' \in [runs : 0..MaxRuns, agings : 0..MaxAgings, tears : 0..MaxTears]
  BY BoundsAreNat DEF Age, TypeInv, TypeOK
<1>2. clock' \in [now : Nat, horizon : Nat]
  <2>1. PICK until \in (clock.horizon + 1)..clock.now : clock' = [clock EXCEPT !.horizon = until]
    BY DEF Age
  <2> QED
    BY <2>1 DEF TypeInv, TypeOK
<1> QED
  BY <1>1, <1>2 DEF Age, TypeInv, TypeOK, RunsOK

\* The steps of a landing decision.
LEMMA GateTypeStep ==
  ASSUME TypeInv, StartGate \/ GateStep \/ Land
  PROVE  TypeInv'
<1> USE DEF TypeInv, TypeOK
<1>1. gate' \in Gate
  <2>1. CASE StartGate \/ Land
    BY <2>1, IdleGateOK DEF StartGate, Land, Gate
  <2>2. ASSUME NEW c \in Commands, ReadForValidation(c) PROVE gate' \in Gate
    <3>1. /\ StatusOf(latest[c]) \in Statuses
          /\ (IF Busy(c) THEN "muddled" ELSE doubt[c]) \in Doubts
      BY StatusType DEF Doubts
    <3> QED
      BY <2>2, <3>1 DEF ReadForValidation, Gate
  <2>3. ASSUME NEW c \in Commands, ReadForLanding(c) PROVE gate' \in Gate
    <3>1. StatusOf(latest[c]) \in Statuses /\ (gate.failed \/ latest[c].status = "failed") \in BOOLEAN
      BY StatusType
    <3> QED
      BY <2>3, <3>1 DEF ReadForLanding, Gate
  <2>4. CASE EndValidation
    <3>1. StrongestStatus(gate.read, Commands) \in Statuses
      BY StrongestType DEF Gate
    <3> QED
      BY <2>4, <3>1 DEF EndValidation, Gate, Unread
  <2>5. CASE EndLanding
    BY <2>5, LandingType DEF EndLanding, Gate
  <2> QED
    BY <2>1, <2>2, <2>3, <2>4, <2>5 DEF GateStep
<1> QED
  BY <1>1 DEF StartGate, GateStep, Land, ReadForValidation, ReadForLanding, EndValidation,
              EndLanding, RunsOK

LEMMA TypeStep == TypeInv /\ [Next]_vars => TypeInv'
<1>1. TypeInv /\ UNCHANGED vars => TypeInv'
  BY DEF vars, TypeInv, TypeOK, RunsOK
<1> QED
  BY <1>1, RunTypeStep, AgeTypeStep, GateTypeStep DEF Next

LEMMA InitTypes == Init => TypeInv
<1> SUFFICES ASSUME Init PROVE TypeInv
  OBVIOUS
<1>1. ended \in [Commands -> Outcomes \cup {"none"}]
  BY EarlierType DEF Init, Outcomes
<1>2. latest \in [Commands -> Result]
  BY <1>1 DEF Init, Result, NoResult, Outcomes
<1>3. /\ run \in [Procs -> Run] /\ RunsOK
      /\ \A p \in Procs : run[p].pc = "record" <=> run[p].result.status # "none"
  BY IdleRunOK DEF Init, RunsOK, RunOK
<1>4. /\ clock \in [now : Nat, horizon : Nat] /\ doubt \in [Commands -> Doubts]
      /\ used \in [runs : 0..MaxRuns, agings : 0..MaxAgings, tears : 0..MaxTears]
  BY BoundsAreNat DEF Init, Doubts
<1>5. tail \in LastLine /\ gate \in Gate
  BY TailsOK, IdleGateOK DEF Init
<1> QED
  BY <1>1, <1>2, <1>3, <1>4, <1>5 DEF TypeInv, TypeOK

LEMMA TypesKept == Spec => []TypeInv
  BY InitTypes, TypeStep, PTL DEF Spec

\* Every variable keeps its type, and a run about to be recorded has a status.
THEOREM TypeCorrect == Spec => []TypeOK
<1>1. TypeInv => TypeOK
  BY DEF TypeInv
<1> QED
  BY <1>1, TypesKept, PTL

(***************************************************************************)
(* Results and runs                                                        *)
(***************************************************************************)
\* A run alone has the command to itself.
AloneInv ==
  \A p, q \in Procs : p # q /\ run[p].cmd # None /\ run[p].alone => run[q].cmd # run[p].cmd

\* A run alone that is about to be recorded is the last to end by itself.
RecordInv ==
  \A p \in Procs : run[p].pc = "record" /\ run[p].alone => run[p].result.status = ended[run[p].cmd]

\* A record that can still become unreadable is of a run that died.
TailInv == \A c \in Commands : c = tail.cmd => doubt[c] = "muddled"

\* Unless there are doubts or a run is about to be recorded, the last result of
\* a command is how its last run ended.
Pending(c) == \E p \in Procs : run[p].cmd = c /\ run[p].pc = "record"
ResultInv ==
  \A c \in Commands : doubt[c] = "none" /\ ~Pending(c) => latest[c].status = ended[c]

ResultsInv == AloneInv /\ RecordInv /\ TailInv /\ ResultInv

\* A process that ends its run, or moves it on without recording, and leaves
\* results alone.
LEMMA MoveKeepsResults ==
  ASSUME TypeInv, ResultsInv, NEW p \in Procs, NEW r \in Run, Continue(p, r),
         r.cmd \in {run[p].cmd, None}, r.pc = "record" => run[p].pc = "record",
         r.pc = "record" => r = run[p], r.alone => run[p].alone \/ r.cmd = None,
         latest' = latest, tail' = tail, ended' = ended,
         \A c \in Commands : doubt'[c] \in {doubt[c], "muddled"},
         \A c \in Commands :
           run[p].cmd = c /\ run[p].pc = "record" /\ r # run[p] => doubt'[c] = "muddled"
  PROVE  ResultsInv'
<1>1. run'[p] = r /\ \A q \in Procs : q # p => run'[q] = run[q]
  BY DEF TypeInv, TypeOK, Continue
<1>2. AloneInv'
  <2> SUFFICES ASSUME NEW q1 \in Procs, NEW q2 \in Procs, q1 # q2, run'[q1].cmd # None,
                      run'[q1].alone
               PROVE  run'[q2].cmd # run'[q1].cmd
    BY DEF AloneInv
  <2>1. run[q1].cmd = run'[q1].cmd /\ run[q1].alone
    BY <1>1
  <2>2. run[q2].cmd # run[q1].cmd
    BY <2>1 DEF ResultsInv, AloneInv
  <2>3. run'[q2].cmd \in {run[q2].cmd, None}
    BY <1>1
  <2> QED
    BY <2>1, <2>2, <2>3
<1>3. RecordInv'
  BY <1>1 DEF ResultsInv, RecordInv
<1>4. TailInv'
  BY DEF ResultsInv, TailInv
<1>5. ResultInv'
  <2> SUFFICES ASSUME NEW c \in Commands, doubt'[c] = "none", ~Pending(c)'
               PROVE  latest'[c].status = ended'[c]
    BY DEF ResultInv
  <2>1. doubt[c] = "none"
    OBVIOUS
  <2>2. ~Pending(c)
    <3>1. SUFFICES ASSUME NEW q \in Procs, run[q].cmd = c, run[q].pc = "record" PROVE FALSE
      BY DEF Pending
    <3>2. q # p
      BY <1>1, <3>1 DEF Pending
    <3> QED
      BY <1>1, <3>1, <3>2 DEF Pending
  <2> QED
    BY <2>1, <2>2 DEF ResultsInv, ResultInv
<1> QED
  BY <1>2, <1>3, <1>4, <1>5 DEF ResultsInv

LEMMA StartKeepsResults ==
  ASSUME TypeInv, ResultsInv, NEW p \in Procs, NEW c \in Commands, NEW child \in Children[c],
         Start(p, c, child)
  PROVE  ResultsInv'
<1>1. /\ run'[p].pc = "running" /\ run'[p].cmd = c
      /\ run'[p].alone = ~Busy(c) /\ run[p].cmd = None
  BY DEF Start, IdleRun, TypeInv, TypeOK, RunsOK, RunOK
<1>2. \A q \in Procs : q # p =>
        /\ run'[q].pc = run[q].pc /\ run'[q].cmd = run[q].cmd /\ run'[q].result = run[q].result
        /\ run'[q].alone => run[q].alone /\ run[q].cmd # c
  <2> SUFFICES ASSUME NEW q \in Procs, q # p
               PROVE  /\ run'[q].pc = run[q].pc /\ run'[q].cmd = run[q].cmd
                      /\ run'[q].result = run[q].result
                      /\ run'[q].alone => run[q].alone /\ run[q].cmd # c
    OBVIOUS
  <2>1. run[q] \in Run
    BY DEF TypeInv, TypeOK
  <2>2. run'[q] = IF run[q].cmd = c THEN [run[q] EXCEPT !.alone = FALSE] ELSE run[q]
    BY DEF Start
  <2> QED
    BY <2>1, <2>2 DEF Run
<1>3. latest' = latest /\ tail' = tail /\ ended' = ended /\ doubt' = doubt
  BY DEF Start
<1>4. AloneInv'
  <2> SUFFICES ASSUME NEW q1 \in Procs, NEW q2 \in Procs, q1 # q2, run'[q1].cmd # None,
                      run'[q1].alone
               PROVE  run'[q2].cmd # run'[q1].cmd
    BY DEF AloneInv
  <2>1. CASE q1 = p
    <3>1. run[q2].cmd # c
      BY <1>1, <2>1 DEF Busy
    <3> QED
      BY <1>1, <1>2, <2>1, <3>1
  <2>2. CASE q2 = p
    BY <1>1, <1>2, <2>2
  <2>3. CASE q1 # p /\ q2 # p
    BY <1>2, <2>3 DEF ResultsInv, AloneInv
  <2> QED
    BY <2>1, <2>2, <2>3
<1>5. RecordInv'
  BY <1>1, <1>2, <1>3 DEF ResultsInv, RecordInv
<1>6. \A d \in Commands : Pending(d) => Pending(d)'
  <2> SUFFICES ASSUME NEW d \in Commands, NEW q \in Procs, run[q].cmd = d, run[q].pc = "record"
               PROVE  Pending(d)'
    BY DEF Pending
  <2>1. q # p
    BY DEF Start
  <2> QED
    BY <1>2, <2>1 DEF Pending
<1>7. TailInv' /\ ResultInv'
  BY <1>3, <1>6 DEF ResultsInv, TailInv, ResultInv
<1> QED
  BY <1>4, <1>5, <1>7 DEF ResultsInv

\* A run that ends by itself: its status is how the command last ended.
LEMMA CloseKeepsResults ==
  ASSUME TypeInv, ResultsInv, NEW p \in Procs, Close(p), ~run[p].timedOut
  PROVE  ResultsInv'
<1>1. PICK status \in Outcomes : Complete(p, status)
  BY DEF Close
<1>2. run[p] \in Run /\ run[p].pc = "closing" /\ run[p].cmd \in Commands
  BY DEF Close, TypeInv, TypeOK, Run, RunsOK, RunOK
<1>3. /\ run'[p].pc = "record" /\ run'[p].result.status = status
      /\ run'[p].cmd = run[p].cmd /\ run'[p].alone = run[p].alone
      /\ \A q \in Procs : q # p => run'[q] = run[q]
  BY <1>1, <1>2 DEF Complete, Continue, TypeInv, TypeOK, Run
<1>4. /\ ended'[run[p].cmd] = status
      /\ \A c \in Commands : c # run[p].cmd => ended'[c] = ended[c]
  BY <1>1, <1>2 DEF Complete, TypeInv, TypeOK
<1>5. AloneInv'
  BY <1>3 DEF ResultsInv, AloneInv
<1>6. RecordInv'
  <2> SUFFICES ASSUME NEW q \in Procs, run'[q].pc = "record", run'[q].alone
               PROVE  run'[q].result.status = ended'[run'[q].cmd]
    BY DEF RecordInv
  <2>1. CASE q = p
    BY <1>3, <1>4, <2>1
  <2>2. CASE q # p
    <3>1. run[q] = run'[q] /\ run[q].cmd \in Commands
      BY <1>3, <2>2 DEF TypeInv, TypeOK, Run, RunsOK, RunOK
    <3>2. run[q].cmd # run[p].cmd
      BY <1>2, <2>2, <3>1, NoneIsNew DEF ResultsInv, AloneInv
    <3> QED
      BY <1>4, <3>1, <3>2 DEF ResultsInv, RecordInv
  <2> QED
    BY <2>1, <2>2
<1>7. TailInv'
  BY DEF Close, ResultsInv, TailInv
<1>8. ResultInv'
  <2> SUFFICES ASSUME NEW c \in Commands, doubt'[c] = "none", ~Pending(c)'
               PROVE  latest'[c].status = ended'[c]
    BY DEF ResultInv
  <2>1. c # run[p].cmd
    BY <1>3 DEF Pending
  <2>2. ~Pending(c)
    BY <1>3, <2>1 DEF Pending
  <2> QED
    BY <1>4, <2>1, <2>2 DEF Close, ResultsInv, ResultInv
<1> QED
  BY <1>5, <1>6, <1>7, <1>8 DEF ResultsInv

\* An append.  Only its own command, and one whose record it makes unreadable,
\* get another result: of the second there are doubts already, of the first none
\* only if it was alone and its record is readable.
LEMMA AppendKeepsResults ==
  ASSUME TypeInv, ResultsInv, NEW p \in Procs, run[p].pc = "record",
         NEW text, NEW end \in BOOLEAN, AppendText(p, text, end), Continue(p, IdleRun),
         ended' = ended
  PROVE  ResultsInv'
<1> DEFINE d == run[p].cmd
           readable == text = "record" /\ ~tail.open
<1>1. run[p] \in Run /\ d \in Commands
  BY DEF TypeInv, TypeOK, Run, RunsOK, RunOK
<1>2. run'[p] = IdleRun /\ \A q \in Procs : q # p => run'[q] = run[q]
  BY DEF Continue, TypeInv, TypeOK
<1>3. AloneInv' /\ RecordInv'
  BY <1>2 DEF ResultsInv, AloneInv, RecordInv, IdleRun
<1>4. \A c \in Commands : c # d => doubt'[c] = doubt[c]
  BY DEF AppendText, TypeInv, TypeOK
<1>5. doubt'[d] = IF ~end \/ ~run[p].alone THEN "muddled"
                  ELSE IF readable THEN "none" ELSE "swallowed"
  BY <1>1 DEF AppendText, TypeInv, TypeOK
<1>6. TailInv'
  <2>1. tail' \in {Closed, Fragment} \/ (~end /\ tail'.cmd = d)
    BY DEF AppendText
  <2>2. Closed.cmd = None /\ Fragment.cmd = None
    BY DEF Closed, Fragment
  <2> QED
    BY <1>5, <2>1, <2>2, NoneIsNew DEF TailInv
<1>7. ResultInv'
  <2> SUFFICES ASSUME NEW c \in Commands, doubt'[c] = "none", ~Pending(c)'
               PROVE  latest'[c].status = ended'[c]
    BY DEF ResultInv
  <2>1. CASE c = d
    <3>1. readable /\ run[p].alone
      BY <1>5, <2>1
    <3>2. latest'[c] = run[p].result
      BY <2>1, <3>1 DEF AppendText, TypeInv, TypeOK
    <3> QED
      BY <2>1, <3>1, <3>2 DEF ResultsInv, RecordInv
  <2>2. CASE c # d
    <3>1. ~Pending(c)
      BY <1>2, <2>2 DEF Pending
    <3>2. doubt[c] = "none"
      BY <1>4, <2>2
    <3>3. c # tail.cmd
      BY <3>2 DEF ResultsInv, TailInv
    <3>4. latest'[c] = latest[c]
      BY <2>2, <3>3 DEF AppendText, Behind, TypeInv, TypeOK
    <3> QED
      BY <3>1, <3>2, <3>4 DEF ResultsInv, ResultInv
  <2> QED
    BY <2>1, <2>2
<1> QED
  BY <1>3, <1>6, <1>7 DEF ResultsInv

LEMMA ResultsStep == TypeInv /\ ResultsInv /\ [Next]_vars => ResultsInv'
<1> SUFFICES ASSUME TypeInv, ResultsInv, [Next]_vars PROVE ResultsInv'
  OBVIOUS
<1>1. ASSUME NEW p \in Procs, FireTimer(p) \/ Exit(p) PROVE ResultsInv'
  <2>1. run[p] \in Run /\ run[p].pc \in {"running", "closing"}
    BY <1>1 DEF FireTimer, Exit, TypeInv, TypeOK
  <2>2. PICK r \in {[run[p] EXCEPT !.timedOut = TRUE], [run[p] EXCEPT !.pc = "closing"]} :
          Continue(p, r)
    BY <1>1 DEF FireTimer, Exit
  <2>3. /\ r \in Run /\ r.cmd = run[p].cmd /\ r.alone = run[p].alone /\ r.pc # "record"
        /\ latest' = latest /\ tail' = tail /\ ended' = ended /\ doubt' = doubt
    BY <1>1, <2>1, <2>2 DEF FireTimer, Exit, Run
  <2> QED
    BY <2>1, <2>2, <2>3, MoveKeepsResults
<1>2. ASSUME NEW p \in Procs, Close(p) PROVE ResultsInv'
  <2>1. CASE run[p].timedOut
    <3>1. /\ Continue(p, IdleRun) /\ run[p].pc = "closing"
          /\ latest' = latest /\ tail' = tail /\ ended' = ended /\ doubt' = doubt
      BY <1>2, <2>1 DEF Close
    <3> QED
      BY <3>1, IdleRunOK, MoveKeepsResults DEF IdleRun
  <2>2. CASE ~run[p].timedOut
    BY <1>2, <2>2, CloseKeepsResults
  <2> QED
    BY <2>1, <2>2
<1>3. ASSUME NEW p \in Procs, Abandon(p) PROVE ResultsInv'
  <2>1. /\ Continue(p, IdleRun) /\ latest' = latest /\ tail' = tail /\ ended' = ended
        /\ \A c \in Commands : doubt'[c] \in {doubt[c], "muddled"}
        /\ \A c \in Commands : run[p].cmd = c /\ run[p].pc = "record" => doubt'[c] = "muddled"
    BY <1>3 DEF Abandon, TypeInv, TypeOK
  <2> QED
    BY <2>1, IdleRunOK, MoveKeepsResults DEF IdleRun
<1>4. ASSUME NEW p \in Procs, Record(p) \/ Tear(p) PROVE ResultsInv'
  <2>1. PICK text \in {"record", "fragment"}, end \in BOOLEAN : AppendText(p, text, end)
    BY <1>4 DEF Record, Tear
  <2>2. run[p].pc = "record" /\ Continue(p, IdleRun) /\ ended' = ended
    BY <1>4 DEF Record, Tear
  <2> QED
    BY <2>1, <2>2, AppendKeepsResults
<1>5. CASE Age \/ StartGate \/ GateStep \/ Land \/ UNCHANGED vars
  <2>1. run' = run /\ ended' = ended /\ doubt' = doubt /\ latest' = latest /\ tail' = tail
    BY <1>5 DEF Age, StartGate, GateStep, Land, vars, ReadForValidation, ReadForLanding,
                EndValidation, EndLanding
  <2> QED
    BY <2>1 DEF ResultsInv, AloneInv, RecordInv, TailInv, ResultInv, Pending
<1> QED
  BY <1>1, <1>2, <1>3, <1>4, <1>5, StartKeepsResults DEF Next, RunStep

(***************************************************************************)
(* The landing decision                                                    *)
(***************************************************************************)
\* What the first reading says of a command without doubts is how its last run
\* ended, or weaker; the verdict rests on it and on the second reading.
Agrees(status, basis) ==
  /\ basis = "failed" => status = "failed"
  /\ status = "passed" => basis = "passed"

ValidationInv ==
  gate.pc = "validation" =>
    /\ ~gate.failed
    /\ \A c \in Commands :
         /\ gate.read[c] = "unread" => gate.doubt[c] # "none"
         /\ gate.doubt[c] = "none" => Agrees(gate.read[c], gate.basis[c])
LandingInv ==
  gate.pc = "landing" =>
    /\ gate.required \in Statuses
    /\ \A c \in Commands : gate.doubt[c] = "none" => Agrees(gate.required, gate.basis[c])
    /\ gate.failed => \E c \in Commands : gate.read[c] = "failed"
GateInv == ValidationInv /\ LandingInv /\ VerdictReflectsRuns

\* The strongest status fails with any, and passes only with all.
LEMMA StrongestAgrees ==
  ASSUME NEW read \in [Commands -> Statuses], NEW c \in Commands
  PROVE  /\ read[c] = "failed" => StrongestStatus(read, Commands) = "failed"
         /\ StrongestStatus(read, Commands) = "passed" => read[c] = "passed"
  BY DEF StrongestStatus, Statuses

LEMMA ReadForValidationKeepsGate ==
  ASSUME TypeInv, ResultsInv, GateInv, NEW c \in Commands, ReadForValidation(c)
  PROVE  GateInv'
<1>1. /\ gate'.pc = "validation" /\ gate'.failed = gate.failed
      /\ gate'.read[c] = StatusOf(latest[c]) /\ gate'.basis[c] = ended[c]
      /\ gate'.doubt[c] = IF Busy(c) THEN "muddled" ELSE doubt[c]
      /\ \A d \in Commands : d # c => /\ gate'.read[d] = gate.read[d]
                                      /\ gate'.basis[d] = gate.basis[d]
                                      /\ gate'.doubt[d] = gate.doubt[d]
  BY DEF ReadForValidation, TypeInv, TypeOK, Gate
<1>2. StatusOf(latest[c]) # "unread"
  BY StatusType DEF TypeInv, TypeOK, Statuses
<1>3. gate'.doubt[c] = "none" => Agrees(gate'.read[c], gate'.basis[c])
  <2> SUFFICES ASSUME gate'.doubt[c] = "none" PROVE Agrees(StatusOf(latest[c]), ended[c])
    BY <1>1
  <2>1. latest[c].status = ended[c]
    BY <1>1 DEF ResultsInv, ResultInv, Busy, Pending
  <2> QED
    BY <2>1 DEF Agrees, StatusOf, TypeInv, TypeOK, Outcomes
<1>4. gate.pc = "validation"
  BY DEF ReadForValidation
<1> QED
  BY <1>1, <1>2, <1>3, <1>4 DEF GateInv, ValidationInv, LandingInv, VerdictReflectsRuns

LEMMA EndValidationKeepsGate ==
  ASSUME TypeInv, GateInv, EndValidation
  PROVE  GateInv'
<1>1. /\ gate'.pc = "landing" /\ gate'.read = Unread /\ gate'.failed = gate.failed
      /\ gate'.required = StrongestStatus(gate.read, Commands)
      /\ gate'.basis = gate.basis /\ gate'.doubt = gate.doubt
  BY DEF EndValidation, TypeInv, TypeOK, Gate
<1>2. gate.read \in [Commands -> Statuses] /\ gate.pc = "validation"
  BY DEF EndValidation, TypeInv, TypeOK, Gate
<1>3. gate'.required \in Statuses
  BY <1>1, <1>2, StrongestType
<1>4. ASSUME NEW c \in Commands, gate.doubt[c] = "none" PROVE Agrees(gate'.required, gate.basis[c])
  <2>1. Agrees(gate.read[c], gate.basis[c])
    BY <1>2, <1>4 DEF GateInv, ValidationInv
  <2> QED
    BY <1>1, <1>2, <2>1, StrongestAgrees DEF Agrees
<1> QED
  BY <1>1, <1>2, <1>3, <1>4 DEF GateInv, ValidationInv, LandingInv, VerdictReflectsRuns

LEMMA ReadForLandingKeepsGate ==
  ASSUME TypeInv, GateInv, NEW c \in Commands, ReadForLanding(c)
  PROVE  GateInv'
<1>1. /\ gate'.pc = "landing" /\ gate.pc = "landing" /\ gate'.required = gate.required
      /\ gate'.basis = gate.basis /\ gate'.doubt = gate.doubt
      /\ gate'.failed = (gate.failed \/ latest[c].status = "failed")
      /\ gate'.read[c] = StatusOf(latest[c]) /\ gate.read[c] = "unread"
      /\ \A d \in Commands : d # c => gate'.read[d] = gate.read[d]
  BY DEF ReadForLanding, TypeInv, TypeOK, Gate
<1>2. gate'.failed => \E d \in Commands : gate'.read[d] = "failed"
  BY <1>1 DEF GateInv, LandingInv, StatusOf
<1> QED
  BY <1>1, <1>2 DEF GateInv, ValidationInv, LandingInv, VerdictReflectsRuns

LEMMA EndLandingKeepsGate ==
  ASSUME TypeInv, GateInv, EndLanding
  PROVE  GateInv'
<1> DEFINE risk == IF StrongestStatus(gate.read, Commands) = "failed" THEN "ESCALATE"
                   ELSE "PROCEED"
<1>1. /\ gate'.pc = "decided" /\ gate.pc = "landing"
      /\ gate'.verdict = VerdictOnLanding(risk, gate.required)
      /\ gate'.basis = gate.basis /\ gate'.doubt = gate.doubt /\ gate'.failed = gate.failed
      /\ gate.read \in [Commands -> Statuses]
  BY DEF EndLanding, TypeInv, TypeOK, Gate
<1>2. ASSUME NEW c \in Commands, gate.doubt[c] = "none"
      PROVE  /\ gate'.verdict = "PROCEED" => gate.basis[c] = "passed"
             /\ gate.basis[c] = "failed" => gate'.verdict = "BLOCK"
  <2>1. Agrees(gate.required, gate.basis[c]) /\ gate.required \in Statuses
    BY <1>1, <1>2 DEF GateInv, LandingInv
  <2> QED
    BY <1>1, <2>1 DEF VerdictOnLanding, Agrees, Statuses
<1>3. gate.failed => gate'.verdict # "PROCEED"
  <2> SUFFICES ASSUME gate.failed PROVE gate'.verdict # "PROCEED"
    OBVIOUS
  <2>1. PICK c \in Commands : gate.read[c] = "failed"
    BY <1>1 DEF GateInv, LandingInv
  <2>2. risk = "ESCALATE"
    BY <1>1, <2>1, StrongestAgrees
  <2> QED
    BY <1>1, <2>2 DEF VerdictOnLanding
<1> QED
  BY <1>1, <1>2, <1>3 DEF GateInv, ValidationInv, LandingInv, VerdictReflectsRuns

LEMMA GateInvStep == TypeInv /\ ResultsInv /\ GateInv /\ [Next]_vars => GateInv'
<1> SUFFICES ASSUME TypeInv, ResultsInv, GateInv, [Next]_vars PROVE GateInv'
  OBVIOUS
<1>1. CASE StartGate \/ Land
  BY <1>1 DEF StartGate, Land, IdleGate, Unread, GateInv, ValidationInv, LandingInv,
              VerdictReflectsRuns
<1>2. CASE GateStep
  BY <1>2, ReadForValidationKeepsGate, EndValidationKeepsGate, ReadForLandingKeepsGate,
     EndLandingKeepsGate DEF GateStep
<1>3. CASE \/ UNCHANGED vars
           \/ Age
           \/ \E p \in Procs :
                \/ \E c \in Commands : \E child \in Children[c] : Start(p, c, child)
                \/ RunStep(p) \/ Exit(p) \/ Tear(p) \/ Abandon(p)
  <2>1. gate' = gate
    BY <1>3 DEF vars, Age, Start, RunStep, FireTimer, Close, Record, Exit, Tear, Abandon
  <2> QED
    BY <2>1 DEF GateInv, ValidationInv, LandingInv, VerdictReflectsRuns
<1> QED
  BY <1>1, <1>2, <1>3 DEF Next

\* A landing proceeds only if the last run of each command passed, and blocks if
\* one failed, for every command of whose result there are no doubts, whatever
\* appends of others were torn; a failure seen only at the second reading still
\* keeps it from proceeding.
THEOREM VerdictsReflectRuns == Spec => []VerdictReflectsRuns
<1>1. Init => ResultsInv /\ GateInv
  <2> SUFFICES ASSUME Init PROVE ResultsInv /\ GateInv
    OBVIOUS
  <2>1. AloneInv /\ RecordInv /\ TailInv
    BY NoneIsNew DEF Init, AloneInv, RecordInv, TailInv, IdleRun, Closed
  <2>2. ResultInv
    BY EarlierType DEF Init, ResultInv, NoResult
  <2>3. GateInv
    BY DEF Init, GateInv, ValidationInv, LandingInv, VerdictReflectsRuns, IdleGate
  <2> QED
    BY <2>1, <2>2, <2>3 DEF ResultsInv
<1>2. GateInv => VerdictReflectsRuns
  BY DEF GateInv
<1> QED
  BY <1>1, <1>2, TypesKept, ResultsStep, GateInvStep, PTL DEF Spec

(***************************************************************************)
(* Timeouts                                                                *)
(***************************************************************************)
\* Only appends change what readers take for the latest result of a command.
LEMMA ResultStep ==
  ASSUME TypeInv, [Next]_vars, NEW c \in Commands, latest'[c] # latest[c]
  PROVE  \/ \E p \in Procs : /\ run[p].cmd = c /\ run'[p].cmd = None
                             /\ ~run[p].timedOut /\ latest'[c] = run[p].result
         \/ tail.cmd = c /\ latest'[c] = tail.was
<1>1. PICK p \in Procs : Record(p) \/ Tear(p)
  BY DEF Next, RunStep, Start, FireTimer, Exit, Close, Abandon, Age, StartGate, GateStep, Land,
         ReadForValidation, ReadForLanding, EndValidation, EndLanding, vars
<1>2. PICK text, end : AppendText(p, text, end)
  BY <1>1 DEF Record, Tear
<1>3. ~run[p].timedOut /\ run'[p].cmd = None
  <2>1. run[p].pc = "record" /\ Continue(p, IdleRun)
    BY <1>1 DEF Record, Tear
  <2>2. run'[p] = IdleRun
    BY <2>1 DEF Continue, TypeInv, TypeOK
  <2> QED
    BY <2>1, <2>2 DEF TypeInv, RunsOK, RunOK, IdleRun
<1>4. CASE text = "record" /\ ~tail.open
  <2>1. latest' = [latest EXCEPT ![run[p].cmd] = run[p].result]
    BY <1>2, <1>4 DEF AppendText
  <2>2. run[p].cmd = c /\ latest'[c] = run[p].result
    BY <2>1 DEF TypeInv, TypeOK
  <2> QED
    BY <1>3, <2>2
<1>5. CASE ~(text = "record" /\ ~tail.open)
  BY <1>2, <1>5 DEF AppendText, Behind
<1> QED
  BY <1>4, <1>5

\* A run that timed out leaves no result, whatever its exit code: another result
\* is the latest only by a run whose timer never fired, or by a record that
\* becomes unreadable.
THEOREM TimeoutsRecordNothing == Spec => TimeoutsLeaveNoResult
<1>1. TypeInv /\ [Next]_vars =>
        [\A c \in Commands :
           latest'[c] # latest[c] =>
             \/ \E p \in Procs : /\ run[p].cmd = c /\ run'[p].cmd = None
                                 /\ ~run[p].timedOut /\ latest'[c] = run[p].result
             \/ tail.cmd = c /\ latest'[c] = tail.was]_vars
  BY ResultStep
<1> QED
  BY <1>1, TypesKept, PTL DEF Spec, TimeoutsLeaveNoResult
=============================================================================
