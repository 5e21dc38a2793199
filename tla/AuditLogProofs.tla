---------------------------- MODULE AuditLogProofs ----------------------------
(***************************************************************************)
(* Theorems on AuditLog, for any set of appends and any number of tears.   *)
(* AppendText does one of two things to the file: it adds a line, or it    *)
(* spoils the line left open; AppendCases says so once.                    *)
(***************************************************************************)
EXTENDS AuditLog, FiniteSetTheorems, TLAPS

(***************************************************************************)
(* Types                                                                   *)
(***************************************************************************)
\* What an append makes of the file.
LEMMA AppendCases ==
  ASSUME log \in Seq(Line), NEW r \in [op : Ops \cup {None}, prev : Ops \cup {None},
                                       text : {"fragment", "record"}],
         NEW e \in BOOLEAN
  PROVE  /\ AppendText(r, e) \in Seq(Line)
         /\ ~OpenTail => /\ AppendText(r, e) = Append(log, Ended(r, e))
                         /\ Ended(r, e) \in Line
         /\ OpenTail => /\ Len(log) \in Nat \ {0}
                        /\ Len(AppendText(r, e)) = Len(log)
                        /\ AppendText(r, e)[Len(log)] = Ended(Fragment, e)
                        /\ \A n \in 1..(Len(log) - 1) : AppendText(r, e)[n] = log[n]
<1>1. Ended(r, e) \in Line /\ Ended(Fragment, e) \in Line
  BY DEF Ended, Line, Fragment
<1>2. CASE OpenTail
  <2>1. Len(log) \in Nat \ {0}
    BY <1>2 DEF OpenTail
  <2>2. AppendText(r, e) = [log EXCEPT ![Len(log)] = Ended(Fragment, e)]
    BY <1>2 DEF AppendText
  <2> QED
    BY <1>1, <1>2, <2>1, <2>2
<1>3. CASE ~OpenTail
  BY <1>1, <1>3 DEF AppendText
<1> QED
  BY <1>2, <1>3

LEMMA TypeStep == TypeOK /\ [Next]_vars => TypeOK'
<1> SUFFICES ASSUME TypeOK, [Next]_vars PROVE TypeOK'
  OBVIOUS
<1> USE DEF TypeOK
<1>1. CASE UNCHANGED vars
  BY <1>1 DEF vars
<1>2. ASSUME NEW o \in Ops, Begin(o) PROVE TypeOK'
  <2>1. InFlight \subseteq Ops
    BY DEF InFlight
  <2> QED
    BY <1>2, <2>1 DEF Begin, Stages
<1>3. ASSUME NEW o \in Ops, ReadPrevious(o) PROVE TypeOK'
  <2>1. log # <<>> => log[Len(log)] \in Line
    OBVIOUS
  <2>2. log # <<>> => log[Len(log)].op \in Ops \cup {None}
    BY <2>1 DEF Line
  <2> QED
    BY <1>3, <2>2 DEF ReadPrevious, Stages
<1>4. ASSUME NEW o \in Ops, Write(o) PROVE TypeOK'
  <2>1. RecordOf(o, prev[o]) \in [op : Ops \cup {None}, prev : Ops \cup {None},
                                  text : {"fragment", "record"}]
    BY DEF RecordOf
  <2>2. AppendText(RecordOf(o, prev[o]), TRUE) \in Seq(Line)
    BY <2>1, AppendCases
  <2> QED
    BY <1>4, <2>2 DEF Write, Stages
<1>5. ASSUME NEW o \in Ops, Tear(o) PROVE TypeOK'
  <2>1. PICK r \in {Fragment, RecordOf(o, prev[o])} : log' = AppendText(r, FALSE)
    BY <1>5 DEF Tear
  <2>2. r \in [op : Ops \cup {None}, prev : Ops \cup {None}, text : {"fragment", "record"}]
    BY <2>1 DEF RecordOf, Fragment
  <2>3. log' \in Seq(Line)
    BY <2>1, <2>2, AppendCases
  <2>4. tears' \in 0..MaxTears
    BY <1>5, MaxTearsIsNat DEF Tear
  <2>5. stage' \in [Ops -> Stages]
    BY <1>5 DEF Tear, Stages
  <2> QED
    BY <1>5, <2>3, <2>4, <2>5 DEF Tear
<1>6. ASSUME NEW o \in Ops, RefuseUnreadable(o) \/ Fail(o) PROVE TypeOK'
  BY <1>6 DEF RefuseUnreadable, Fail, Stages
<1> QED
  BY <1>1, <1>2, <1>3, <1>4, <1>5, <1>6 DEF Next

\* Every variable keeps its type, whatever stops part-way.
THEOREM TypeCorrect == Spec => []TypeOK
<1>1. Init => TypeOK
  BY MaxTearsIsNat DEF Init, TypeOK, Stages
<1> QED
  BY <1>1, TypeStep, PTL DEF Spec

(***************************************************************************)
(* The hash chain                                                          *)
(***************************************************************************)
\* Appends in flight together know of each other, and an append whose hash is
\* no longer that of the last record has raced the append that wrote it.
Racing == \A o, q \in InFlight : o # q => {o, q} \in overlap
OutdatedRaced ==
  \A o \in Ops :
    stage[o] = "writing" /\ log # <<>> /\ Readable(Len(log)) /\ prev[o] # log[Len(log)].op
    => {log[Len(log)].op, o} \in overlap
ChainInv == BrokenLinkMeansOverlap /\ Racing /\ OutdatedRaced

\* A line or a fragment of one that is about to be written keeps the chain.
LEMMA AppendKeepsChain ==
  ASSUME TypeOK, ChainInv, NEW o \in Ops, stage[o] = "writing",
         NEW r \in {Fragment, RecordOf(o, prev[o])}, NEW e \in BOOLEAN,
         log' = AppendText(r, e), overlap' = overlap
  PROVE  /\ BrokenLinkMeansOverlap'
         /\ log' # <<>> /\ Readable(Len(log))' => log'[Len(log')].op = o
<1>1. /\ r \in [op : Ops \cup {None}, prev : Ops \cup {None}, text : {"fragment", "record"}]
      /\ log \in Seq(Line)
  BY DEF TypeOK, RecordOf, Fragment
<1>2. CASE OpenTail
  <2>1. /\ Len(log) \in Nat \ {0} /\ Len(log') = Len(log)
        /\ log'[Len(log)] = Ended(Fragment, e)
        /\ \A n \in 1..(Len(log) - 1) : log'[n] = log[n]
    BY <1>1, <1>2, AppendCases
  <2>2. ~Readable(Len(log))'
    BY <2>1 DEF Readable, Ended, Fragment
  <2>3. ASSUME NEW n \in 2..Len(log'), Readable(n - 1)', Readable(n)',
               log'[n].prev # log'[n - 1].op
        PROVE  {log'[n - 1].op, log'[n].op} \in overlap'
    <3>1. n # Len(log)
      BY <2>1, <2>2, <2>3
    <3>2. n \in 2..Len(log) /\ log'[n] = log[n] /\ log'[n - 1] = log[n - 1]
      BY <2>1, <3>1
    <3> QED
      BY <2>3, <3>2 DEF ChainInv, BrokenLinkMeansOverlap, Readable
  <2> QED
    BY <2>1, <2>2, <2>3 DEF BrokenLinkMeansOverlap
<1>3. CASE ~OpenTail
  <2>1. log' = Append(log, Ended(r, e)) /\ Ended(r, e) \in Line
    BY <1>1, <1>3, AppendCases
  <2>2. /\ Len(log) \in Nat /\ Len(log') = Len(log) + 1
        /\ log'[Len(log')] = Ended(r, e)
        /\ \A n \in 1..Len(log) : log'[n] = log[n]
    BY <1>1, <2>1
  <2>3. Readable(Len(log))' => log'[Len(log')].op = o /\ log'[Len(log')].prev = prev[o]
    BY <2>2 DEF Readable, Ended, Fragment, RecordOf
  <2>4. ASSUME NEW n \in 2..Len(log'), Readable(n - 1)', Readable(n)',
               log'[n].prev # log'[n - 1].op
        PROVE  {log'[n - 1].op, log'[n].op} \in overlap'
    <3>1. CASE n = Len(log')
      <4>1. n - 1 = Len(log) /\ log # <<>> /\ log'[n - 1] = log[Len(log)]
        BY <1>1, <2>2, <3>1
      <4>2. Readable(Len(log)) /\ prev[o] # log[Len(log)].op
        BY <2>3, <2>4, <3>1, <4>1 DEF Readable
      <4>3. {log[Len(log)].op, o} \in overlap
        BY <4>1, <4>2 DEF ChainInv, OutdatedRaced
      <4> QED
        BY <2>3, <2>4, <3>1, <4>1, <4>3
    <3>2. CASE n # Len(log')
      <4>1. n \in 2..Len(log) /\ log'[n] = log[n] /\ log'[n - 1] = log[n - 1]
        BY <2>2, <3>2
      <4> QED
        BY <2>4, <4>1 DEF ChainInv, BrokenLinkMeansOverlap, Readable
    <3> QED
      BY <3>1, <3>2
  <2> QED
    BY <2>3, <2>4 DEF BrokenLinkMeansOverlap
<1> QED
  BY <1>2, <1>3

\* Writing or tearing a line: the append leaves, those still in flight raced it.
LEMMA WriteKeepsChain ==
  ASSUME TypeOK, ChainInv, NEW o \in Ops, Write(o) \/ Tear(o)
  PROVE  ChainInv'
<1>1. /\ stage[o] = "writing" /\ overlap' = overlap /\ prev' = prev
      /\ stage' \in [Ops -> Stages]
      /\ \A q \in Ops : stage'[q] \in {"reading", "writing"} => q # o /\ stage'[q] = stage[q]
  BY DEF Write, Tear, TypeOK, Stages
<1>2. PICK r \in {Fragment, RecordOf(o, prev[o])}, e \in BOOLEAN : log' = AppendText(r, e)
  BY DEF Write, Tear
<1>3. /\ BrokenLinkMeansOverlap'
      /\ log' # <<>> /\ Readable(Len(log))' => log'[Len(log')].op = o
  BY <1>1, <1>2, AppendKeepsChain
<1>4. Racing'
  BY <1>1 DEF ChainInv, Racing, InFlight
<1>5. OutdatedRaced'
  <2> SUFFICES ASSUME NEW q \in Ops, stage'[q] = "writing", log' # <<>>, Readable(Len(log))'
               PROVE  {log'[Len(log')].op, q} \in overlap'
    BY DEF OutdatedRaced
  <2>1. o \in InFlight /\ q \in InFlight /\ o # q
    BY <1>1 DEF InFlight
  <2> QED
    BY <1>1, <1>3, <2>1 DEF ChainInv, Racing
<1> QED
  BY <1>3, <1>4, <1>5 DEF ChainInv

LEMMA ChainStep == TypeOK /\ ChainInv /\ [Next]_vars => ChainInv'
<1> SUFFICES ASSUME TypeOK, ChainInv, [Next]_vars PROVE ChainInv'
  OBVIOUS
<1> USE DEF ChainInv
<1>1. CASE UNCHANGED vars
  BY <1>1 DEF vars, BrokenLinkMeansOverlap, Racing, OutdatedRaced, InFlight, Readable
<1>2. ASSUME NEW o \in Ops, Begin(o) PROVE ChainInv'
  <2>1. BrokenLinkMeansOverlap'
    BY <1>2 DEF Begin, BrokenLinkMeansOverlap, Readable
  <2>2. \A q \in InFlight' : q \in InFlight \/ q = o
    BY <1>2 DEF Begin, InFlight, TypeOK
  <2>3. \A q \in InFlight : {o, q} \in overlap' /\ {q, o} \in overlap'
    BY <1>2 DEF Begin
  <2>4. Racing'
    BY <1>2, <2>2, <2>3 DEF Begin, Racing
  <2>5. OutdatedRaced'
    BY <1>2 DEF Begin, OutdatedRaced, Readable, TypeOK
  <2> QED
    BY <2>1, <2>4, <2>5
<1>3. ASSUME NEW o \in Ops, ReadPrevious(o) PROVE ChainInv'
  <2>1. BrokenLinkMeansOverlap'
    BY <1>3 DEF ReadPrevious, BrokenLinkMeansOverlap, Readable
  <2>2. Racing'
    BY <1>3 DEF ReadPrevious, Racing, InFlight, TypeOK
  <2>3. OutdatedRaced'
    BY <1>3 DEF ReadPrevious, OutdatedRaced, Readable, TypeOK
  <2> QED
    BY <2>1, <2>2, <2>3
<1>4. ASSUME NEW o \in Ops, Write(o) \/ Tear(o) PROVE ChainInv'
  BY <1>4, WriteKeepsChain
<1>5. ASSUME NEW o \in Ops, RefuseUnreadable(o) \/ Fail(o) PROVE ChainInv'
  <2>1. BrokenLinkMeansOverlap'
    BY <1>5 DEF RefuseUnreadable, Fail, BrokenLinkMeansOverlap, Readable
  <2>2. Racing'
    BY <1>5 DEF RefuseUnreadable, Fail, Racing, InFlight, TypeOK
  <2>3. OutdatedRaced'
    BY <1>5 DEF RefuseUnreadable, Fail, OutdatedRaced, Readable, TypeOK
  <2> QED
    BY <2>1, <2>2, <2>3
<1> QED
  BY <1>1, <1>2, <1>3, <1>4, <1>5 DEF Next

\* Links break only between appends that overlapped.
THEOREM OnlyRacesBreakLinks == Spec => []BrokenLinkMeansOverlap
<1>1. Init => ChainInv
  BY DEF Init, ChainInv, BrokenLinkMeansOverlap, Racing, OutdatedRaced, InFlight
<1>2. ChainInv => BrokenLinkMeansOverlap
  BY DEF ChainInv
<1> QED
  BY <1>1, <1>2, TypeCorrect, ChainStep, PTL DEF Spec

(***************************************************************************)
(* Tears and the records they cost                                         *)
(***************************************************************************)
\* The appends that were reported as written and are not in the file.
LostOps == {o \in Ops : Lost(o)}

\* A line left open is worth nothing: whoever tore it reported a failure.  So a
\* tear not yet paid for is an open line, and the next append pays.
OpenTailFailed ==
  OpenTail => \A o \in Ops : log[Len(log)].op = o => stage[o] = "failed"
TearsPay ==
  /\ IsFiniteSet(LostOps)
  /\ Cardinality(LostOps) + (IF OpenTail THEN 1 ELSE 0) <= tears
LossInv == OpenTailFailed /\ TearsPay

\* A step that leaves the file alone and lets no append be written.
LEMMA QuietKeepsLosses ==
  ASSUME TypeOK, LossInv, log' = log, tears' = tears,
         \A o \in Ops : /\ stage'[o] = "written" => stage[o] = "written"
                        /\ stage[o] = "failed" => stage'[o] = "failed"
  PROVE  LossInv'
<1>1. OpenTailFailed'
  BY DEF LossInv, OpenTailFailed, OpenTail
<1>2. LostOps' \subseteq LostOps
  BY DEF LostOps, Lost, Readable
<1>3. IsFiniteSet(LostOps') /\ Cardinality(LostOps') <= Cardinality(LostOps)
  BY <1>2, FS_Subset DEF LossInv, TearsPay
<1>4. Cardinality(LostOps) \in Nat /\ Cardinality(LostOps') \in Nat
  BY <1>3, FS_CardinalityType DEF LossInv, TearsPay
<1>5. OpenTail' <=> OpenTail
  BY DEF OpenTail
<1> QED
  BY <1>1, <1>3, <1>4, <1>5 DEF LossInv, TearsPay, TypeOK

\* A line that is written or torn: on an open line it costs that line, which
\* nobody counts on; elsewhere it costs nothing.
LEMMA AppendKeepsLosses ==
  ASSUME TypeOK, LossInv, NEW o \in Ops, Write(o) \/ Tear(o)
  PROVE  LossInv'
<1>1. PICK r \in {Fragment, RecordOf(o, prev[o])}, e \in BOOLEAN :
           /\ log' = AppendText(r, e)
           /\ \/ /\ e /\ r = RecordOf(o, prev[o]) /\ stage' = [stage EXCEPT ![o] = "written"]
                 /\ tears' = tears
              \/ /\ ~e /\ stage' = [stage EXCEPT ![o] = "failed"]
                 /\ tears' = tears + 1
  BY DEF Write, Tear
<1>2. /\ stage[o] = "writing"
      /\ \A q \in Ops : q # o => stage'[q] = stage[q]
      /\ stage'[o] = IF e THEN "written" ELSE "failed"
  BY <1>1 DEF Write, Tear, TypeOK
<1>3. /\ r \in [op : Ops \cup {None}, prev : Ops \cup {None}, text : {"fragment", "record"}]
      /\ log \in Seq(Line)
  BY DEF TypeOK, RecordOf, Fragment
<1>4. /\ log' # <<>> /\ Len(log') \in Nat /\ log'[Len(log')].ended = e
      /\ log'[Len(log')].op \in {o, None}
  <2>1. CASE OpenTail
    <3>1. /\ Len(log) \in Nat \ {0} /\ Len(log') = Len(log)
          /\ log'[Len(log)] = Ended(Fragment, e)
      BY <1>1, <1>3, <2>1, AppendCases
    <3> QED
      BY <3>1 DEF Ended, Fragment
  <2>2. CASE ~OpenTail
    <3>1. log' = Append(log, Ended(r, e)) /\ Ended(r, e) \in Line
      BY <1>1, <1>3, <2>2, AppendCases
    <3>2. Len(log') = Len(log) + 1 /\ log'[Len(log')] = Ended(r, e) /\ Len(log) \in Nat
      BY <1>3, <3>1
    <3> QED
      BY <3>1, <3>2 DEF Ended, Fragment, RecordOf
  <2> QED
    BY <2>1, <2>2
<1>5. OpenTail' <=> ~e
  BY <1>4 DEF OpenTail
<1>6. OpenTailFailed'
  BY <1>2, <1>4, <1>5, NoneIsNoOp DEF OpenTailFailed
<1>7. /\ Cardinality(LostOps) \in Nat /\ IsFiniteSet(LostOps)
      /\ Cardinality(LostOps) + (IF OpenTail THEN 1 ELSE 0) <= tears
  BY FS_CardinalityType DEF LossInv, TearsPay
<1>8. CASE OpenTail
  <2>1. /\ Len(log) \in Nat \ {0} /\ Len(log') = Len(log)
        /\ \A n \in 1..(Len(log) - 1) : log'[n] = log[n]
    BY <1>1, <1>3, <1>8, AppendCases
  <2>2. ASSUME NEW q \in LostOps' PROVE q \in LostOps \/ (q = o /\ e)
    <3>1. q \in Ops /\ stage'[q] = "written"
      BY DEF LostOps, Lost
    <3>2. CASE q # o
      <4>1. stage[q] = "written" /\ log[Len(log)].op # q
        BY <1>2, <1>8, <3>1, <3>2 DEF LossInv, OpenTailFailed
      <4>2. \A n \in 1..(Len(log) - 1) : Readable(n) => log[n].op # q
        BY <2>1 DEF LostOps, Lost, Readable
      <4> QED
        BY <2>1, <3>1, <4>1, <4>2 DEF LostOps, Lost
    <3> QED
      BY <1>2, <3>1, <3>2
  <2>3. /\ IsFiniteSet(LostOps') /\ Cardinality(LostOps') \in Nat
        /\ Cardinality(LostOps') <= Cardinality(LostOps) + (IF e THEN 1 ELSE 0)
    <3>1. CASE e
      <4>1. LostOps' \in SUBSET (LostOps \cup {o})
        BY <2>2
      <4>2. /\ IsFiniteSet(LostOps \cup {o})
            /\ Cardinality(LostOps \cup {o}) \in Nat
            /\ Cardinality(LostOps \cup {o}) <= Cardinality(LostOps) + 1
        <5>1. /\ IsFiniteSet(LostOps \cup {o})
              /\ \/ Cardinality(LostOps \cup {o}) = Cardinality(LostOps)
                 \/ Cardinality(LostOps \cup {o}) = Cardinality(LostOps) + 1
          BY <1>7, FS_AddElement, Zenon
        <5> QED
          BY <1>7, <5>1
      <4>3. IsFiniteSet(LostOps') /\ Cardinality(LostOps') <= Cardinality(LostOps \cup {o})
        BY <4>1, <4>2, FS_Subset
      <4> QED
        BY <1>7, <3>1, <4>2, <4>3, FS_CardinalityType
    <3>2. CASE ~e
      <4>1. LostOps' \in SUBSET LostOps
        BY <2>2, <3>2
      <4>2. IsFiniteSet(LostOps') /\ Cardinality(LostOps') <= Cardinality(LostOps)
        BY <1>7, <4>1, FS_Subset
      <4> QED
        BY <1>7, <3>2, <4>2, FS_CardinalityType
    <3> QED
      BY <3>1, <3>2
  <2>4. Cardinality(LostOps') + (IF OpenTail' THEN 1 ELSE 0) <= tears'
    BY <1>1, <1>5, <1>7, <1>8, <2>3 DEF TypeOK
  <2> QED
    BY <1>6, <2>3, <2>4 DEF LossInv, TearsPay
<1>9. CASE ~OpenTail
  <2>1. log' = Append(log, Ended(r, e)) /\ Ended(r, e) \in Line
    BY <1>1, <1>3, <1>9, AppendCases
  <2>2. /\ Len(log) \in Nat /\ Len(log') = Len(log) + 1 /\ log'[Len(log')] = Ended(r, e)
        /\ \A n \in 1..Len(log) : n \in 1..Len(log') /\ log'[n] = log[n]
    BY <1>3, <2>1
  <2>3. ASSUME NEW q \in LostOps' PROVE q \in LostOps
    <3>1. q \in Ops /\ stage'[q] = "written"
      BY DEF LostOps, Lost
    <3>2. q # o
      <4>1. SUFFICES ASSUME q = o PROVE FALSE
        OBVIOUS
      <4>2. e /\ r = RecordOf(o, prev[o])
        BY <1>1, <1>2, <3>1, <4>1
      <4>3. Readable(Len(log))' /\ log'[Len(log')].op = o
        BY <2>2, <4>2 DEF Readable, Ended, RecordOf
      <4>4. Len(log') \in 1..Len(log')
        BY <2>2
      <4> QED
        BY <4>1, <4>3, <4>4 DEF LostOps, Lost, Readable
    <3>3. stage[q] = "written" /\ \A n \in 1..Len(log) : Readable(n) => log[n].op # q
      BY <1>2, <2>2, <3>1, <3>2 DEF LostOps, Lost, Readable
    <3> QED
      BY <3>1, <3>3 DEF LostOps, Lost
  <2>4. LostOps' \in SUBSET LostOps
    BY <2>3
  <2>5. /\ IsFiniteSet(LostOps') /\ Cardinality(LostOps') \in Nat
        /\ Cardinality(LostOps') <= Cardinality(LostOps)
    BY <1>7, <2>4, FS_Subset, FS_CardinalityType
  <2>6. Cardinality(LostOps') + (IF OpenTail' THEN 1 ELSE 0) <= tears'
    BY <1>1, <1>5, <1>7, <1>9, <2>5 DEF TypeOK
  <2> QED
    BY <1>6, <2>5, <2>6 DEF LossInv, TearsPay
<1> QED
  BY <1>8, <1>9

LEMMA LossStep == TypeOK /\ LossInv /\ [Next]_vars => LossInv'
<1> SUFFICES ASSUME TypeOK, LossInv, [Next]_vars PROVE LossInv'
  OBVIOUS
<1>1. ASSUME NEW o \in Ops, Begin(o) \/ ReadPrevious(o) \/ RefuseUnreadable(o) \/ Fail(o)
      PROVE  LossInv'
  <2>1. /\ log' = log /\ tears' = tears
        /\ \A q \in Ops : /\ stage'[q] = "written" => stage[q] = "written"
                          /\ stage[q] = "failed" => stage'[q] = "failed"
    BY <1>1 DEF Begin, ReadPrevious, RefuseUnreadable, Fail, TypeOK, Stages
  <2> QED
    BY <2>1, QuietKeepsLosses
<1>2. ASSUME NEW o \in Ops, Write(o) \/ Tear(o) PROVE LossInv'
  BY <1>2, AppendKeepsLosses
<1>3. CASE UNCHANGED vars
  BY <1>3, QuietKeepsLosses DEF vars
<1> QED
  BY <1>1, <1>2, <1>3 DEF Next

\* Each append that stops part-way costs at most one record that was reported
\* as written, and without one none is lost.
THEOREM TearsBoundLosses == Spec => []LostRecordsAreTorn
<1>1. Init => LossInv
  <2> SUFFICES ASSUME Init PROVE LossInv
    OBVIOUS
  <2>1. LostOps = {} /\ ~OpenTail
    BY DEF Init, LostOps, Lost, OpenTail
  <2> QED
    BY <2>1, FS_EmptySet DEF Init, LossInv, OpenTailFailed, TearsPay
<1>2. TypeOK /\ LossInv => LostRecordsAreTorn
  <2> SUFFICES ASSUME TypeOK, LossInv PROVE Cardinality(LostOps) <= tears
    BY DEF LostRecordsAreTorn, LostOps
  <2>1. Cardinality(LostOps) \in Nat
    BY FS_CardinalityType DEF LossInv, TearsPay
  <2> QED
    BY <2>1 DEF LossInv, TearsPay, TypeOK
<1> QED
  BY <1>1, <1>2, TypeCorrect, LossStep, PTL DEF Spec

\* A log whose last line is damaged is not written to by an append that starts
\* after the damage: only one already holding a hash still can.
THEOREM DamageStops == Spec => DamageStopsTheLog
<1>1. [Next]_vars =>
        [(/\ log # <<>> /\ ~Readable(Len(log))
          /\ \A o \in Ops : stage[o] # "writing") => log' = log]_vars
  BY DEF Next, Begin, ReadPrevious, RefuseUnreadable, Write, Tear, Fail, vars
<1> QED
  BY <1>1, PTL DEF Spec, DamageStopsTheLog
=============================================================================
