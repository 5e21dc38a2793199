------------------------------ MODULE AuditLog ------------------------------
(***************************************************************************)
(* The hash-chained audit log (src/audit/auditLogger.ts).  Every CLI       *)
(* command that decides something appends one record to the same JSONL     *)
(* file.  An append reads the hash of the last line, puts it in the new    *)
(* record and appends the line; nothing locks the file between the two.    *)
(*                                                                         *)
(* A record's hash covers its unique decision id and its previous hash, so *)
(* the operation that wrote a record stands for the record's hash.         *)
(***************************************************************************)
EXTENDS Naturals, Sequences, FiniteSets

CONSTANTS
  Ops,        \* append operations: one per call of appendAuditRecord
  MaxTears,   \* bound: appends that stop part-way (a full disk, a power loss)
  None        \* no previous hash: the field is left out

ASSUME NoneIsNoOp == None \notin Ops
ASSUME MaxTearsIsNat == MaxTears \in Nat

VARIABLES
  log,      \* the file: a sequence of lines
  stage,    \* stage[o]: how far operation o has come
  prev,     \* prev[o]: the previous hash operation o has read
  tears,    \* number of appends that stopped part-way so far
  overlap   \* history: pairs of operations that were in flight together

vars == <<log, stage, prev, tears, overlap>>

Stages == {"waiting", "reading", "writing", "written", "failed"}
InFlight == {o \in Ops : stage[o] \in {"reading", "writing"}}

(***************************************************************************)
(* A line holds a record, or text that is no JSON object.  Only the last   *)
(* line can lack its newline; it then is a record whose text is complete   *)
(* or a fragment.                                                          *)
(***************************************************************************)
Fragment == [op |-> None, prev |-> None, text |-> "fragment"]
RecordOf(o, h) == [op |-> o, prev |-> h, text |-> "record"]
Line == [op : Ops \cup {None}, prev : Ops \cup {None},
         text : {"fragment", "record"}, ended : BOOLEAN]

Ended(r, e) == [op |-> r.op, prev |-> r.prev, text |-> r.text, ended |-> e]
Readable(n) == log[n].text = "record"
OpenTail == log # <<>> /\ ~log[Len(log)].ended

\* The file is opened with a fresh handle and truncated before the write.
TruncatingAppend(r, e) == <<Ended(r, e)>>

\* appendFile: text added after an unterminated line becomes part of that
\* line, and the two texts together are no JSON object.
AppendText(r, e) ==
  IF OpenTail
  THEN [log EXCEPT ![Len(log)] = Ended(Fragment, e)]
  ELSE Append(log, Ended(r, e))

-----------------------------------------------------------------------------
(* Faulty variants of actions below, one per plausible bug. *)

\* The hash is that of the first line.
ReadFirstLine(o) ==
  /\ stage[o] = "reading"
  /\ log # <<>> => Readable(Len(log))
  /\ prev' = [prev EXCEPT ![o] = IF log = <<>> THEN None ELSE log[1].op]
  /\ stage' = [stage EXCEPT ![o] = "writing"]
  /\ UNCHANGED <<log, tears, overlap>>

\* The previous line is taken for its hash.
ReadWholeLine(o) ==
  /\ stage[o] = "reading"
  /\ log # <<>> => Readable(Len(log))
  /\ prev' = [prev EXCEPT ![o] = IF log = <<>> THEN None ELSE log[Len(log)]]
  /\ stage' = [stage EXCEPT ![o] = "writing"]
  /\ UNCHANGED <<log, tears, overlap>>

\* A last line that is no JSON counts as an empty log.
IgnoreUnreadable(o) ==
  /\ stage[o] = "reading"
  /\ log # <<>> /\ ~Readable(Len(log))
  /\ stage' = [stage EXCEPT ![o] = "written"]
  /\ log' = AppendText(RecordOf(o, None), TRUE)
  /\ UNCHANGED <<prev, tears, overlap>>

-----------------------------------------------------------------------------
Init ==
  /\ log = <<>>
  /\ stage = [o \in Ops |-> "waiting"]
  /\ prev = [o \in Ops |-> None]
  /\ tears = 0
  /\ overlap = {}

\* appendAuditRecord is called and the audit directory exists afterwards.
Begin(o) ==
  /\ stage[o] = "waiting"
  /\ stage' = [stage EXCEPT ![o] = "reading"]
  /\ overlap' = overlap \cup {{o, q} : q \in InFlight}
  /\ UNCHANGED <<log, prev, tears>>

\* readPreviousRecordHash: no file or no line gives no hash, a last line that
\* is a record gives its hash.
ReadPrevious(o) ==
  /\ stage[o] = "reading"
  /\ log # <<>> => Readable(Len(log))
  /\ prev' = [prev EXCEPT ![o] = IF log = <<>> THEN None ELSE log[Len(log)].op]
  /\ stage' = [stage EXCEPT ![o] = "writing"]
  /\ UNCHANGED <<log, tears, overlap>>

\* readPreviousRecordHash: JSON.parse throws on a last line that is no JSON,
\* and the append is refused with AUDIT_RECORD_VALIDATION_ERROR.
RefuseUnreadable(o) ==
  /\ stage[o] = "reading"
  /\ log # <<>> /\ ~Readable(Len(log))
  /\ stage' = [stage EXCEPT ![o] = "failed"]
  /\ UNCHANGED <<log, prev, tears, overlap>>

\* appendFile succeeds and the record is reported as written.
Write(o) ==
  /\ stage[o] = "writing"
  /\ log' = AppendText(RecordOf(o, prev[o]), TRUE)
  /\ stage' = [stage EXCEPT ![o] = "written"]
  /\ UNCHANGED <<prev, tears, overlap>>

\* The write stops part-way: a fragment of the record, or all of it without
\* the newline, stays at the end of the file.
Tear(o) ==
  /\ stage[o] = "writing"
  /\ tears < MaxTears
  /\ tears' = tears + 1
  /\ \E r \in {Fragment, RecordOf(o, prev[o])} : log' = AppendText(r, FALSE)
  /\ stage' = [stage EXCEPT ![o] = "failed"]
  /\ UNCHANGED <<prev, overlap>>

\* The directory or the file cannot be used, the record fails its schema, or
\* the process dies: the operation ends and the file is as it was.
Fail(o) ==
  /\ stage[o] \in {"waiting", "reading", "writing"}
  /\ stage' = [stage EXCEPT ![o] = "failed"]
  /\ UNCHANGED <<log, prev, tears, overlap>>

Next == \E o \in Ops :
  \/ Begin(o) \/ ReadPrevious(o) \/ RefuseUnreadable(o)
  \/ Write(o) \/ Tear(o) \/ Fail(o)

Spec == Init /\ [][Next]_vars

-----------------------------------------------------------------------------
(* Properties *)

\* Every variable has its type.
TypeOK ==
  /\ log \in Seq(Line)
  /\ stage \in [Ops -> Stages]
  /\ prev \in [Ops -> Ops \cup {None}]
  /\ tears \in 0..MaxTears
  /\ overlap \in SUBSET SUBSET Ops

\* Two neighbouring records whose link is broken were appended by operations
\* that ran at the same time: commands run one after another always chain,
\* whatever fails or stops part-way between them.
BrokenLinkMeansOverlap ==
  \A n \in 2..Len(log) :
    /\ Readable(n - 1)
    /\ Readable(n)
    /\ log[n].prev # log[n - 1].op
    => {log[n - 1].op, log[n].op} \in overlap

\* An append reported as written is in the file as a readable record, and
\* each append that stops part-way costs at most one record reported as
\* written: the next one, which lands on the line left open.
Lost(o) == /\ stage[o] = "written"
           /\ \A n \in 1..Len(log) : Readable(n) => log[n].op # o
LostRecordsAreTorn == Cardinality({o \in Ops : Lost(o)}) <= tears

\* Once the last line is unreadable and no append holds a previous hash, no
\* record is ever added: the log refuses to grow past damage it cannot link.
DamageStopsTheLog ==
  [][ (/\ log # <<>> /\ ~Readable(Len(log))
       /\ \A o \in Ops : stage[o] # "writing")
      => log' = log ]_vars

=============================================================================
