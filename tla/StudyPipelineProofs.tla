------------------------ MODULE StudyPipelineProofs ------------------------
(***************************************************************************)
(* Proofs about StudyPipeline.  The inductive invariant has one part per   *)
(* kind of script: what a running download, build or report may still      *)
(* write, and what the files that are up to date then hold.                *)
(***************************************************************************)
EXTENDS StudyPipeline, FiniteSetTheorems, SequenceTheorems, TLAPS

(***************************************************************************)
(* The inductive invariant                                                 *)
(***************************************************************************)
The(to) == CHOOSE v \in to : TRUE

RowsIn(to) == IF to # {} THEN UNION ToSet(The(to)) ELSE {}

Assigned(rows) == {r.trajectory : r \in rows}

Straight == build_for_samples(Archived)

SplitFiles == {"splits", "split_audit"}

(* What the build writes, and what is computed from its shards. *)
BuildFiles == {"shards", "combined", "audit"}
Downstream == SplitFiles \cup (RowFiles \ {"combined"}) \cup PairFiles \cup {"audit", "taxonomy", "quality"}

(* The content of f that the properties ask for. *)
Right(f, to) ==
    /\ f \in SplitFiles => The(to) = Assigned(StraightRows)
    /\ f \in RowFiles => The(to) = StraightRows
    /\ f \in PairFiles => The(to) = [heuristic |-> StraightRows, lightweight |-> StraightRows]
    /\ f = "taxonomy" => /\ The(to).blocking = {} => Straight.failed = {}
                         /\ The(to).documented = Straight.parsed \ Assigned(StraightRows)
    /\ f = "quality" /\ The(to).decision # "NOT_READY" =>
          Straight.failed = {} /\ Assigned(The(to).rows) = Assigned(StraightRows)
    /\ f = "audit" => /\ The(to).parsed = Straight.parsed /\ The(to).failed = Straight.failed
                      /\ The(to).with_prefix = Straight.with_prefix

DiskInv ==
    /\ disk = [f \in Files |-> disk[f]]
    /\ Has("plan") => Content("plan").samples = Archived

CombinedInv == "combined" \in fresh => Content("combined") = StraightRows

(* The audit commits the build. *)
AuditInv ==
    "audit" \in fresh =>
        /\ shard_rows = StraightRows
        /\ \A f \in Downstream \cap fresh : Right(f, disk[f])

(* The gate's report and the taxonomy it has read get old together. *)
QualityInv == "quality" \in fresh => \A f \in {"quality", "taxonomy"} : Right(f, disk[f])

IsWrites(writes) == writes \in Seq(ToSet(writes)) /\ writes # <<>>

DownloadWrites(writes) ==
    /\ IsWrites(writes)
    /\ \A i \in DOMAIN writes :
          /\ writes[i].file \in Archived \cup {"plan"}
          /\ writes[i].file = "plan" => The(writes[i].to).samples = Archived

(* The audit comes last; before it the last shard leaves all rows. *)
BuildWrites(writes) ==
    /\ IsWrites(writes)
    /\ \A i \in DOMAIN writes :
          /\ writes[i].file \in BuildFiles
          /\ writes[i].file = "audit" <=> i = Len(writes)
          /\ writes[i].file \in {"combined", "audit"} => Right(writes[i].file, writes[i].to)
          /\ writes[i].file = "shards" /\ (\A j \in DOMAIN writes : j > i => writes[j].file # "shards") =>
                RowsIn(writes[i].to) = StraightRows
    /\ (\A i \in DOMAIN writes : writes[i].file # "shards") => shard_rows = StraightRows

ReportWrites(reads, writes) ==
    /\ IsWrites(writes)
    /\ \A i \in DOMAIN writes :
          /\ writes[i].file \in Reports \ (BuildFiles \cup {"plan"})
          /\ writes[i].to # {}
          /\ writes[i].file = "quality" => {"audit", "taxonomy"} \subseteq reads
          /\ ("audit" \in fresh /\ reads \subseteq fresh) => Right(writes[i].file, writes[i].to)

JobInv ==
    \/ job = NoJob
    \/ /\ job = [reads |-> job.reads, writes |-> job.writes]
       /\ \/ DownloadWrites(job.writes)
          \/ BuildWrites(job.writes) /\ fresh \cap Downstream = {}
          \/ ReportWrites(job.reads, job.writes)

IInv == DiskInv /\ CombinedInv /\ AuditInv /\ QualityInv /\ JobInv

(***************************************************************************)
(* Files, and what is computed from what                                   *)
(***************************************************************************)
LEMMA TheOnly == ASSUME NEW v PROVE The({v}) = v
BY DEF The

LEMMA ReportNames ==
  /\ Downstream \cup BuildFiles \cup {"plan", "raw", "score_schema", "freeze", "summary", "recovery", "coverage"}
        \subseteq Reports
  /\ Reports \subseteq Files /\ Archived \subseteq Files
<1>1. \A i \in DOMAIN Order : Order[i][2] \in Reports
  BY DEF Reports
<1>2. /\ Order[1][2] = "raw" /\ Order[2][2] = "plan" /\ Order[3][2] = "audit" /\ Order[4][2] = "taxonomy"
      /\ Order[5][2] = "split_audit" /\ Order[6][2] = "quality" /\ Order[7][2] = "freeze"
      /\ Order[8][2] = "features" /\ Order[9][2] = "heuristic_metrics" /\ Order[10][2] = "lightweight_metrics"
      /\ Order[11][2] = "score_schema" /\ Order[12][2] = "thresholds" /\ Order[13][2] = "frontier"
      /\ Order[14][2] = "early" /\ Order[15][2] = "subgroups" /\ Order[16][2] = "summary"
  BY DEF Order
<1>3. DOMAIN Order = 1..16
  BY DEF Order
<1>4. {"raw", "plan", "audit", "taxonomy", "split_audit", "quality", "freeze", "features", "heuristic_metrics",
       "lightweight_metrics", "score_schema", "thresholds", "frontier", "early", "subgroups", "summary"}
         \subseteq Reports
  BY <1>1, <1>2, <1>3
<1>5. {"shards", "combined", "splits", "heuristic_scores", "lightweight_scores", "comparison", "decisions",
       "recovery", "coverage"} \subseteq Reports
  BY DEF Reports
<1> QED
  BY <1>4, <1>5 DEF Downstream, BuildFiles, SplitFiles, RowFiles, PairFiles, Files

LEMMA ReadersOf ==
  /\ \A t \in Archived \cup {"plan"} : t \in ReadBy["combined"] /\ t \in ReadBy["audit"]
  /\ "shards" \in ReadBy["audit"] /\ "audit" \in ReadBy["taxonomy"]
  /\ "audit" \in ReadBy["quality"] /\ "taxonomy" \in ReadBy["quality"]
  /\ \A f \in SplitFiles \cup {"quality"} : "shards" \in ReadBy[f]
  /\ \A f \in RowFiles \ {"combined"} : "shards" \in ReadBy[f]
  /\ "heuristic_metrics" \in ReadBy["comparison"]
  /\ \A f \in {"decisions", "thresholds", "frontier"} : "heuristic_scores" \in ReadBy[f]
  /\ \A f \in {"early", "subgroups"} : "decisions" \in ReadBy[f]
<1>1. Downstream \cup BuildFiles \subseteq Files
  BY ReportNames
<1> QED
  BY <1>1 DEF ReadBy, Downstream, BuildFiles, SplitFiles, RowFiles, PairFiles

(* Reach closes under one more step of itself. *)
IsReach(reach) ==
    /\ reach \in [Files -> SUBSET Files]
    /\ \A f \in Files : f \in reach[f]

LEMMA TwiceReach ==
  ASSUME NEW reach, IsReach(reach)
  PROVE  /\ IsReach(Twice(reach))
         /\ \A f \in Files : reach[f] \subseteq Twice(reach)[f]
         /\ \A f, g, h \in Files : g \in reach[f] /\ h \in reach[g] => h \in Twice(reach)[f]
<1>1. \A f \in Files : Twice(reach)[f] = UNION {reach[g] : g \in reach[f]}
  BY DEF Twice
<1>2. \A f, g, h \in Files : g \in reach[f] /\ h \in reach[g] => h \in Twice(reach)[f]
  BY <1>1
<1>3. \A f \in Files : reach[f] \subseteq Twice(reach)[f]
  BY <1>2 DEF IsReach
<1>4. Twice(reach) \in [Files -> SUBSET Files]
  BY DEF Twice, IsReach
<1> QED
  BY <1>2, <1>3, <1>4 DEF IsReach

LEMMA DirectReach ==
  /\ IsReach(Direct)
  /\ \A f, g \in Files : f \in ReadBy[g] => g \in Direct[f]
BY DEF Direct, IsReach

(* Every file of the build is older than an archive or the plan it was     *)
(* built from, every result older than the shards.                         *)
LEMMA WhatGetsOld ==
  /\ \A t \in Archived \cup {"plan"} : {"combined", "audit", "quality"} \subseteq Older(t)
  /\ "quality" \in Older("taxonomy")
  /\ Downstream \subseteq Older("shards")
<1> DEFINE D1 == Twice(Direct)
           D2 == Twice(D1)
           D3 == Twice(D2)
<1>1. IsReach(D1) /\ IsReach(D2) /\ IsReach(D3) /\ Descendants = Twice(D3)
  BY DirectReach, TwiceReach DEF Descendants
<1> HIDE DEF D1, D2, D3
<1>2. /\ \A f \in Files : Direct[f] \subseteq D1[f] /\ D1[f] \subseteq D2[f]
      /\ \A f \in Files : D2[f] \subseteq D3[f] /\ D3[f] \subseteq Descendants[f]
  BY <1>1, DirectReach, TwiceReach DEF D1, D2, D3
<1>3. \A f, g, h \in Files : g \in Direct[f] /\ h \in Direct[g] => h \in D1[f]
  BY DirectReach, TwiceReach DEF D1
<1>4. \A f, g, h \in Files : g \in D1[f] /\ h \in D1[g] => h \in D2[f]
  BY <1>1, TwiceReach DEF D2
<1>5. Downstream \cup BuildFiles \cup {"plan"} \cup Archived \subseteq Files
  BY ReportNames
<1>6. \A t \in Archived \cup {"plan"} : t # "combined" /\ t # "audit" /\ t # "quality"
  BY ReportNames, ArchivesAreNoReports DEF BuildFiles, Downstream
<1>7. \A t \in Archived \cup {"plan"} : "combined" \in Direct[t] /\ "audit" \in Direct[t]
  BY <1>5, ReadersOf, DirectReach DEF BuildFiles
<1>8. \A t \in Archived \cup {"plan"} : {"combined", "audit", "quality"} \subseteq Older(t)
  <2>1. "quality" \in Direct["audit"] /\ {"audit", "quality"} \subseteq Files
    BY <1>5, ReadersOf, DirectReach DEF Downstream
  <2>2. \A t \in Archived \cup {"plan"} : "quality" \in D1[t]
    BY <1>3, <1>5, <1>7, <2>1
  <2> QED
    BY <1>2, <1>5, <1>6, <1>7, <2>2 DEF Older
<1>9. \A f \in SplitFiles \cup (RowFiles \ {"combined"}) \cup {"audit", "quality"} : f \in Direct["shards"]
  BY <1>5, ReadersOf, DirectReach DEF Downstream, BuildFiles
<1>10. \A f \in {"taxonomy", "comparison", "decisions", "thresholds", "frontier"} : f \in D1["shards"]
  <2>1. "taxonomy" \in Direct["audit"] /\ "comparison" \in Direct["heuristic_metrics"]
    BY <1>5, ReadersOf, DirectReach DEF Downstream, PairFiles, RowFiles
  <2>2. \A f \in {"decisions", "thresholds", "frontier"} : f \in Direct["heuristic_scores"]
    BY <1>5, ReadersOf, DirectReach DEF Downstream, PairFiles, RowFiles
  <2> QED
    BY <1>3, <1>5, <1>9, <2>1, <2>2 DEF Downstream, BuildFiles, PairFiles, RowFiles
<1>11. \A f \in {"early", "subgroups"} : f \in D2["shards"]
  <2>1. \A f \in {"early", "subgroups"} : f \in D1["decisions"]
    BY <1>2, <1>5, ReadersOf, DirectReach DEF Downstream, PairFiles
  <2> QED
    BY <1>4, <1>5, <1>10, <2>1 DEF Downstream, BuildFiles, PairFiles
<1>12. Downstream \subseteq Descendants["shards"]
  BY <1>2, <1>5, <1>9, <1>10, <1>11 DEF Downstream, BuildFiles, PairFiles
<1>13. "shards" \notin Downstream
  BY DEF Downstream, SplitFiles, RowFiles, PairFiles
<1>14. "quality" \in Older("taxonomy")
  <2>1. "quality" \in Direct["taxonomy"] /\ "taxonomy" \in Files
    BY <1>5, ReadersOf, DirectReach DEF Downstream
  <2> QED
    BY <1>2, <2>1 DEF Older
<1> QED
  BY <1>8, <1>12, <1>13, <1>14 DEF Older

(***************************************************************************)
(* One write of a running script                                           *)
(***************************************************************************)
Perform(reads, writes) ==
    /\ disk' = [disk EXCEPT ![writes[1].file] = writes[1].to]
    /\ fresh' = FreshAfter(writes[1], reads)
    /\ job' = IF Len(writes) = 1 THEN NoJob ELSE [reads |-> reads, writes |-> Tail(writes)]

LEMMA WritesAre ==
  ASSUME NEW writes, IsWrites(writes)
  PROVE  Len(writes) \in Nat \ {0} /\ DOMAIN writes = 1..Len(writes) /\ 1 \in DOMAIN writes
BY EmptySeq, LenProperties DEF IsWrites

LEMMA IsWritesFrom ==
  ASSUME NEW S, NEW writes \in Seq(S), writes # <<>>
  PROVE  IsWrites(writes)
<1>1. Len(writes) \in Nat /\ DOMAIN writes = 1..Len(writes)
  BY LenProperties
<1>2. writes = [i \in 1..Len(writes) |-> writes[i]]
  BY LenProperties
<1>3. \A i \in 1..Len(writes) : writes[i] \in ToSet(writes)
  BY <1>1 DEF ToSet
<1>4. writes \in Seq(ToSet(writes))
  BY <1>1, <1>2, <1>3
<1> QED
  BY <1>4 DEF IsWrites

LEMMA RestOfWrites ==
  ASSUME NEW writes, IsWrites(writes), Len(writes) # 1
  PROVE  /\ IsWrites(Tail(writes))
         /\ Len(Tail(writes)) = Len(writes) - 1
         /\ DOMAIN Tail(writes) = 1..(Len(writes) - 1)
         /\ \A i \in DOMAIN Tail(writes) : i + 1 \in DOMAIN writes /\ Tail(writes)[i] = writes[i + 1]
<1>1. Len(writes) \in Nat \ {0, 1} /\ DOMAIN writes = 1..Len(writes)
  BY WritesAre
<1>2. /\ Tail(writes) \in Seq(ToSet(writes))
      /\ Len(Tail(writes)) = Len(writes) - 1
      /\ \A i \in 1..Len(Tail(writes)) : Tail(writes)[i] = writes[i + 1]
  BY HeadTailProperties DEF IsWrites
<1>3. Tail(writes) # <<>>
  <2>1. Len(<<>>) = 0
    BY EmptySeq
  <2>2. Len(Tail(writes)) # 0
    BY <1>1, <1>2
  <2> QED
    BY <2>1, <2>2
<1>4. DOMAIN Tail(writes) = 1..Len(Tail(writes))
  BY <1>2, LenProperties
<1>5. IsWrites(Tail(writes))
  BY <1>2, <1>3, IsWritesFrom
<1>6. \A i \in DOMAIN Tail(writes) : i + 1 \in DOMAIN writes
  BY <1>1, <1>2, <1>4
<1> QED
  BY <1>1, <1>2, <1>4, <1>5, <1>6

(* Nothing a report writes, and no plan or build file, is an archive: the  *)
(* undisturbed run over the archives stays what it is.                     *)
LEMMA StraightFrame ==
  ASSUME \A t \in Archived : disk'[t] = disk[t]
  PROVE  Straight' = Straight /\ StraightRows' = StraightRows
<1>1. \A t \in Archived : Has(t)' = Has(t) /\ Content(t)' = Content(t)
  BY DEF Has, Content
<1>2. cached' = cached
  BY <1>1 DEF cached
<1>3. {t \in Archived \cap cached : Content(t) # "torn"}' = {t \in Archived \cap cached : Content(t) # "torn"}
  BY <1>1, <1>2
<1>4. Straight' = Straight
  BY <1>1, <1>3 DEF Straight, build_for_samples, has_prefixes, layout_family
<1> QED
  BY <1>4 DEF StraightRows, Straight

LEMMA Performed ==
  ASSUME DiskInv, NEW reads, NEW writes, IsWrites(writes), writes[1].file \in Files, Perform(reads, writes)
  PROVE  /\ disk' = [f \in Files |-> disk'[f]]
         /\ disk'[writes[1].file] = writes[1].to
         /\ \A f \in Files \ {writes[1].file} : disk'[f] = disk[f]
         /\ \A f \in fresh' : f \notin Older(writes[1].file) /\ (f # writes[1].file => f \in fresh)
         /\ writes[1].file \in fresh' => reads \subseteq fresh
BY DEF DiskInv, Perform, FreshAfter, Older

LEMMA RightFrame ==
  ASSUME Straight' = Straight, StraightRows' = StraightRows
  PROVE  \A f, to : Right(f, to)' <=> Right(f, to)
BY DEF Right, The, Assigned

LEMMA QualityFrame ==
  ASSUME QualityInv, Straight' = Straight /\ StraightRows' = StraightRows,
         "quality" \in fresh' => /\ "quality" \in fresh
                                 /\ \A f \in {"quality", "taxonomy"} : disk'[f] = disk[f]
  PROVE  QualityInv'
<1> SUFFICES ASSUME "quality" \in fresh', NEW f \in {"quality", "taxonomy"} PROVE Right(f, disk[f])'
  BY DEF QualityInv
<1>1. Right(f, disk'[f])
  BY DEF QualityInv
<1> QED
  BY <1>1 DEF Right, The, Assigned

(* A download leaves no file of the build fresh, and no gate's report.     *)
LEMMA DownloadStep ==
  ASSUME DiskInv, QualityInv, NEW reads, NEW writes, DownloadWrites(writes), Perform(reads, writes)
  PROVE  IInv'
<1>1. IsWrites(writes) /\ 1 \in DOMAIN writes
  BY WritesAre DEF DownloadWrites
<1>2. /\ writes[1].file \in Archived \cup {"plan"} /\ writes[1].file \in Files
      /\ writes[1].file = "plan" => The(writes[1].to).samples = Archived
  BY <1>1, ReportNames DEF DownloadWrites
<1>3. {"plan", "quality"} \subseteq Files /\ writes[1].file # "quality"
  BY <1>2, ReportNames, ArchivesAreNoReports DEF Downstream
<1>4. "combined" \notin fresh' /\ "audit" \notin fresh' /\ "quality" \notin fresh'
  BY <1>1, <1>2, Performed, WhatGetsOld
<1>5. DiskInv'
  <2>1. CASE writes[1].file = "plan"
    BY <1>1, <1>2, <2>1, Performed DEF DiskInv, Content, The
  <2>2. CASE writes[1].file # "plan"
    <3>1. disk'["plan"] = disk["plan"]
      BY <1>1, <1>2, <1>3, <2>2, Performed
    <3> QED
      BY <1>1, <1>2, <3>1, Performed DEF DiskInv, Content, Has
  <2> QED
    BY <2>1, <2>2
<1>6. QualityInv'
  BY <1>4 DEF QualityInv
<1>7. JobInv'
  <2>1. CASE Len(writes) = 1
    BY <2>1 DEF Perform, JobInv, NoJob
  <2>2. CASE Len(writes) # 1
    <3>1. job' = [reads |-> reads, writes |-> Tail(writes)]
      BY <2>2 DEF Perform
    <3>2. DownloadWrites(Tail(writes))
      BY <1>1, <2>2, RestOfWrites DEF DownloadWrites
    <3>3. job'.writes = Tail(writes) /\ job'.reads = reads
      BY <3>1
    <3>4. DownloadWrites(job.writes)'
      BY <3>2, <3>3 DEF DownloadWrites, IsWrites, The
    <3> QED
      BY <3>1, <3>3, <3>4 DEF JobInv
  <2> QED
    BY <2>1, <2>2
<1> QED
  BY <1>4, <1>5, <1>6, <1>7 DEF IInv, CombinedInv, AuditInv

(* A build makes its results old with the first shard it removes, and its  *)
(* audit fresh again when everything else is written.                      *)
LEMMA BuildStep ==
  ASSUME DiskInv, CombinedInv, QualityInv, NEW reads, NEW writes, BuildWrites(writes), Perform(reads, writes),
         writes[1].file = "shards" \/ fresh \cap Downstream = {}
  PROVE  IInv'
<1>1. IsWrites(writes) /\ 1 \in DOMAIN writes /\ Len(writes) \in Nat \ {0} /\ DOMAIN writes = 1..Len(writes)
  BY WritesAre DEF BuildWrites
<1>2. /\ writes[1].file \in BuildFiles
      /\ writes[1].file = "audit" <=> Len(writes) = 1
      /\ writes[1].file \in {"combined", "audit"} => Right(writes[1].file, writes[1].to)
  BY <1>1 DEF BuildWrites
<1>3. BuildFiles \cup Downstream \cup {"plan"} \cup Archived \subseteq Files
  BY ReportNames
<1>4. writes[1].file \notin Archived \cup {"plan", "quality"} /\ writes[1].file \in Files
  BY <1>2, <1>3, ReportNames, ArchivesAreNoReports DEF BuildFiles
<1>5. /\ disk' = [f \in Files |-> disk'[f]]
      /\ disk'[writes[1].file] = writes[1].to
      /\ \A f \in Files \ {writes[1].file} : disk'[f] = disk[f]
      /\ \A f \in fresh' : f \notin Older(writes[1].file) /\ (f # writes[1].file => f \in fresh)
  BY <1>1, <1>4, Performed
<1>6. Straight' = Straight /\ StraightRows' = StraightRows
  BY <1>3, <1>4, <1>5, StraightFrame
<1>7. DiskInv'
  BY <1>3, <1>4, <1>5 DEF DiskInv, Has, Content
<1>8. QualityInv'
  <2>1. {"quality", "taxonomy"} \subseteq Files \ {writes[1].file}
    BY <1>2, <1>3 DEF Downstream, BuildFiles
  <2> QED
    BY <1>5, <1>6, <2>1, QualityFrame
<1>9. CombinedInv'
  <2>1. CASE writes[1].file = "combined"
    BY <1>2, <1>5, <1>6, <2>1 DEF CombinedInv, Content, Right, RowFiles, The
  <2>2. CASE writes[1].file # "combined"
    BY <1>3, <1>5, <1>6, <2>2 DEF CombinedInv, Content, BuildFiles
  <2> QED
    BY <2>1, <2>2
<1>10. \A f \in fresh' \cap Downstream : f = "audit" /\ writes[1].file = "audit"
  <2>1. CASE writes[1].file = "shards"
    BY <1>5, <2>1, WhatGetsOld
  <2>2. CASE fresh \cap Downstream = {}
    <3>1. \A f \in fresh' \cap Downstream : f = writes[1].file
      BY <1>5, <2>2
    <3>2. "shards" \notin Downstream /\ "combined" \notin Downstream
      BY DEF Downstream, SplitFiles, RowFiles, PairFiles
    <3> QED
      BY <1>2, <3>1, <3>2 DEF BuildFiles
  <2> QED
    BY <2>1, <2>2
<1>11. AuditInv'
  <2> SUFFICES ASSUME "audit" \in fresh' PROVE (/\ shard_rows = StraightRows
                                                /\ \A f \in Downstream \cap fresh : Right(f, disk[f]))'
    BY DEF AuditInv
  <2>1. writes[1].file = "audit" /\ Len(writes) = 1
    BY <1>2, <1>10 DEF Downstream
  <2>2. \A i \in DOMAIN writes : writes[i].file # "shards"
    BY <1>1, <2>1
  <2>3. shard_rows = StraightRows
    BY <2>2 DEF BuildWrites
  <2>4. disk'["shards"] = disk["shards"]
    BY <1>3, <1>5, <2>1 DEF BuildFiles
  <2>5. shard_rows' = shard_rows
    BY <2>4 DEF shard_rows, Has, Content
  <2>6. Right("audit", disk["audit"])'
    BY <1>2, <1>5, <1>6, <2>1 DEF Right, SplitFiles, RowFiles, PairFiles, The
  <2>7. \A f \in (Downstream \cap fresh)' : Right(f, disk[f])'
    BY <1>10, <2>6
  <2> QED
    BY <1>6, <2>3, <2>5, <2>7
<1>12. JobInv'
  <2>1. CASE Len(writes) = 1
    BY <2>1 DEF Perform, JobInv, NoJob
  <2>2. CASE Len(writes) # 1
    <3> DEFINE rest == Tail(writes)
    <3>1. job' = [reads |-> reads, writes |-> rest]
      BY <2>2 DEF Perform
    <3>2. (fresh \cap Downstream)' = {}
      BY <1>2, <1>10, <2>2
    <3>3. /\ IsWrites(rest) /\ Len(rest) = Len(writes) - 1 /\ DOMAIN rest = 1..(Len(writes) - 1)
          /\ \A i \in DOMAIN rest : i + 1 \in DOMAIN writes /\ rest[i] = writes[i + 1]
      BY <1>1, <2>2, RestOfWrites
    <3> HIDE DEF rest
    <3>4. \A i \in DOMAIN rest :
             /\ rest[i].file \in BuildFiles
             /\ rest[i].file = "audit" <=> i = Len(rest)
             /\ rest[i].file \in {"combined", "audit"} => Right(rest[i].file, rest[i].to)'
      <4>1. \A i \in DOMAIN rest : rest[i].file \in {"combined", "audit"} => Right(rest[i].file, rest[i].to)
        BY <1>1, <3>3 DEF BuildWrites
      <4>2. \A f, to : Right(f, to)' <=> Right(f, to)
        BY <1>6, RightFrame
      <4> QED
        BY <1>1, <3>3, <4>1, <4>2 DEF BuildWrites
    <3>5. ASSUME NEW i \in DOMAIN rest, rest[i].file = "shards",
                 \A j \in DOMAIN rest : j > i => rest[j].file # "shards"
          PROVE  RowsIn(rest[i].to) = StraightRows'
      <4>1. \A j \in DOMAIN writes : j > i + 1 => j - 1 \in DOMAIN rest /\ rest[j - 1] = writes[j] /\ j - 1 > i
        BY <1>1, <3>3
      <4>2. \A j \in DOMAIN writes : j > i + 1 => writes[j].file # "shards"
        BY <3>5, <4>1
      <4> QED
        BY <1>6, <3>3, <3>5, <4>2 DEF BuildWrites
    <3>6. ASSUME \A i \in DOMAIN rest : rest[i].file # "shards"
          PROVE  shard_rows' = StraightRows'
      <4>1. \A j \in DOMAIN writes : j # 1 => j - 1 \in DOMAIN rest /\ rest[j - 1] = writes[j]
        BY <1>1, <3>3
      <4>2. \A j \in DOMAIN writes : j # 1 => writes[j].file # "shards"
        BY <3>6, <4>1
      <4>3. CASE writes[1].file = "shards"
        <5>1. RowsIn(writes[1].to) = StraightRows
          BY <1>1, <4>2, <4>3 DEF BuildWrites
        <5> QED
          BY <1>5, <1>6, <4>3, <5>1 DEF RowsIn, shard_rows, Has, Content, The
      <4>4. CASE writes[1].file # "shards"
        <5>1. shard_rows = StraightRows
          BY <4>2, <4>4 DEF BuildWrites
        <5>2. disk'["shards"] = disk["shards"]
          BY <1>3, <1>5, <4>4 DEF BuildFiles
        <5> QED
          BY <1>6, <5>1, <5>2 DEF shard_rows, Has, Content
      <4> QED
        BY <4>3, <4>4
    <3>7. job'.writes = rest /\ job'.reads = reads
      BY <3>1
    <3>8. BuildWrites(job.writes)'
      BY <3>3, <3>4, <3>5, <3>6, <3>7 DEF BuildWrites, RowsIn, The, IsWrites
    <3> QED
      BY <3>1, <3>2, <3>7, <3>8 DEF JobInv
  <2> QED
    BY <2>1, <2>2
<1> QED
  BY <1>7, <1>8, <1>9, <1>11, <1>12 DEF IInv

(* What a report writes beside an up-to-date audit was read beside it. *)
LEMMA ReportStep ==
  ASSUME DiskInv, CombinedInv, AuditInv, QualityInv,
         NEW reads, NEW writes, ReportWrites(reads, writes), Perform(reads, writes)
  PROVE  IInv'
<1>1. IsWrites(writes) /\ 1 \in DOMAIN writes /\ Len(writes) \in Nat \ {0} /\ DOMAIN writes = 1..Len(writes)
  BY WritesAre DEF ReportWrites
<1>2. /\ writes[1].file \in Reports \ (BuildFiles \cup {"plan"})
      /\ writes[1].to # {}
      /\ writes[1].file = "quality" => {"audit", "taxonomy"} \subseteq reads
      /\ ("audit" \in fresh /\ reads \subseteq fresh) => Right(writes[1].file, writes[1].to)
  BY <1>1 DEF ReportWrites
<1>3. BuildFiles \cup Downstream \cup {"plan"} \cup Archived \subseteq Files
  BY ReportNames
<1>4. writes[1].file \notin Archived \cup BuildFiles \cup {"plan"} /\ writes[1].file \in Files
  BY <1>2, ReportNames, ArchivesAreNoReports
<1>5. /\ disk' = [f \in Files |-> disk'[f]]
      /\ disk'[writes[1].file] = writes[1].to
      /\ \A f \in Files \ {writes[1].file} : disk'[f] = disk[f]
      /\ \A f \in fresh' : f # writes[1].file => f \in fresh
      /\ writes[1].file \in fresh' => reads \subseteq fresh
      /\ \A f \in fresh' : f \notin Older(writes[1].file)
  BY <1>1, <1>4, Performed
<1>6. Straight' = Straight /\ StraightRows' = StraightRows
  BY <1>3, <1>4, <1>5, StraightFrame
<1>7. /\ \A f \in BuildFiles : disk'[f] = disk[f]
      /\ \A f \in BuildFiles : f \in fresh' => f \in fresh
  BY <1>3, <1>4, <1>5
<1>8. DiskInv'
  BY <1>3, <1>4, <1>5 DEF DiskInv, Has, Content
<1>9. CombinedInv'
  BY <1>6, <1>7 DEF CombinedInv, Content, BuildFiles
<1>10. QualityInv'
  <2>1. CASE writes[1].file = "quality"
    <3> SUFFICES ASSUME "quality" \in fresh', NEW f \in {"quality", "taxonomy"} PROVE Right(f, disk[f])'
      BY DEF QualityInv
    <3>1. reads \subseteq fresh /\ "audit" \in fresh /\ "taxonomy" \in fresh
      BY <1>2, <1>5, <2>1
    <3>2. Right("taxonomy", disk["taxonomy"]) /\ disk'["taxonomy"] = disk["taxonomy"]
      BY <1>3, <1>5, <2>1, <3>1 DEF AuditInv, Downstream
    <3>3. Right(f, disk'[f])
      BY <1>2, <1>5, <2>1, <3>1, <3>2
    <3> QED
      BY <1>6, <3>3 DEF Right, The, Assigned
  <2>2. CASE writes[1].file = "taxonomy"
    BY <1>5, <2>2, WhatGetsOld DEF QualityInv
  <2>3. CASE writes[1].file \notin {"quality", "taxonomy"}
    BY <1>3, <1>5, <1>6, <2>3, QualityFrame DEF Downstream
  <2> QED
    BY <2>1, <2>2, <2>3
<1>11. AuditInv'
  <2> SUFFICES ASSUME "audit" \in fresh' PROVE (/\ shard_rows = StraightRows
                                                /\ \A f \in Downstream \cap fresh : Right(f, disk[f]))'
    BY DEF AuditInv
  <2>1. "audit" \in fresh
    BY <1>7 DEF BuildFiles
  <2>2. shard_rows' = StraightRows'
    BY <1>6, <1>7, <2>1 DEF AuditInv, shard_rows, Has, Content, BuildFiles
  <2>3. ASSUME NEW f \in Downstream, f \in fresh' PROVE Right(f, disk[f])'
    <3>1. Right(f, disk'[f])
      BY <1>2, <1>3, <1>5, <2>1, <2>3 DEF AuditInv
    <3> QED
      BY <1>6, <3>1 DEF Right, The, Assigned
  <2> QED
    BY <2>2, <2>3
<1>12. JobInv'
  <2>1. CASE Len(writes) = 1
    BY <2>1 DEF Perform, JobInv, NoJob
  <2>2. CASE Len(writes) # 1
    <3> DEFINE rest == Tail(writes)
    <3>1. job' = [reads |-> reads, writes |-> rest]
      BY <2>2 DEF Perform
    <3>2. /\ IsWrites(rest)
          /\ \A i \in DOMAIN rest : i + 1 \in DOMAIN writes /\ rest[i] = writes[i + 1]
      BY <1>1, <2>2, RestOfWrites
    <3> HIDE DEF rest
    <3>3. "audit" \in fresh' /\ reads \subseteq fresh' => "audit" \in fresh /\ reads \subseteq fresh
      BY <1>5, <1>7 DEF BuildFiles
    <3>4. \A i \in DOMAIN rest :
             /\ rest[i].file \in Reports \ (BuildFiles \cup {"plan"})
             /\ rest[i].to # {}
             /\ rest[i].file = "quality" => {"audit", "taxonomy"} \subseteq reads
             /\ ("audit" \in fresh' /\ reads \subseteq fresh') => Right(rest[i].file, rest[i].to)
      BY <3>2, <3>3 DEF ReportWrites
    <3>5. \A i \in DOMAIN rest : Right(rest[i].file, rest[i].to) => Right(rest[i].file, rest[i].to)'
      BY <1>6 DEF Right, The, Assigned
    <3>6. job'.writes = rest /\ job'.reads = reads
      BY <3>1
    <3>7. ReportWrites(job.reads, job.writes)'
      BY <3>2, <3>4, <3>5, <3>6 DEF ReportWrites, IsWrites
    <3> QED
      BY <3>1, <3>6, <3>7 DEF JobInv
  <2> QED
    BY <2>1, <2>2
<1> QED
  BY <1>8, <1>9, <1>10, <1>11, <1>12 DEF IInv

(***************************************************************************)
(* The reports a script starts with                                        *)
(***************************************************************************)
ReportFiles == Reports \ (BuildFiles \cup {"plan"})

LEMMA OneReport ==
  ASSUME IInv, NEW script, NEW reads, NEW f \in ReportFiles, NEW v,
         f = "quality" => {"audit", "taxonomy"} \subseteq reads,
         "audit" \in fresh /\ reads \subseteq fresh => Right(f, {v}),
         Launch(script, reads, <<Write(f, v)>>)
  PROVE  IInv'
<1> DEFINE writes == <<Write(f, v)>>
<1>1. writes \in Seq({Write(f, v)}) /\ writes # <<>> /\ DOMAIN writes = {1}
  OBVIOUS
<1>2. writes[1] = Write(f, v)
  OBVIOUS
<1>3. Perform(reads, writes)
  BY DEF Launch, Perform
<1> HIDE DEF writes
<1>4. IsWrites(writes)
  BY <1>1, IsWritesFrom
<1>5. \A i \in DOMAIN writes : writes[i].file = f /\ writes[i].to = {v}
  BY <1>1, <1>2 DEF Write
<1>6. ReportWrites(reads, writes)
  BY <1>4, <1>5 DEF ReportWrites, ReportFiles
<1> QED
  BY <1>3, <1>6, ReportStep DEF IInv

LEMMA TwoReports ==
  ASSUME IInv, NEW script, NEW reads, NEW f \in ReportFiles, NEW v, NEW g \in ReportFiles, NEW u,
         "quality" \notin {f, g},
         "audit" \in fresh /\ reads \subseteq fresh => Right(f, {v}) /\ Right(g, {u}),
         Launch(script, reads, <<Write(f, v), Write(g, u)>>)
  PROVE  IInv'
<1> DEFINE writes == <<Write(f, v), Write(g, u)>>
<1>1. writes \in Seq({Write(f, v), Write(g, u)}) /\ writes # <<>> /\ DOMAIN writes = {1, 2}
  OBVIOUS
<1>2. writes[1] = Write(f, v) /\ writes[2] = Write(g, u)
  OBVIOUS
<1>3. Perform(reads, writes)
  BY DEF Launch, Perform
<1> HIDE DEF writes
<1>4. IsWrites(writes)
  BY <1>1, IsWritesFrom
<1>5. \A i \in DOMAIN writes : \/ writes[i].file = f /\ writes[i].to = {v}
                               \/ writes[i].file = g /\ writes[i].to = {u}
  BY <1>1, <1>2 DEF Write
<1>6. ReportWrites(reads, writes)
  BY <1>4, <1>5 DEF ReportWrites, ReportFiles
<1> QED
  BY <1>3, <1>6, ReportStep DEF IInv

(* Beside an up-to-date audit, what a script reads from up-to-date files.  *)
LEMMA FreshInputs ==
  ASSUME CombinedInv, AuditInv, "audit" \in fresh
  PROVE  /\ shard_rows = StraightRows
         /\ ShardSources \subseteq fresh => load_shards = StraightRows
         /\ \A f \in SplitFiles \cap fresh : Content(f) = Assigned(StraightRows)
         /\ \A f \in RowFiles \cap fresh : Content(f) = StraightRows
         /\ \A f \in PairFiles \cap fresh : Content(f) = [heuristic |-> StraightRows, lightweight |-> StraightRows]
         /\ Content("audit").parsed = Straight.parsed /\ Content("audit").failed = Straight.failed
         /\ Content("audit").with_prefix = Straight.with_prefix
         /\ "taxonomy" \in fresh /\ Content("taxonomy").blocking = {} => Straight.failed = {}
<1>1. shard_rows = StraightRows
  BY DEF AuditInv
<1>2. ShardSources \subseteq fresh => load_shards = StraightRows
  BY <1>1 DEF ShardSources, load_shards, CombinedInv
<1>3. \A f \in SplitFiles \cap fresh : Content(f) = Assigned(StraightRows)
  BY DEF AuditInv, Right, The, Content, Downstream
<1>4. \A f \in RowFiles \cap fresh : Content(f) = StraightRows
  BY DEF AuditInv, CombinedInv, Right, The, Content, Downstream
<1>5. \A f \in PairFiles \cap fresh : Content(f) = [heuristic |-> StraightRows, lightweight |-> StraightRows]
  BY DEF AuditInv, Right, The, Content, Downstream
<1>6. /\ Content("audit").parsed = Straight.parsed /\ Content("audit").failed = Straight.failed
      /\ Content("audit").with_prefix = Straight.with_prefix
  BY DEF AuditInv, Right, The, Content, Downstream
<1>7. "taxonomy" \in fresh /\ Content("taxonomy").blocking = {} => Straight.failed = {}
  BY DEF AuditInv, Right, The, Content, Downstream
<1> QED
  BY <1>1, <1>2, <1>3, <1>4, <1>5, <1>6, <1>7

(* What one undisturbed run parses, and which trajectories have rows.      *)
LEMMA StraightIs ==
  /\ Straight.parsed = {t \in Archived : Has(t) /\ Content(t) # "torn"}
  /\ Straight.failed = Archived \ Straight.parsed
  /\ Assigned(StraightRows) = Straight.with_prefix /\ Straight.with_prefix \subseteq Straight.parsed
<1> DEFINE parsed == {t \in Archived \cap cached : Content(t) # "torn"}
           with == {t \in parsed : has_prefixes(t)}
           rowOf(t) == [trajectory |-> t, content |-> Content(t)]
<1>1. Straight = [rows |-> {rowOf(t) : t \in with}, parsed |-> parsed, with_prefix |-> with,
                  failed |-> Archived \ parsed]
  BY DEF Straight, build_for_samples
<1>2. /\ StraightRows = {rowOf(t) : t \in with} /\ Straight.parsed = parsed
      /\ Straight.with_prefix = with /\ Straight.failed = Archived \ parsed
  BY <1>1 DEF StraightRows, Straight
<1>3. \A t \in with : rowOf(t).trajectory = t
  OBVIOUS
<1>4. parsed = {t \in Archived : Has(t) /\ Content(t) # "torn"} /\ with \subseteq parsed
  BY DEF cached
<1> HIDE DEF rowOf, parsed, with
<1>5. Assigned(StraightRows) = with
  BY <1>2, <1>3 DEF Assigned
<1> QED
  BY <1>2, <1>4, <1>5

(* The rows the models keep: those of the combined file or the shards      *)
(* whose trajectory has a split.                                           *)
LEMMA FreshModelRows ==
  ASSUME CombinedInv, AuditInv, "audit" \in fresh, ModelSources \subseteq fresh
  PROVE  split_rows = StraightRows
<1>1. load_rows = StraightRows
  BY FreshInputs DEF load_rows, ModelSources, CombinedInv
<1>2. Content("splits") = Assigned(StraightRows)
  BY FreshInputs DEF ModelSources, SplitFiles
<1> QED
  BY <1>1, <1>2 DEF split_rows, Assigned

LEMMA DownloadManifestsStep ==
  ASSUME IInv, NEW force \in BOOLEAN, DownloadManifests(force)
  PROVE  IInv'
<1>1. PICK v : Launch("download_manifests", {}, <<Write("raw", v)>>)
  BY DEF DownloadManifests
<1>2. "raw" \in ReportFiles /\ Right("raw", {v})
  BY ReportNames DEF ReportFiles, BuildFiles, Right, SplitFiles, RowFiles, PairFiles
<1> QED
  BY <1>1, <1>2, OneReport

LEMMA RecoverStep ==
  ASSUME IInv, NEW listed \in BOOLEAN, NEW remote \in 0..2, RecoverMissingVerifiedArtifacts(listed, remote)
  PROVE  IInv'
<1>1. PICK v : Launch("recover_missing_verified_artifacts", {}, <<Write("recovery", v)>>)
  BY DEF RecoverMissingVerifiedArtifacts
<1>2. "recovery" \in ReportFiles /\ Right("recovery", {v})
  BY ReportNames DEF ReportFiles, BuildFiles, Right, SplitFiles, RowFiles, PairFiles
<1> QED
  BY <1>1, <1>2, OneReport

(* A taxonomy that blocks on nothing has seen every archive parsed; it     *)
(* documents the parsed ones without rows.                                 *)
LEMMA InspectStep ==
  ASSUME IInv, InspectVerifiedFailures
  PROVE  IInv'
<1> DEFINE audit == Content("audit")
           v == taxonomy_from_reports(Content("plan"), audit)
<1>1. Launch("inspect_verified_failures", {"plan", "audit"}, <<Write("taxonomy", v)>>)
  BY DEF InspectVerifiedFailures
<1>2. Content("plan").samples = Archived
  BY DEF InspectVerifiedFailures, IInv, DiskInv
<1>3. /\ \A t \in Archived : t \notin audit.parsed /\ t \in audit.failed => t \in v.blocking
      /\ v.documented = {t \in Archived : t \in audit.parsed /\ t \notin audit.with_prefix}
  BY <1>2 DEF taxonomy_from_reports, layout_family
<1>4. "taxonomy" \in ReportFiles
  BY ReportNames DEF ReportFiles, BuildFiles, Downstream
<1> HIDE DEF v
<1>5. ASSUME "audit" \in fresh PROVE Right("taxonomy", {v})
  <2>1. /\ audit.parsed = Straight.parsed /\ audit.failed = Straight.failed
        /\ audit.with_prefix = Straight.with_prefix
    BY <1>5, FreshInputs DEF IInv
  <2>2. v.blocking = {} => Straight.failed = {}
    BY <1>3, <2>1, StraightIs
  <2>3. v.documented = Straight.parsed \ Assigned(StraightRows)
    BY <1>3, <2>1, StraightIs
  <2> QED
    BY <2>2, <2>3, TheOnly DEF Right, SplitFiles, RowFiles, PairFiles
<1> QED
  BY <1>1, <1>4, <1>5, OneReport

LEMMA SplitsStep ==
  ASSUME IInv, MakeVerifiedSplits
  PROVE  IInv'
<1> DEFINE v == Assigned(load_shards)
<1>1. Launch("make_verified_splits", ShardSources, <<Write("splits", v), Write("split_audit", v)>>)
  BY DEF MakeVerifiedSplits, Assigned
<1>2. "audit" \in fresh /\ ShardSources \subseteq fresh => v = Assigned(StraightRows)
  BY FreshInputs DEF IInv
<1>3. "splits" \in ReportFiles /\ "split_audit" \in ReportFiles
  BY ReportNames DEF ReportFiles, BuildFiles, Downstream, SplitFiles
<1> HIDE DEF v
<1>4. v = Assigned(StraightRows) => Right("splits", {v}) /\ Right("split_audit", {v})
  BY TheOnly DEF Right, SplitFiles, RowFiles, PairFiles
<1> QED
  BY <1>1, <1>2, <1>3, <1>4, TwoReports

(* A quality gate that does not refuse has read a taxonomy without blocks. *)
LEMMA QualityStep ==
  ASSUME IInv, QaVerifiedExtraction
  PROVE  IInv'
<1> DEFINE decision == run_verified_gate(load_shards, Content("audit"), Content("taxonomy"), Content("splits"))
           v == [decision |-> decision, rows |-> load_shards]
           reads == ShardSources \cup {"audit", "taxonomy", "splits", "split_audit"}
<1>1. Launch("qa_verified_extraction", reads, <<Write("quality", v)>>)
  BY DEF QaVerifiedExtraction
<1>2. ASSUME "audit" \in fresh, reads \subseteq fresh, decision # "NOT_READY"
      PROVE  Straight.failed = {} /\ load_shards = StraightRows
  <2>1. Content("taxonomy").blocking = {}
    BY <1>2 DEF run_verified_gate
  <2> QED
    BY <1>2, <2>1, FreshInputs DEF IInv
<1>3. v.decision = decision /\ v.rows = load_shards
  OBVIOUS
<1>4. "quality" \in ReportFiles /\ {"audit", "taxonomy"} \subseteq reads
  BY ReportNames DEF ReportFiles, BuildFiles, Downstream
<1> HIDE DEF decision, v, reads
<1>5. ASSUME "audit" \in fresh, reads \subseteq fresh PROVE Right("quality", {v})
  <2>1. The({v}) = v
    BY TheOnly
  <2>2. The({v}).decision # "NOT_READY" =>
          Straight.failed = {} /\ Assigned(The({v}).rows) = Assigned(StraightRows)
    BY <1>2, <1>3, <1>5, <2>1
  <2> QED
    BY <2>2 DEF Right, SplitFiles, RowFiles, PairFiles
<1> QED
  BY <1>1, <1>4, <1>5, OneReport

LEMMA FreezeStep ==
  ASSUME IInv, CreateVerifiedFreezeManifest
  PROVE  IInv'
<1>1. PICK reads, v : Launch("create_verified_freeze_manifest", reads, <<Write("freeze", v)>>)
  BY DEF CreateVerifiedFreezeManifest
<1>2. "freeze" \in ReportFiles /\ Right("freeze", {v})
  BY ReportNames DEF ReportFiles, BuildFiles, Right, SplitFiles, RowFiles, PairFiles
<1> QED
  BY <1>1, <1>2, OneReport

LEMMA CoverageStep ==
  ASSUME IInv, FinalVerifiedCoverageRecovery
  PROVE  IInv'
<1>1. PICK reads, v : Launch("final_verified_coverage_recovery", reads, <<Write("coverage", v)>>)
  BY DEF FinalVerifiedCoverageRecovery
<1>2. "coverage" \in ReportFiles /\ Right("coverage", {v})
  BY ReportNames DEF ReportFiles, BuildFiles, Right, SplitFiles, RowFiles, PairFiles
<1> QED
  BY <1>1, <1>2, OneReport

LEMMA ModelFiles ==
  /\ (RowFiles \ {"combined"}) \cup PairFiles \cup {"score_schema", "summary"} \subseteq ReportFiles
  /\ \A f \in RowFiles \ {"combined"} : f \notin SplitFiles \cup PairFiles \cup {"taxonomy", "quality", "audit"}
  /\ \A f \in PairFiles : f \notin SplitFiles \cup RowFiles \cup {"taxonomy", "quality", "audit"}
BY ReportNames DEF ReportFiles, BuildFiles, Downstream, SplitFiles, RowFiles, PairFiles

LEMMA RightRows ==
  ASSUME NEW f \in RowFiles \ {"combined"}
  PROVE  Right(f, {StraightRows})
BY ModelFiles, TheOnly DEF Right

LEMMA RightPair ==
  ASSUME NEW f \in PairFiles
  PROVE  Right(f, {[heuristic |-> StraightRows, lightweight |-> StraightRows]})
BY ModelFiles, TheOnly DEF Right

LEMMA RightRest == \A to : Right("score_schema", to) /\ Right("summary", to)
BY DEF Right, SplitFiles, RowFiles, PairFiles

LEMMA FeaturesStep ==
  ASSUME IInv, PrepareModelFeatures
  PROVE  IInv'
<1>1. Launch("model_features", ModelSources, <<Write("features", split_rows)>>)
  BY DEF PrepareModelFeatures
<1>2. "features" \in RowFiles \ {"combined"}
  BY DEF RowFiles
<1>3. "audit" \in fresh /\ ModelSources \subseteq fresh => Right("features", {split_rows})
  BY <1>2, FreshModelRows, RightRows DEF IInv
<1> QED
  BY <1>1, <1>2, <1>3, OneReport, ModelFiles

LEMMA HeuristicStep ==
  ASSUME IInv, RunHeuristicBaselines
  PROVE  IInv'
<1>1. Launch("run_heuristic_baselines", ModelSources,
             <<Write("heuristic_scores", split_rows), Write("heuristic_metrics", split_rows)>>)
  BY DEF RunHeuristicBaselines
<1>2. {"heuristic_scores", "heuristic_metrics"} \subseteq RowFiles \ {"combined"}
  BY DEF RowFiles
<1>3. "audit" \in fresh /\ ModelSources \subseteq fresh =>
         Right("heuristic_scores", {split_rows}) /\ Right("heuristic_metrics", {split_rows})
  BY <1>2, FreshModelRows, RightRows DEF IInv
<1> QED
  BY <1>1, <1>2, <1>3, TwoReports, ModelFiles

LEMMA LightweightStep ==
  ASSUME IInv, RunLightweightBaselines
  PROVE  IInv'
<1>1. Launch("run_lightweight_baselines", ModelSources,
             <<Write("lightweight_scores", split_rows), Write("lightweight_metrics", split_rows)>>)
  BY DEF RunLightweightBaselines
<1>2. {"lightweight_scores", "lightweight_metrics"} \subseteq RowFiles \ {"combined"}
  BY DEF RowFiles
<1>3. "audit" \in fresh /\ ModelSources \subseteq fresh =>
         Right("lightweight_scores", {split_rows}) /\ Right("lightweight_metrics", {split_rows})
  BY <1>2, FreshModelRows, RightRows DEF IInv
<1> QED
  BY <1>1, <1>2, <1>3, TwoReports, ModelFiles

LEMMA CompareStep ==
  ASSUME IInv, CompareBaselines
  PROVE  IInv'
<1> DEFINE v == [heuristic |-> Content("heuristic_metrics"), lightweight |-> Content("lightweight_metrics")]
           reads == {"heuristic_metrics", "lightweight_metrics"}
<1>1. Launch("compare_baselines", reads, <<Write("comparison", v), Write("score_schema", "v1")>>)
  BY DEF CompareBaselines
<1>2. ASSUME "audit" \in fresh, reads \subseteq fresh
      PROVE  v = [heuristic |-> StraightRows, lightweight |-> StraightRows]
  BY <1>2, FreshInputs DEF IInv, RowFiles
<1>3. "comparison" \in PairFiles
  BY DEF PairFiles
<1> HIDE DEF v, reads
<1>4. "audit" \in fresh /\ reads \subseteq fresh => Right("comparison", {v}) /\ Right("score_schema", {"v1"})
  BY <1>2, <1>3, RightPair, RightRest
<1> QED
  BY <1>1, <1>3, <1>4, TwoReports, ModelFiles, SMTT(30)

LEMMA FreshScores ==
  ASSUME IInv, "audit" \in fresh, ScoreFiles \subseteq fresh
  PROVE  scored = [heuristic |-> StraightRows, lightweight |-> StraightRows]
BY FreshInputs DEF IInv, ScoreFiles, RowFiles, scored

LEMMA ThresholdsStep ==
  ASSUME IInv, RunRiskControlThresholds
  PROVE  IInv'
<1> DEFINE reads == ScoreFiles \cup {"score_schema"}
<1>1. Launch("run_risk_control_thresholds", reads, <<Write("decisions", scored), Write("thresholds", scored)>>)
  BY DEF RunRiskControlThresholds
<1>2. {"decisions", "thresholds"} \subseteq PairFiles
  BY DEF PairFiles
<1>3. "audit" \in fresh /\ reads \subseteq fresh => Right("decisions", {scored}) /\ Right("thresholds", {scored})
  BY <1>2, FreshScores, RightPair
<1> HIDE DEF reads
<1> QED
  BY <1>1, <1>2, <1>3, TwoReports, ModelFiles

LEMMA FrontierStep ==
  ASSUME IInv, BuildRiskCostFrontier
  PROVE  IInv'
<1>1. Launch("build_risk_cost_frontier", ScoreFiles, <<Write("frontier", scored)>>)
  BY DEF BuildRiskCostFrontier
<1>2. "frontier" \in PairFiles
  BY DEF PairFiles
<1>3. "audit" \in fresh /\ ScoreFiles \subseteq fresh => Right("frontier", {scored})
  BY <1>2, FreshScores, RightPair
<1> QED
  BY <1>1, <1>2, <1>3, OneReport, ModelFiles

LEMMA EarlyStep ==
  ASSUME IInv, EarlyInterventionMetrics
  PROVE  IInv'
<1>1. Launch("early_intervention_metrics", {"decisions"}, <<Write("early", Content("decisions"))>>)
  BY DEF EarlyInterventionMetrics
<1>2. {"early", "decisions"} \subseteq PairFiles
  BY DEF PairFiles
<1>3. "audit" \in fresh /\ {"decisions"} \subseteq fresh => Right("early", {Content("decisions")})
  BY <1>2, FreshInputs, RightPair DEF IInv
<1> QED
  BY <1>1, <1>2, <1>3, OneReport, ModelFiles

LEMMA SubgroupsStep ==
  ASSUME IInv, RiskControlSubgroups
  PROVE  IInv'
<1>1. Launch("risk_control_subgroups", {"decisions"}, <<Write("subgroups", Content("decisions"))>>)
  BY DEF RiskControlSubgroups
<1>2. {"subgroups", "decisions"} \subseteq PairFiles
  BY DEF PairFiles
<1>3. "audit" \in fresh /\ {"decisions"} \subseteq fresh => Right("subgroups", {Content("decisions")})
  BY <1>2, FreshInputs, RightPair DEF IInv
<1> QED
  BY <1>1, <1>2, <1>3, OneReport, ModelFiles

LEMMA SummaryStep ==
  ASSUME IInv, SummarizeRiskControlResults
  PROVE  IInv'
<1>1. PICK reads, v : Launch("summarize_risk_control_results", reads, <<Write("summary", v)>>)
  BY DEF SummarizeRiskControlResults
<1> QED
  BY <1>1, RightRest, OneReport, ModelFiles

(***************************************************************************)
(* The archives and the shards a script starts with                        *)
(***************************************************************************)
LEMMA SetToSeqIs ==
  ASSUME NEW S, IsFiniteSet(S)
  PROVE  /\ SetToSeq(S) \in Seq(S) /\ Len(SetToSeq(S)) = Cardinality(S)
         /\ DOMAIN SetToSeq(S) = 1..Cardinality(S) /\ Cardinality(S) \in Nat
         /\ \A x \in S : \E i \in 1..Cardinality(S) : SetToSeq(S)[i] = x
<1> DEFINE n == Cardinality(S)
<1>1. n \in Nat /\ ExistsBijection(1..n, S)
  BY FS_CardinalityType
<1>2. \E f \in [1..n -> S] : IsInjective(f)
  BY <1>1 DEF ExistsBijection, Bijection, Injection
<1>3. SetToSeq(S) \in [1..n -> S] /\ IsInjective(SetToSeq(S))
  BY <1>2 DEF SetToSeq
<1>4. SetToSeq(S) \in Injection(1..n, S)
  BY <1>3 DEF Injection
<1>5. Cardinality(1..n) = n
  BY <1>1, FS_Interval
<1>6. SetToSeq(S) \in Surjection(1..n, S)
  BY <1>4, <1>5, FS_Injection
<1>7. SetToSeq(S) \in Seq(S)
  BY <1>1, <1>3
<1>8. Len(SetToSeq(S)) = n
  BY <1>1, <1>3, <1>7, LenProperties
<1> QED
  BY <1>1, <1>3, <1>6, <1>7, <1>8 DEF Surjection

LEMMA DownloadLaunch ==
  ASSUME IInv, NEW force \in BOOLEAN, NEW manifest_only \in BOOLEAN, NEW failing \in SUBSET Archived,
         DownloadVerifiedArtifacts(force, manifest_only, failing)
  PROVE  IInv'
<1>1. PICK wanted \in SUBSET Archived, have \in SUBSET Archived :
         LET order == SetToSeq(wanted)
         IN  Launch("download_verified_artifacts", {},
                    [i \in DOMAIN order |-> Write(order[i], "whole")]
                    \o <<Write("plan", [samples |-> Archived, cached |-> have])>>)
  <2> DEFINE all == IF manifest_only THEN {} ELSE IF force THEN Archived ELSE Archived \ cached
  <2>1. /\ all \ failing \in SUBSET Archived
        /\ cached \cup (all \ failing) \in SUBSET Archived
    BY DEF cached
  <2>2. LET order == SetToSeq(all \ failing)
        IN  Launch("download_verified_artifacts", {},
                   [i \in DOMAIN order |-> Write(order[i], "whole")]
                   \o <<Write("plan", [samples |-> Archived, cached |-> cached \cup (all \ failing)])>>)
    BY DEF DownloadVerifiedArtifacts
  <2> QED
    BY <2>1, <2>2
<1> DEFINE order == SetToSeq(wanted)
           n == Cardinality(wanted)
           plan == [samples |-> Archived, cached |-> have]
           copies == [i \in DOMAIN order |-> Write(order[i], "whole")]
           writes == copies \o <<Write("plan", plan)>>
           S == {Write(t, "whole") : t \in Archived} \cup {Write("plan", plan)}
<1>2. IsFiniteSet(wanted)
  BY FS_Subset, PipelineAssumption
<1>3. n \in Nat /\ DOMAIN order = 1..n /\ order \in Seq(wanted)
  BY <1>2, SetToSeqIs
<1>4. \A i \in 1..n : order[i] \in Archived
  BY <1>3, ElementOfSeq, LenProperties
<1> HIDE DEF order, n
<1>5. \A i \in 1..n : copies[i] = Write(order[i], "whole") /\ copies[i] \in S
  BY <1>3, <1>4
<1>6. copies \in Seq(S) /\ Len(copies) = n
  <2>1. copies = [i \in 1..n |-> copies[i]]
    BY <1>3
  <2> HIDE DEF copies, S
  <2>2. copies \in Seq(S)
    BY <1>3, <1>5, <2>1
  <2> QED
    BY <1>3, <2>1, <2>2, LenProperties
<1>7. <<Write("plan", plan)>> \in Seq(S) /\ Len(<<Write("plan", plan)>>) = 1
  OBVIOUS
<1> HIDE DEF copies, plan
<1>8. /\ writes \in Seq(S) /\ Len(writes) = n + 1
      /\ \A i \in 1..(n + 1) : writes[i] = IF i <= n THEN copies[i] ELSE Write("plan", plan)
  <2> HIDE DEF S
  <2>1. Len(<<Write("plan", plan)>>) = 1 /\ <<Write("plan", plan)>>[1] = Write("plan", plan)
    OBVIOUS
  <2>2. \A i \in 1..(n + 1) : i > n => i - n = 1
    BY <1>3
  <2> QED
    BY <1>3, <1>6, <1>7, <2>1, <2>2, ConcatProperties
<1>9. IsWrites(writes) /\ DOMAIN writes = 1..(n + 1)
  <2> HIDE DEF S, writes
  <2>1. writes # <<>>
    <3>1. Len(<<>>) = 0
      BY EmptySeq
    <3> QED
      BY <1>3, <1>8, <3>1
  <2> QED
    BY <1>8, <2>1, IsWritesFrom, LenProperties
<1>10. "plan" \notin Archived
  BY ReportNames, ArchivesAreNoReports
<1> HIDE DEF writes
<1>11. DownloadWrites(writes)
  <2> SUFFICES ASSUME NEW i \in 1..(n + 1)
               PROVE  /\ writes[i].file \in Archived \cup {"plan"}
                      /\ writes[i].file = "plan" => The(writes[i].to).samples = Archived
    BY <1>9 DEF DownloadWrites
  <2>1. CASE i <= n
    <3>1. writes[i] = Write(order[i], "whole") /\ order[i] \in Archived
      BY <1>3, <1>4, <1>5, <1>8, <2>1
    <3> QED
      BY <1>10, <3>1 DEF Write
  <2>2. CASE ~(i <= n)
    <3>1. writes[i] = Write("plan", plan)
      BY <1>8, <2>2
    <3>2. writes[i].to = {plan} /\ writes[i].file = "plan"
      BY <3>1 DEF Write
    <3>3. The(writes[i].to) = plan
      BY <3>2, TheOnly
    <3> QED
      BY <3>2, <3>3 DEF plan
  <2> QED
    BY <2>1, <2>2
<1>12. Perform({}, writes)
  BY <1>1 DEF Launch, Perform, writes, copies, order, plan
<1> QED
  BY <1>11, <1>12, DownloadStep DEF IInv

LEMMA CopyDiesStep ==
  ASSUME IInv, NEW left \in {"torn", "short", "stub"}, CopyDies(left)
  PROVE  IInv'
<1> DEFINE order == SetToSeq(Archived \ cached)
<1>1. PICK i \in DOMAIN order :
         LET written == {order[j] : j \in 1..i}
         IN  /\ disk' = [f \in Files |-> IF f \notin written THEN disk[f]
                                         ELSE IF f = order[i] THEN {left} ELSE {"whole"}]
             /\ fresh' = (fresh \ UNION {Older(t) : t \in written}) \cup written
  BY DEF CopyDies
<1> DEFINE written == {order[j] : j \in 1..i}
<1>2. order \in Seq(Archived \ cached) /\ DOMAIN order = 1..Cardinality(Archived \ cached)
      /\ Cardinality(Archived \ cached) \in Nat
  BY SetToSeqIs, FS_Subset, PipelineAssumption
<1>3. written \subseteq Archived /\ order[i] \in written
  <2>1. \A j \in DOMAIN order : order[j] \in Archived
    BY <1>2, ElementOfSeq, LenProperties
  <2>2. i \in 1..i /\ 1..i \subseteq DOMAIN order
    BY <1>2
  <2> QED
    BY <2>1, <2>2
<1>4. /\ disk' = [f \in Files |-> IF f \notin written THEN disk[f] ELSE IF f = order[i] THEN {left} ELSE {"whole"}]
      /\ fresh' = (fresh \ UNION {Older(t) : t \in written}) \cup written
  BY <1>1
<1>5. job' = job /\ job = NoJob
  BY DEF CopyDies
<1>6. {"plan", "quality", "combined", "audit"} \cap Archived = {} /\ {"plan", "quality"} \subseteq Files
  BY ReportNames, ArchivesAreNoReports DEF Downstream, BuildFiles
<1> HIDE DEF order, written
<1>7. "combined" \notin fresh' /\ "audit" \notin fresh' /\ "quality" \notin fresh'
  BY <1>3, <1>4, <1>6, WhatGetsOld
<1>8. disk'["plan"] = disk["plan"] /\ disk' = [f \in Files |-> disk'[f]]
  BY <1>3, <1>4, <1>6
<1>9. DiskInv'
  BY <1>8 DEF IInv, DiskInv, Has, Content
<1> QED
  BY <1>5, <1>7, <1>9 DEF IInv, CombinedInv, AuditInv, QualityInv, JobInv, NoJob

LEMMA StraightRowsFinite == IsFiniteSet(StraightRows)
<1> DEFINE with == {t \in {u \in Archived \cap cached : Content(u) # "torn"} : has_prefixes(t)}
           rowOf == [t \in with |-> [trajectory |-> t, content |-> Content(t)]]
<1>1. StraightRows = {rowOf[t] : t \in with}
  BY DEF StraightRows, build_for_samples
<1>2. rowOf \in Surjection(with, StraightRows)
  <2>1. rowOf \in [with -> StraightRows]
    BY <1>1
  <2> QED
    BY <1>1, <2>1 DEF Surjection
<1>3. IsFiniteSet(with)
  BY FS_Subset, PipelineAssumption
<1> QED
  BY <1>2, <1>3, FS_Surjection

LEMMA WriteIs == \A f, v : Write(f, v).file = f /\ Write(f, v).to = {v}
BY DEF Write

LEMMA OneTuple ==
  ASSUME NEW w
  PROVE  <<w>> \in [1..1 -> {w}] /\ <<w>>[1] = w /\ DOMAIN <<w>> = {1}
OBVIOUS

LEMMA ShardWrites ==
  ASSUME NEW rows, IsFiniteSet(rows)
  PROVE  /\ IsWrites(write_shards(rows)) /\ write_shards(rows)[1] = Unlink("shards")
         /\ \A i \in DOMAIN write_shards(rows) : write_shards(rows)[i].file = "shards"
         /\ RowsIn(write_shards(rows)[Len(write_shards(rows))].to) = rows
<1> DEFINE order == SetToSeq(rows)
           n == Cardinality(rows)
           shards(k) == [i \in 1..k |-> {order[i]}]
           full == IF rows = {} THEN <<Write("shards", <<{}>>)>> ELSE [k \in 1..n |-> Write("shards", shards(k))]
           first == <<Unlink("shards")>>
           S == {Unlink("shards")} \cup {full[k] : k \in DOMAIN full}
<1>1. n \in Nat /\ Len(order) = n /\ DOMAIN order = 1..n /\ \A x \in rows : \E i \in 1..n : order[i] = x
  BY SetToSeqIs
<1>2. \A i \in 1..n : order[i] \in rows
  BY <1>1, SetToSeqIs, ElementOfSeq
<1>3. write_shards(rows) = first \o full
  BY <1>1 DEF write_shards
<1> HIDE DEF order, n
<1>4. PICK m \in Nat \ {0} : /\ full \in [1..m -> S]
                             /\ \A k \in 1..m : full[k].file = "shards"
                             /\ RowsIn(full[m].to) = rows
  <2>1. CASE rows = {}
    <3> DEFINE none == <<{}>>
    <3>1. full = <<Write("shards", none)>>
      BY <2>1
    <3>2. RowsIn({none}) = {}
      <4>1. none[1] = {} /\ DOMAIN none = {1}
        OBVIOUS
      <4>2. ToSet(none) = {{}}
        BY <4>1 DEF ToSet
      <4> HIDE DEF none
      <4>3. The({none}) = none
        BY TheOnly
      <4> QED
        BY <4>2, <4>3 DEF RowsIn
    <3> HIDE DEF full, none
    <3>3. full[1] = Write("shards", none) /\ DOMAIN full = {1}
      BY <3>1, OneTuple
    <3>4. full \in [1..1 -> {Write("shards", none)}]
      BY <3>1, OneTuple
    <3>5. full \in [1..1 -> S]
      BY <3>3, <3>4
    <3>6. full[1].file = "shards" /\ full[1].to = {none}
      BY <3>3, WriteIs
    <3>7. 1 \in Nat \ {0} /\ \A k \in 1..1 : k = 1
      OBVIOUS
    <3> HIDE DEF S
    <3> QED
      BY <2>1, <3>2, <3>5, <3>6, <3>7
  <2>2. CASE rows # {}
    <3>1. full = [k \in 1..n |-> Write("shards", shards(k))]
      BY <2>2
    <3>2. n \in Nat \ {0}
      BY <1>1, <2>2
    <3>3. full \in [1..n -> S]
      BY <3>1
    <3>4. \A k \in 1..n : full[k].file = "shards" /\ full[k].to = {shards(k)}
      <4> HIDE DEF shards, full
      <4>1. \A k \in 1..n : full[k] = Write("shards", shards(k))
        BY <3>1
      <4> QED
        BY <4>1, WriteIs
    <3>5. RowsIn({shards(n)}) = rows
      <4>1. The({shards(n)}) = shards(n)
        BY TheOnly
      <4>2. ToSet(shards(n)) = {{order[i]} : i \in 1..n}
        BY DEF ToSet
      <4>3. UNION {{order[i]} : i \in 1..n} = rows
        BY <1>1, <1>2
      <4> QED
        BY <4>1, <4>2, <4>3 DEF RowsIn
    <3> HIDE DEF full, S, shards
    <3>6. n \in 1..n
      BY <3>2
    <3> QED
      BY <3>2, <3>3, <3>4, <3>5, <3>6
  <2> QED
    BY <2>1, <2>2
<1> HIDE DEF full
<1>5. full \in Seq(S) /\ Len(full) = m
  <2> HIDE DEF S
  <2> QED
    BY <1>4, LenProperties
<1>6. first \in Seq(S) /\ Len(first) = 1 /\ first[1] = Unlink("shards")
  OBVIOUS
<1> HIDE DEF first, S
<1>7. /\ write_shards(rows) \in Seq(S) /\ Len(write_shards(rows)) = 1 + m
      /\ \A i \in 1..(1 + m) : write_shards(rows)[i] = IF i <= 1 THEN first[i] ELSE full[i - 1]
  <2>1. /\ first \o full \in Seq(S) /\ Len(first \o full) = Len(first) + Len(full)
        /\ \A i \in 1..(Len(first) + Len(full)) :
              (first \o full)[i] = IF i <= Len(first) THEN first[i] ELSE full[i - Len(first)]
    BY <1>5, <1>6, ConcatProperties
  <2> QED
    BY <1>3, <1>5, <1>6, <2>1
<1>8. DOMAIN write_shards(rows) = 1..(1 + m)
  BY <1>7, LenProperties
<1>9. IsWrites(write_shards(rows))
  <2>1. Len(<<>>) = 0
    BY EmptySeq
  <2>2. write_shards(rows) # <<>>
    BY <1>7, <2>1
  <2> QED
    BY <1>7, <2>2, IsWritesFrom
<1>10. \A i \in 1..(1 + m) : write_shards(rows)[i].file = "shards"
  <2> SUFFICES ASSUME NEW i \in 1..(1 + m) PROVE write_shards(rows)[i].file = "shards"
    OBVIOUS
  <2>1. CASE i = 1
    BY <1>6, <1>7, <2>1 DEF Unlink
  <2>2. CASE i # 1
    BY <1>4, <1>7, <2>2
  <2> QED
    BY <2>1, <2>2
<1>11. write_shards(rows)[1] = Unlink("shards") /\ write_shards(rows)[1 + m] = full[m]
  BY <1>4, <1>6, <1>7
<1> QED
  BY <1>4, <1>7, <1>8, <1>9, <1>10, <1>11

(* With or without the combined file, the audit comes last. *)
LEMMA BuildWritesFrom ==
  ASSUME NEW middle, middle = <<>> \/ middle = <<Write("combined", StraightRows)>>,
         NEW audit, audit.parsed = Straight.parsed, audit.failed = Straight.failed,
         audit.with_prefix = Straight.with_prefix
  PROVE  LET writes == write_shards(StraightRows) \o middle \o <<Write("audit", audit)>>
         IN  BuildWrites(writes) /\ writes[1].file = "shards"
<1> DEFINE first == write_shards(StraightRows)
           last == <<Write("audit", audit)>>
           S == {first[i] : i \in DOMAIN first} \cup {Write("combined", StraightRows), Write("audit", audit)}
           m == Len(first)
           n == Len(middle)
           both == first \o middle
           writes == both \o last
<1>1. /\ IsWrites(first) /\ \A i \in DOMAIN first : first[i].file = "shards"
      /\ RowsIn(first[m].to) = StraightRows
  BY StraightRowsFinite, ShardWrites
<1>2. m \in Nat \ {0} /\ DOMAIN first = 1..m
  BY <1>1, WritesAre
<1>3. first \in Seq(S)
  <2>1. first \in Seq(ToSet(first))
    BY <1>1 DEF IsWrites
  <2>2. ToSet(first) \subseteq S
    BY DEF ToSet
  <2> HIDE DEF first, S
  <2> QED
    BY <2>1, <2>2, SeqMonotonic
<1> HIDE DEF first
<1>4. /\ middle \in Seq(S) /\ n \in {0, 1}
      /\ n = 1 => middle[1] = Write("combined", StraightRows)
  <2>1. CASE middle = <<>>
    BY <2>1, EmptySeq
  <2>2. CASE middle = <<Write("combined", StraightRows)>>
    BY <2>2
  <2> QED
    BY <2>1, <2>2
<1>5. last \in Seq(S) /\ Len(last) = 1 /\ last[1] = Write("audit", audit)
  OBVIOUS
<1> HIDE DEF S, m, n, last
<1>6. /\ both \in Seq(S) /\ Len(both) = m + n
      /\ \A i \in 1..(m + n) : both[i] = IF i <= m THEN first[i] ELSE middle[i - m]
  BY <1>3, <1>4, ConcatProperties DEF m, n
<1> HIDE DEF both
<1>7. /\ writes \in Seq(S) /\ Len(writes) = m + n + 1
      /\ \A i \in 1..(m + n + 1) : writes[i] = IF i <= m + n THEN both[i] ELSE last[i - (m + n)]
  <2>1. /\ both \o last \in Seq(S) /\ Len(both \o last) = Len(both) + Len(last)
        /\ \A i \in 1..(Len(both) + Len(last)) :
              (both \o last)[i] = IF i <= Len(both) THEN both[i] ELSE last[i - Len(both)]
    BY <1>5, <1>6, ConcatProperties
  <2> QED
    BY <1>5, <1>6, <2>1
<1> HIDE DEF writes
<1>8. DOMAIN writes = 1..(m + n + 1) /\ IsWrites(writes)
  <2>1. Len(<<>>) = 0
    BY EmptySeq
  <2>2. writes # <<>>
    BY <1>2, <1>4, <1>7, <2>1
  <2> QED
    BY <1>7, <2>2, IsWritesFrom, LenProperties
<1>9. \A i \in 1..m : writes[i] = first[i]
  BY <1>2, <1>4, <1>6, <1>7
<1>10. n = 1 => writes[m + 1] = Write("combined", StraightRows)
  BY <1>2, <1>4, <1>6, <1>7
<1>11. writes[m + n + 1] = Write("audit", audit)
  <2>1. (m + n + 1) - (m + n) = 1 /\ ~(m + n + 1 <= m + n) /\ m + n + 1 \in 1..(m + n + 1)
    BY <1>2, <1>4
  <2> QED
    BY <1>5, <1>7, <2>1
<1>12. \A i \in DOMAIN writes : \/ i \in 1..m /\ writes[i].file = "shards"
                                \/ i = m + 1 /\ n = 1 /\ writes[i] = Write("combined", StraightRows)
                                \/ i = m + n + 1 /\ writes[i] = Write("audit", audit)
  BY <1>1, <1>2, <1>4, <1>8, <1>9, <1>10, <1>11
<1>13. ASSUME NEW i \in DOMAIN writes
       PROVE  /\ writes[i].file \in BuildFiles
              /\ writes[i].file = "audit" <=> i = Len(writes)
              /\ writes[i].file \in {"combined", "audit"} => Right(writes[i].file, writes[i].to)
              /\ writes[i].file = "shards" /\ (\A j \in DOMAIN writes : j > i => writes[j].file # "shards") =>
                    RowsIn(writes[i].to) = StraightRows
  <2>1. CASE i \in 1..m
    <3>1. writes[i].file = "shards" /\ i # Len(writes)
      BY <1>1, <1>2, <1>4, <1>7, <1>9, <2>1
    <3>2. ASSUME \A j \in DOMAIN writes : j > i => writes[j].file # "shards"
          PROVE  RowsIn(writes[i].to) = StraightRows
      <4>1. m \in DOMAIN writes /\ writes[m].file = "shards"
        BY <1>1, <1>2, <1>4, <1>8, <1>9
      <4>2. i = m
        BY <1>2, <2>1, <3>2, <4>1
      <4> QED
        BY <1>1, <1>9, <2>1, <4>2
    <3> QED
      BY <3>1, <3>2 DEF BuildFiles
  <2>2. CASE i = m + 1 /\ n = 1
    <3>1. writes[i].file = "combined" /\ writes[i].to = {StraightRows} /\ i # Len(writes)
      BY <1>2, <1>7, <1>10, <2>2 DEF Write
    <3>2. Right("combined", {StraightRows})
      BY TheOnly DEF Right, SplitFiles, RowFiles, PairFiles
    <3> QED
      BY <3>1, <3>2 DEF BuildFiles
  <2>3. CASE i = m + n + 1
    <3>1. writes[i].file = "audit" /\ writes[i].to = {audit} /\ i = Len(writes)
      BY <1>7, <1>11, <2>3 DEF Write
    <3>2. Right("audit", {audit})
      BY TheOnly DEF Right, SplitFiles, RowFiles, PairFiles
    <3> QED
      BY <3>1, <3>2 DEF BuildFiles
  <2> QED
    BY <1>12, <2>1, <2>2, <2>3
<1>14. 1 \in DOMAIN writes /\ writes[1].file = "shards"
  BY <1>1, <1>2, <1>4, <1>8, <1>9
<1>15. BuildWrites(writes)
  BY <1>8, <1>13, <1>14 DEF BuildWrites
<1> QED
  BY <1>14, <1>15 DEF writes, both, first, last

LEMMA BuildLaunch ==
  ASSUME IInv, NEW no_combined \in BOOLEAN, BuildPrefixVerified(no_combined)
  PROVE  IInv'
<1> DEFINE audit == [parsed |-> Straight.parsed, with_prefix |-> Straight.with_prefix,
                     failed |-> Straight.failed, cached |-> Content("plan").cached]
           middle == IF no_combined THEN <<>> ELSE <<Write("combined", StraightRows)>>
           writes == write_shards(StraightRows) \o middle \o <<Write("audit", audit)>>
<1>1. Content("plan").samples = Archived
  BY DEF IInv, DiskInv, BuildPrefixVerified
<1>2. build_for_samples(Content("plan").samples) = Straight /\ Straight.rows = StraightRows
  BY <1>1 DEF Straight, StraightRows
<1>3. Launch("build_prefix_verified", {"plan"} \cup cached, writes)
  BY <1>2 DEF BuildPrefixVerified
<1>4. /\ audit.parsed = Straight.parsed /\ audit.failed = Straight.failed
      /\ audit.with_prefix = Straight.with_prefix
  OBVIOUS
<1>5. middle = <<>> \/ middle = <<Write("combined", StraightRows)>>
  OBVIOUS
<1> HIDE DEF audit, middle
<1>6. BuildWrites(writes) /\ writes[1].file = "shards"
  BY <1>4, <1>5, BuildWritesFrom
<1>7. Perform({"plan"} \cup cached, writes)
  BY <1>3 DEF Launch, Perform
<1> HIDE DEF writes
<1> QED
  BY <1>6, <1>7, BuildStep DEF IInv

(***************************************************************************)
(* The invariant and the properties                                        *)
(***************************************************************************)
LEMMA RecordUpdate ==
  ASSUME NEW record, record = [reads |-> record.reads, writes |-> record.writes], NEW t
  PROVE  [record EXCEPT !.writes = t] = [reads |-> record.reads, writes |-> t]
OBVIOUS

LEMMA WriteNextStep ==
  ASSUME IInv, WriteNext
  PROVE  IInv'
<1>1. job = [reads |-> job.reads, writes |-> job.writes] /\ job # NoJob
  BY DEF IInv, JobInv, WriteNext
<1>2. /\ disk' = [disk EXCEPT ![Head(job.writes).file] = Head(job.writes).to]
      /\ fresh' = FreshAfter(Head(job.writes), job.reads)
      /\ job' = IF Len(job.writes) = 1 THEN NoJob ELSE [reads |-> job.reads, writes |-> Tail(job.writes)]
  <2>1. job' = IF Len(job.writes) = 1 THEN NoJob ELSE [job EXCEPT !.writes = Tail(@)]
    BY DEF WriteNext
  <2>2. [job EXCEPT !.writes = Tail(@)] = [reads |-> job.reads, writes |-> Tail(job.writes)]
    BY <1>1, RecordUpdate
  <2> QED
    BY <2>1, <2>2 DEF WriteNext
<1>3. Head(job.writes) = job.writes[1]
  OBVIOUS
<1>4. Perform(job.reads, job.writes)
  BY <1>2, <1>3 DEF Perform
<1>5. CASE DownloadWrites(job.writes)
  BY <1>4, <1>5, DownloadStep DEF IInv
<1>6. CASE BuildWrites(job.writes) /\ fresh \cap Downstream = {}
  BY <1>4, <1>6, BuildStep DEF IInv
<1>7. CASE ReportWrites(job.reads, job.writes)
  BY <1>4, <1>7, ReportStep DEF IInv
<1> QED
  BY <1>1, <1>5, <1>6, <1>7 DEF IInv, JobInv

LEMMA SameFiles ==
  ASSUME IInv, disk' = disk, fresh' = fresh, job' = job \/ job' = NoJob
  PROVE  IInv'
<1>1. /\ \A f \in Files : disk'[f] = disk[f] /\ Has(f)' = Has(f) /\ Content(f)' = Content(f)
      /\ \A f : Has(f)' = Has(f) /\ Content(f)' = Content(f)
  BY DEF Has, Content
<1>2. Straight' = Straight /\ StraightRows' = StraightRows
  BY StraightFrame
<1>3. shard_rows' = shard_rows
  BY DEF shard_rows, Has, Content
<1>4. \A f, to : Right(f, to)' <=> Right(f, to)
  BY <1>2, RightFrame
<1>5. DiskInv' /\ CombinedInv' /\ QualityInv'
  <2>1. QualityInv'
    BY <1>2, QualityFrame DEF IInv
  <2> QED
    BY <1>1, <1>2, <2>1 DEF IInv, DiskInv, CombinedInv
<1>6. AuditInv'
  BY <1>2, <1>3, <1>4 DEF IInv, AuditInv
<1>7. JobInv'
  <2>1. ASSUME NEW writes PROVE BuildWrites(writes)' <=> BuildWrites(writes)
    BY <1>2, <1>3, <1>4 DEF BuildWrites, IsWrites, RowsIn, The
  <2>2. ASSUME NEW reads, NEW writes PROVE ReportWrites(reads, writes)' <=> ReportWrites(reads, writes)
    BY <1>4 DEF ReportWrites, IsWrites
  <2>3. CASE job' = NoJob
    BY <2>3 DEF JobInv, NoJob
  <2>4. CASE job' = job
    <3>1. /\ BuildWrites(job.writes) => BuildWrites(job.writes)'
          /\ ReportWrites(job.reads, job.writes) => ReportWrites(job.reads, job.writes)'
          /\ DownloadWrites(job.writes) => DownloadWrites(job.writes)'
      BY <2>4, <1>2, <1>3, <1>4 DEF BuildWrites, ReportWrites, DownloadWrites, IsWrites, RowsIn, The
    <3> QED
      BY <2>4, <3>1 DEF IInv, JobInv, NoJob
  <2> QED
    BY <2>3, <2>4
<1> QED
  BY <1>5, <1>6, <1>7 DEF IInv

LEMMA InitIInv == Init => IInv
<1> SUFFICES ASSUME Init PROVE IInv
  OBVIOUS
<1>1. fresh = {} /\ job = NoJob
  BY DEF Init
<1>2. disk = [f \in Files |-> disk[f]] /\ disk["plan"] = {}
  BY ReportNames DEF Init
<1> QED
  BY <1>1, <1>2 DEF IInv, DiskInv, CombinedInv, AuditInv, QualityInv, JobInv, Has

LEMMA NextIInv == IInv /\ [Next]_vars => IInv'
<1> SUFFICES ASSUME IInv, [Next]_vars PROVE IInv'
  OBVIOUS
<1>1. ASSUME GetData PROVE IInv'
  BY <1>1, DownloadManifestsStep, DownloadLaunch, CopyDiesStep, RecoverStep DEF GetData
<1>2. ASSUME BuildData PROVE IInv'
  BY <1>2, BuildLaunch, InspectStep, SplitsStep, QualityStep, FreezeStep, CoverageStep DEF BuildData
<1>3. ASSUME Evaluate PROVE IInv'
  BY <1>3, FeaturesStep, HeuristicStep, LightweightStep, CompareStep, ThresholdsStep, FrontierStep, EarlyStep,
     SubgroupsStep, SummaryStep DEF Evaluate
<1>4. ASSUME Crash PROVE IInv'
  BY <1>4, SameFiles DEF Crash
<1>5. ASSUME UNCHANGED vars PROVE IInv'
  BY <1>5, SameFiles DEF vars
<1> QED
  BY <1>1, <1>2, <1>3, <1>4, <1>5, WriteNextStep DEF Next

(* Whatever was rerun, skipped or killed, files up to date under an        *)
(* up-to-date audit agree with one undisturbed run of the chain: for any   *)
(* finite set of archives, any number of detours and crashes.              *)
THEOREM FilesAgree == Spec => []UpToDateFilesAgree
<1>1. IInv => UpToDateFilesAgree
  BY FreshInputs DEF IInv, UpToDateFilesAgree, SplitFiles, Assigned
<1> QED
  BY <1>1, InitIInv, NextIInv, PTL DEF Spec

(* A quality report that is up to date and does not refuse stands on every *)
(* archive the manifest names: all can be opened, and all have their rows  *)
(* in it but those the taxonomy documents as parsed without a row.         *)
THEOREM NothingUnread == Spec => []NothingUnreadIsReady
<1>1. ASSUME IInv PROVE NothingUnreadIsReady
  <2> SUFFICES ASSUME "quality" \in fresh, Content("quality").decision # "NOT_READY"
               PROVE  /\ \A t \in Archived : Has(t) /\ Content(t) # "torn"
                      /\ Assigned(Content("quality").rows) = Archived \ Content("taxonomy").documented
    BY DEF NothingUnreadIsReady, Assigned
  <2>1. /\ Straight.failed = {}
        /\ Assigned(Content("quality").rows) = Assigned(StraightRows)
        /\ Content("taxonomy").documented = Straight.parsed \ Assigned(StraightRows)
    BY <1>1 DEF IInv, QualityInv, Right, The, Content
  <2> QED
    BY <2>1, StraightIs
<1> QED
  BY <1>1, InitIInv, NextIInv, PTL DEF Spec
=============================================================================
