---------------------------- MODULE StudyPipeline ----------------------------
(***************************************************************************)
(* The offline study as a chain of scripts that talk through files.  Every *)
(* script reads its inputs, computes, and writes its outputs one file      *)
(* after the other; nothing locks or stamps them.  Scripts run one at a    *)
(* time, in any order the operator likes, again and again, and may die     *)
(* between two writes.                                                     *)
(*                                                                         *)
(* disk[f] is {} while f is missing and {content} otherwise.  The cached   *)
(* archive of a trajectory is a file of its own: "whole", or what a copy   *)
(* that died left: "torn" (no reader opens it), "short" (it reads as a     *)
(* shorter run) or "stub" (fewer than two steps are left).  Any other file *)
(* is written whole.  A row is [trajectory, content] and stands for all    *)
(* the prefixes of the trajectory; an archive that reads as fewer than two *)
(* steps, or whose layout no adapter knows, has none.                      *)
(***************************************************************************)
EXTENDS Integers, FiniteSets, SequencesExt

CONSTANTS Archived,        \* trajectories whose manifest row names an archive
          Unsupported,     \* those of them whose archive has a layout no adapter knows
          Brief,           \* those of them whose archive holds fewer than two steps
          Unresolved,      \* trajectories whose manifest row does not
          MinRows,         \* rows the quality gate asks for
          MaxFailing,      \* bound on the archives one download fails to fetch
          MaxDetours,      \* bound on the scripts started out of turn
          MaxCrashes       \* bound on the scripts that die

ASSUME PipelineAssumption ==
    /\ IsFiniteSet(Archived) /\ Archived \cap Unresolved = {}
    /\ Unsupported \cup Brief \subseteq Archived
    /\ MinRows \in Nat /\ MaxFailing \in Nat /\ MaxDetours \in Nat /\ MaxCrashes \in Nat

(***************************************************************************)
(* The scripts in the order the reports document, with the file each one   *)
(* writes last.  A script is in turn when its last file is the first one   *)
(* missing; the two coverage scripts are always out of turn.               *)
(***************************************************************************)
Order == <<<<"download_manifests", "raw">>, <<"download_verified_artifacts", "plan">>,
           <<"build_prefix_verified", "audit">>, <<"inspect_verified_failures", "taxonomy">>,
           <<"make_verified_splits", "split_audit">>, <<"qa_verified_extraction", "quality">>,
           <<"create_verified_freeze_manifest", "freeze">>, <<"model_features", "features">>,
           <<"run_heuristic_baselines", "heuristic_metrics">>,
           <<"run_lightweight_baselines", "lightweight_metrics">>, <<"compare_baselines", "score_schema">>,
           <<"run_risk_control_thresholds", "thresholds">>, <<"build_risk_cost_frontier", "frontier">>,
           <<"early_intervention_metrics", "early">>, <<"risk_control_subgroups", "subgroups">>,
           <<"summarize_risk_control_results", "summary">>>>

Reports == {Order[i][2] : i \in DOMAIN Order}
           \cup {"shards", "combined", "splits", "heuristic_scores", "lightweight_scores", "comparison",
                 "decisions", "recovery", "coverage"}

Files == Reports \cup Archived

(* A cached archive is no file that a script writes for another one. *)
ASSUME ArchivesAreNoReports == Archived \cap Reports = {}

VARIABLES disk,       \* file -> {} or {content}
          job,        \* the running script's [reads, writes], writes = <<>> when none runs
          detours, crashes,
          fresh       \* history: the files not older than anything they were computed from

vars == <<disk, job, detours, crashes, fresh>>

NoJob == [reads |-> {}, writes |-> <<>>]

Has(f) == disk[f] # {}
Content(f) == CHOOSE v \in disk[f] : TRUE

Write(f, v) == [file |-> f, to |-> {v}]
Unlink(f) == [file |-> f, to |-> {}]

Init ==
    /\ disk \in {[f \in Files |-> IF f = "raw" /\ foreign THEN {"foreign"} ELSE {}] : foreign \in BOOLEAN}
    /\ job = NoJob
    /\ detours = 0 /\ crashes = 0
    /\ fresh = {}

InTurn(script) ==
    \E i \in DOMAIN Order : Order[i][1] = script /\ ~Has(Order[i][2]) /\ \A j \in 1..(i - 1) : Has(Order[j][2])

(***************************************************************************)
(* History.  Writing f makes what was computed from it old, and f itself   *)
(* fresh if everything it was computed from is.  The build writes its      *)
(* audit after its data: data newer than the audit make the audit old.     *)
(***************************************************************************)
ReadBy ==
    [f \in Files |->
        CASE f = "plan" -> {"raw"}
          [] f \in {"shards", "combined"} -> {"plan"} \cup Archived
          [] f = "audit" -> {"plan", "shards", "combined"} \cup Archived
          [] f = "taxonomy" -> {"plan", "audit"}
          [] f \in {"splits", "split_audit"} -> {"shards"}
          [] f = "quality" -> {"shards", "audit", "taxonomy", "splits", "split_audit"}
          [] f \in {"freeze", "coverage"} -> {"quality"}
          [] f \in {"features", "heuristic_scores", "heuristic_metrics", "lightweight_scores",
                    "lightweight_metrics"} -> {"combined", "shards", "splits"}
          [] f \in {"comparison", "score_schema"} -> {"heuristic_metrics", "lightweight_metrics"}
          [] f \in {"decisions", "thresholds"} -> {"heuristic_scores", "lightweight_scores", "score_schema"}
          [] f = "frontier" -> {"heuristic_scores", "lightweight_scores"}
          [] f \in {"early", "subgroups"} -> {"decisions"}
          [] f = "summary" -> {"features", "thresholds", "frontier", "early", "subgroups", "comparison"}
          [] OTHER -> {}]

(* Computed from f directly, or by way of at most 1, 3, 7, 15 other files. *)
Direct == [f \in Files |-> {f} \cup {g \in Files : f \in ReadBy[g]}]
Twice(reach) == [f \in Files |-> UNION {reach[g] : g \in reach[f]}]
Descendants == Twice(Twice(Twice(Twice(Direct))))

Older(f) == Descendants[f] \ {f}

FreshAfter(write, reads) ==
    (fresh \ (Older(write.file) \cup {write.file}))
    \cup (IF write.to # {} /\ reads \subseteq fresh THEN {write.file} ELSE {})

(* A script starts with its first write: dying before it leaves no trace. *)
Launch(script, reads, writes) ==
    /\ job = NoJob
    /\ \/ InTurn(script) /\ detours' = detours
       \/ ~InTurn(script) /\ detours < MaxDetours /\ detours' = detours + 1
    /\ disk' = [disk EXCEPT ![writes[1].file] = writes[1].to]
    /\ fresh' = FreshAfter(writes[1], reads)
    /\ job' = IF Len(writes) = 1 THEN NoJob ELSE [reads |-> reads, writes |-> Tail(writes)]
    /\ crashes' = crashes

(***************************************************************************)
(* Getting the data.  The manifest is checked against the pinned digest,   *)
(* a cached copy that differs is refused without --force; an archive in    *)
(* the cache is trusted as soon as it has a byte.                          *)
(***************************************************************************)
DownloadManifests(force) ==
    /\ Has("raw") => force \/ Content("raw") = "pinned"
    /\ Launch("download_manifests", {}, IF Has("raw") /\ ~force THEN <<Write("raw", Content("raw"))>>
                                    ELSE <<Write("raw", "pinned")>>)

cached == {t \in Archived : Has(t)}

DownloadVerifiedArtifacts(force, manifest_only, failing) ==
    LET wanted == IF manifest_only THEN {} ELSE IF force THEN Archived ELSE Archived \ cached
        order == SetToSeq(wanted \ failing)
    IN  /\ Has("raw")
        /\ failing \subseteq wanted /\ Cardinality(failing) <= MaxFailing
        /\ Launch("download_verified_artifacts", {},
                  [i \in DOMAIN order |-> Write(order[i], "whole")]
                  \o <<Write("plan", [samples |-> Archived, cached |-> cached \cup (wanted \ failing)])>>)

(* The copy of an archive into the cache dies: the archives before it are *)
(* whole, it is left in part, and no report is written.                    *)
CopyDies(left) ==
    LET order == SetToSeq(Archived \ cached)
    IN  /\ Has("raw") /\ job = NoJob
        /\ crashes < MaxCrashes
        /\ crashes' = crashes + 1
        /\ \E i \in DOMAIN order :
              LET written == {order[j] : j \in 1..i}
              IN  /\ disk' = [f \in Files |-> IF f \notin written THEN disk[f]
                                              ELSE IF f = order[i] THEN {left} ELSE {"whole"}]
                  /\ fresh' = (fresh \ UNION {Older(t) : t \in written}) \cup written
        /\ UNCHANGED <<job, detours>>

(* Rows without an archive path: one remote match decides, and what is    *)
(* recovered enters the report, not the plan the extraction reads.         *)
classify_recovery(exact, listed, remote, local) ==
    CASE exact -> "recovered_exact"
      [] ~exact /\ listed -> IF remote = 1 THEN "recovered_by_deterministic_path_inference"
                             ELSE IF remote > 1 THEN "not_recoverable_ambiguous"
                             ELSE "not_recoverable_missing_remote"
      [] OTHER -> IF local = 1 THEN "recovered_by_deterministic_path_inference"
                  ELSE IF local > 1 THEN "not_recoverable_ambiguous"
                  ELSE "not_recoverable_no_path_evidence"

RecoverMissingVerifiedArtifacts(listed, remote) ==
    LET decision == classify_recovery(FALSE, listed, remote, 0)
        recovers == decision \in {"recovered_exact", "recovered_by_deterministic_path_inference"}
    IN  /\ Has("raw") /\ Has("plan") /\ Has("taxonomy")
        /\ Launch("recover_missing_verified_artifacts", {},
                  <<Write("recovery", IF recovers THEN Unresolved ELSE {})>>)

(***************************************************************************)
(* Extraction.  An archive that can be opened is reported as parsed, with  *)
(* or without rows; one that is missing or cannot be opened has failed.    *)
(* The old shards go first; the combined file is written after the new     *)
(* ones, or with --no-combined left as it is.  Shards hold one row each, a *)
(* build without rows has one empty shard.                                 *)
(***************************************************************************)
layout_family(t) == IF t \in Unsupported THEN "unsupported_layout" ELSE "supported"

has_prefixes(t) == layout_family(t) = "supported" /\ t \notin Brief /\ Content(t) # "stub"

build_for_samples(samples) ==
    LET parsed == {t \in samples \cap cached : Content(t) # "torn"}
        with_prefix == {t \in parsed : has_prefixes(t)}
    IN  [rows |-> {[trajectory |-> t, content |-> Content(t)] : t \in with_prefix},
         parsed |-> parsed, with_prefix |-> with_prefix, failed |-> samples \ parsed]

(* Mutant: the shard still open when the rows end is not written. *)
write_closed_shards(rows) ==
    LET order == SetToSeq(rows)
    IN  <<Unlink("shards")>> \o (IF rows = {} THEN <<Write("shards", <<{}>>)>>
                                 ELSE [n \in 1..(Len(order) - 1) |-> Write("shards", [i \in 1..n |-> {order[i]}])])

write_shards(rows) ==
    LET order == SetToSeq(rows)
        shards(n) == [i \in 1..n |-> {order[i]}]
    IN  <<Unlink("shards")>> \o (IF rows = {} THEN <<Write("shards", <<{}>>)>>
                                 ELSE [n \in 1..Len(order) |-> Write("shards", shards(n))])

BuildPrefixVerified(no_combined) ==
    LET plan == Content("plan")
        built == build_for_samples(plan.samples)
    IN  /\ Has("plan")
        /\ Launch("build_prefix_verified", {"plan"} \cup cached,
                  write_shards(built.rows)
                  \o (IF no_combined THEN <<>> ELSE <<Write("combined", built.rows)>>)
                  \o <<Write("audit", [parsed |-> built.parsed, with_prefix |-> built.with_prefix,
                                        failed |-> built.failed, cached |-> plan.cached])>>)

(* The taxonomy blocks on a trajectory that failed to parse or that is    *)
(* cached and absent from the audit; it documents one that parsed without  *)
(* rows, and lets it and a missing archive pass.                           *)
(* Mutant: a trajectory the audit lists as failed is taken for explained.  *)
taxonomy_of_unknowns(plan, audit) ==
    [blocking |-> {t \in plan.samples \cap cached : t \notin audit.parsed \cup audit.failed},
     documented |-> (plan.samples \cap audit.parsed) \ audit.with_prefix]

taxonomy_from_reports(plan, audit) ==
    LET classify(t) == IF t \in audit.parsed
                       THEN IF t \in audit.with_prefix THEN "parsed_with_prefix_examples"
                            ELSE IF layout_family(t) = "unsupported_layout" THEN "unsupported_layout"
                            ELSE "parsed_zero_prefix"
                       ELSE IF t \in audit.failed THEN "parse_failure"
                       ELSE IF t \in cached THEN "unknown_failure" ELSE "missing_or_unresolved_artifact"
        classified(classes) == {t \in plan.samples : classify(t) \in classes}
    IN  [blocking |-> classified({"parse_failure", "unknown_failure"}),
         documented |-> classified({"unsupported_layout", "parsed_zero_prefix"})]

InspectVerifiedFailures ==
    /\ Has("plan") /\ Has("audit")
    /\ Launch("inspect_verified_failures", {"plan", "audit"},
              <<Write("taxonomy", taxonomy_from_reports(Content("plan"), Content("audit")))>>)

(***************************************************************************)
(* Readers.  The splits and the quality gate prefer the shards and fall    *)
(* back on the combined file when they hold no row; the models prefer the  *)
(* combined file and fall back on the shards when it is missing.           *)
(***************************************************************************)
shard_rows == IF Has("shards") THEN UNION ToSet(Content("shards")) ELSE {}

load_shards == IF shard_rows # {} THEN shard_rows ELSE IF Has("combined") THEN Content("combined") ELSE {}

ShardSources == {"shards"} \cup (IF shard_rows = {} THEN {"combined"} ELSE {})

load_rows == IF Has("combined") THEN Content("combined") ELSE shard_rows

MakeVerifiedSplits ==
    LET assigned == {r.trajectory : r \in load_shards}
    IN  /\ load_shards # {}
        /\ Launch("make_verified_splits", ShardSources, <<Write("splits", assigned), Write("split_audit", assigned)>>)

(***************************************************************************)
(* The quality gate.  Coverage and size are not critical; an unassigned    *)
(* trajectory or a blocking entry of the taxonomy is, and so are labels    *)
(* that were not mapped, as those of an unsupported layout are, unless the *)
(* taxonomy documents an archive without rows.                             *)
(***************************************************************************)
run_verified_gate(rows, audit, taxonomy, splits) ==
    LET missing == {r.trajectory : r \in rows} \ splits
        mapped == \A t \in audit.parsed : layout_family(t) = "supported"
        covered == audit.cached # {} /\ 5 * Cardinality(audit.with_prefix) >= 4 * Cardinality(audit.cached)
        large == Cardinality(rows) >= MinRows
    IN  IF missing # {} \/ taxonomy.blocking # {} \/ (~mapped /\ taxonomy.documented = {}) THEN "NOT_READY"
        ELSE IF covered /\ large THEN "READY_FOR_BASELINE_MODELING" ELSE "READY_WITH_CAVEATS"

QaVerifiedExtraction ==
    /\ load_shards # {}
    /\ \A f \in {"audit", "taxonomy", "splits", "split_audit"} : Has(f)
    /\ Launch("qa_verified_extraction", ShardSources \cup {"audit", "taxonomy", "splits", "split_audit"},
              <<Write("quality", [decision |-> run_verified_gate(load_shards, Content("audit"), Content("taxonomy"),
                                                                 Content("splits")),
                                  rows |-> load_shards])>>)

(* The freeze records a digest of each file it names, none for a file     *)
(* that is missing.                                                        *)
FreezeKeys == {"shards", "combined", "audit", "splits", "split_audit", "taxonomy", "quality", "coverage", "recovery"}

CreateVerifiedFreezeManifest ==
    /\ Has("quality") /\ Has("plan")
    /\ Launch("create_verified_freeze_manifest", {f \in FreezeKeys : Has(f)},
              <<Write("freeze", [decision |-> Content("quality").decision,
                                 hashes |-> [f \in FreezeKeys |-> disk[f]]])>>)

FinalVerifiedCoverageRecovery ==
    /\ Has("audit") /\ Has("taxonomy") /\ Has("quality")
    /\ Launch("final_verified_coverage_recovery", {"audit", "taxonomy", "quality"},
              <<Write("coverage", [proceed |-> Content("quality").decision # "NOT_READY"])>>)

(***************************************************************************)
(* Modelling.  None of these scripts looks at the quality gate.  A row     *)
(* whose trajectory has no split is left out without a word.               *)
(***************************************************************************)
split_rows == {r \in load_rows : r.trajectory \in Content("splits")}

ModelSources == {"splits", IF Has("combined") THEN "combined" ELSE "shards"}

ModelsCanLoad == Has("splits") /\ (Has("combined") \/ Has("shards"))

PrepareModelFeatures ==
    /\ ModelsCanLoad
    /\ Launch("model_features", ModelSources, <<Write("features", split_rows)>>)

RunHeuristicBaselines ==
    /\ ModelsCanLoad
    /\ Launch("run_heuristic_baselines", ModelSources,
              <<Write("heuristic_scores", split_rows), Write("heuristic_metrics", split_rows)>>)

RunLightweightBaselines ==
    /\ ModelsCanLoad
    /\ Launch("run_lightweight_baselines", ModelSources,
              <<Write("lightweight_scores", split_rows), Write("lightweight_metrics", split_rows)>>)

CompareBaselines ==
    /\ Has("heuristic_metrics") /\ Has("lightweight_metrics")
    /\ Launch("compare_baselines", {"heuristic_metrics", "lightweight_metrics"},
              <<Write("comparison", [heuristic |-> Content("heuristic_metrics"),
                                     lightweight |-> Content("lightweight_metrics")]),
                Write("score_schema", "v1")>>)

ScoreFiles == {"heuristic_scores", "lightweight_scores"}

ScoresCanLoad == Has("heuristic_scores") /\ Has("lightweight_scores")

scored == [heuristic |-> Content("heuristic_scores"), lightweight |-> Content("lightweight_scores")]

RunRiskControlThresholds ==
    /\ Has("score_schema") /\ ScoresCanLoad
    /\ Launch("run_risk_control_thresholds", ScoreFiles \cup {"score_schema"},
              <<Write("decisions", scored), Write("thresholds", scored)>>)

BuildRiskCostFrontier ==
    ScoresCanLoad /\ Launch("build_risk_cost_frontier", ScoreFiles, <<Write("frontier", scored)>>)

EarlyInterventionMetrics ==
    /\ Has("decisions")
    /\ Launch("early_intervention_metrics", {"decisions"}, <<Write("early", Content("decisions"))>>)

RiskControlSubgroups ==
    /\ Has("decisions")
    /\ Launch("risk_control_subgroups", {"decisions"}, <<Write("subgroups", Content("decisions"))>>)

SummaryInputs == {"thresholds", "frontier", "early", "subgroups", "comparison"}

SummarizeRiskControlResults ==
    /\ Has("features") /\ \A f \in SummaryInputs : Has(f)
    /\ Launch("summarize_risk_control_results", {"features"} \cup SummaryInputs, <<Write("summary", [f \in SummaryInputs |-> Content(f)])>>)

(***************************************************************************)
(* A running script writes its next file, or dies.                         *)
(***************************************************************************)
WriteNext ==
    LET next == Head(job.writes)
    IN  /\ job # NoJob
        /\ disk' = [disk EXCEPT ![next.file] = next.to]
        /\ fresh' = FreshAfter(next, job.reads)
        /\ job' = IF Len(job.writes) = 1 THEN NoJob ELSE [job EXCEPT !.writes = Tail(@)]
        /\ UNCHANGED <<detours, crashes>>

Crash ==
    /\ job # NoJob
    /\ crashes < MaxCrashes
    /\ crashes' = crashes + 1
    /\ job' = NoJob
    /\ UNCHANGED <<disk, detours, fresh>>

GetData ==
    \/ \E force \in BOOLEAN : DownloadManifests(force)
    \/ \E force, manifest_only \in BOOLEAN : \E failing \in SUBSET Archived :
          DownloadVerifiedArtifacts(force, manifest_only, failing)
    \/ \E left \in {"torn", "short", "stub"} : CopyDies(left)
    \/ \E listed \in BOOLEAN, remote \in 0..2 : RecoverMissingVerifiedArtifacts(listed, remote)

BuildData ==
    \/ \E no_combined \in BOOLEAN : BuildPrefixVerified(no_combined)
    \/ InspectVerifiedFailures
    \/ MakeVerifiedSplits
    \/ QaVerifiedExtraction
    \/ CreateVerifiedFreezeManifest
    \/ FinalVerifiedCoverageRecovery

Evaluate ==
    \/ PrepareModelFeatures
    \/ RunHeuristicBaselines
    \/ RunLightweightBaselines
    \/ CompareBaselines
    \/ RunRiskControlThresholds
    \/ BuildRiskCostFrontier
    \/ EarlyInterventionMetrics
    \/ RiskControlSubgroups
    \/ SummarizeRiskControlResults

Next == GetData \/ BuildData \/ Evaluate \/ WriteNext \/ Crash

Spec == Init /\ [][Next]_vars

(***************************************************************************)
(* Properties                                                              *)
(***************************************************************************)
(* What one undisturbed run of the chain over the archives in the cache    *)
(* would hold.                                                             *)
StraightRows == build_for_samples(Archived).rows

RowFiles == {"combined", "features", "heuristic_scores", "heuristic_metrics", "lightweight_scores",
             "lightweight_metrics"}

PairFiles == {"comparison", "decisions", "thresholds", "frontier", "early", "subgroups"}

(* Whatever was rerun, skipped or killed on the way, once the build's audit *)
(* is up to date every file that is up to date holds what one undisturbed   *)
(* run would give: the audit, which build_prefix_verified.py writes last,   *)
(* is the build's commit record.                                            *)
UpToDateFilesAgree ==
    job = NoJob /\ "audit" \in fresh =>
        /\ "shards" \in fresh => shard_rows = StraightRows
        /\ \A f \in {"splits", "split_audit"} \cap fresh : Content(f) = {r.trajectory : r \in StraightRows}
        /\ \A f \in RowFiles \cap fresh : Content(f) = StraightRows
        /\ \A f \in PairFiles \cap fresh :
              Content(f) = [heuristic |-> StraightRows, lightweight |-> StraightRows]

(* A quality report that is up to date and does not say NOT_READY stands on *)
(* every archive the manifest names: all of them are in the cache and can  *)
(* be opened, and the rows the gate has seen come from all of them but     *)
(* those the taxonomy documents as parsed without a row.  An archive that  *)
(* is missing or does not parse reaches the gate through audit and         *)
(* taxonomy, and stops it; one that yields no row does not stop it.        *)
NothingUnreadIsReady ==
    job = NoJob /\ "quality" \in fresh /\ Content("quality").decision # "NOT_READY" =>
        /\ \A t \in Archived : Has(t) /\ Content(t) # "torn"
        /\ {r.trajectory : r \in Content("quality").rows} = Archived \ Content("taxonomy").documented
=============================================================================
