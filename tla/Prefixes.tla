------------------------------ MODULE Prefixes ------------------------------
(***************************************************************************)
(* From an archived agent run to labelled prefixes: prefix_parsing.py,     *)
(* build_prefix_preview.py and the label code of inspect_artifacts.py.     *)
(*                                                                         *)
(* An archive is a sequence of members [path, kind, number, text, body]:   *)
(* the kind and the number stand for what the file name tells the parser   *)
(* (an episode, an event, a time stamp), the body for the parsed JSON.  A  *)
(* text is [hash, marks]: its identity ("" is the empty text) and the      *)
(* keyword groups found in it.  Stage 0 stands for "no stage".             *)
(***************************************************************************)
EXTENDS Integers, FiniteSets, SequencesExt

NoText == [hash |-> "", marks |-> {}]

(* What is made of the elements of a set of numbers, in their order. *)
nth(S, k) == CHOOSE i \in S : Cardinality({j \in S : j <= i}) = k
in_order(S, made(_)) == [k \in 1..Cardinality(S) |-> made(nth(S, k))]

first_mark(order, marks, default) ==
    LET hits == {i \in DOMAIN order : order[i] \in marks}
    IN  IF hits = {} THEN default ELSE order[Min(hits)]

(* Keyword counts are kept as present (1) or absent (0). *)
keyword_features(action, observation) ==
    [mark \in {"error", "failed", "timeout", "test", "exception"} |->
        IF mark \in action.marks \cup observation.marks THEN 1 ELSE 0]

guess_action_kind(action) ==
    first_mark(<<"git", "test", "install", "edit", "search", "command">>, action.marks, "unknown")

guess_observation_kind(observation) ==
    LET has(marks) == marks \cap observation.marks # {}
    IN  CASE observation = NoText -> "empty"
          [] has({"timeout"}) -> "timeout"
          [] ~has({"timeout"}) /\ has({"error", "exception", "failed"}) ->
                IF has({"test", "spec"}) THEN "test_failure" ELSE "error"
          [] OTHER -> IF has({"test", "passed"}) /\ has({"fail"}) THEN "test_failure"
                      ELSE IF has({"success", "passed"}) THEN "success" ELSE "unknown"

(***************************************************************************)
(* What the manifest says of a run: its stages [id, start, end] and its    *)
(* labels, listed by stage [incorrect_step_ids, unuseful_step_ids, steps], *)
(* a step of the listing being [step_id, labels, action_ref,               *)
(* observation_ref] with <<>> for an absent reference.                     *)
(***************************************************************************)
stages_at(sample, step) ==
    {i \in DOMAIN sample.stages : sample.stages[i].start <= step /\ step <= sample.stages[i].end}

stage_for_step(sample, step) ==
    IF stages_at(sample, step) = {} THEN 0 ELSE sample.stages[Min(stages_at(sample, step))].id

stage_transition_count_so_far(sample, step) ==
    Cardinality({i \in DOMAIN sample.stages : sample.stages[i].start \in 2..step})

current_stage_step_count_so_far(sample, step) ==
    IF stages_at(sample, step) = {} THEN 0
    ELSE step - sample.stages[Min(stages_at(sample, step))].start + 1

listed_steps(stage) == ToSet(stage.steps)

label_steps_from_sample(sample) ==
    LET stages == ToSet(sample.incorrect_stages)
        mentioned == UNION {s.incorrect_step_ids \cup s.unuseful_step_ids
                              \cup {e.step_id : e \in listed_steps(s)} : s \in stages}
        by_stage(s, id) ==
            (IF id \in s.incorrect_step_ids THEN {"incorrect", "stage"} ELSE {})
            \cup (IF id \in s.unuseful_step_ids THEN {"unuseful", "stage"} ELSE {})
            \cup UNION {e.labels \cup {"stage"} : e \in {e \in listed_steps(s) : e.step_id = id}}
    IN  [id \in mentioned |-> UNION {by_stage(s, id) : s \in stages}]

labels_by_step(sample) ==
    LET raw == label_steps_from_sample(sample)
    IN  [id \in {id \in DOMAIN raw : raw[id] # {"stage"}} |-> raw[id] \ {"stage"}]

(* A later entry of a step overwrites the reference of an earlier one. *)
ref_paths_by_step(sample) ==
    LET stages == sample.incorrect_stages
        entries == FlattenSeq([i \in DOMAIN stages |-> stages[i].steps])
        last(id, ref(_)) == LET found == SelectSeq(entries, LAMBDA e : e.step_id = id /\ ref(e) # <<>>)
                            IN  IF found = <<>> THEN <<>> ELSE ref(Last(found))
    IN  [id \in UNION {{e.step_id : e \in listed_steps(s)} : s \in ToSet(stages)} |->
            [action |-> last(id, LAMBDA e : e.action_ref),
             observation |-> last(id, LAMBDA e : e.observation_ref)]]

(***************************************************************************)
(* A reference is a path, a sequence of parts.  A member answers to it     *)
(* when its path ends with the reference, with or without its first part.  *)
(***************************************************************************)
normalized_ref_candidates(ref) == IF Len(ref) > 1 THEN <<ref, Tail(ref)>> ELSE <<ref>>

find_member_for_ref(ref, members) ==
    LET candidates == normalized_ref_candidates(ref)
        answers(c) == {i \in DOMAIN members : IsSuffix(candidates[c], members[i].path)}
        hits == {c \in DOMAIN candidates : answers(c) # {}}
    IN  IF ref = <<>> \/ hits = {} THEN 0 ELSE Min(answers(Min(hits)))

read_ref_text(ref, members) ==
    IF find_member_for_ref(ref, members) = 0 THEN NoText
    ELSE members[find_member_for_ref(ref, members)].text

StepRecord(sample, step, action, observation) ==
    [step_index |-> step, stage_index |-> stage_for_step(sample, step),
     action_text |-> action, observation_text |-> observation, incorrect |-> FALSE, unuseful |-> FALSE]

NoSteps == [step \in {} |-> 0]

detect_layout_family(members) ==
    LET kinds == {m.kind : m \in ToSet(members)}
    IN  IF {"response", "prompt"} \subseteq kinds THEN "terminus_episode"
        ELSE first_mark(<<"mini_swe_mini_traj", "mini_swe_generic_traj_json", "swe_agent_traj",
                          "openhands_events", "openhands_tensorblock">>, kinds, "unsupported_layout")

(* The observation of an episode is the prompt of the next one. *)
infer_terminus_steps(sample, members) ==
    LET text(kind, episode) ==
            LET found == SelectSeq(members, LAMBDA m : m.kind = kind /\ m.number = episode)
            IN  IF found = <<>> THEN NoText ELSE Last(found).text
        episodes == {m.number : m \in {m \in ToSet(members) : m.kind \in {"response", "prompt"}}}
    IN  [steps |-> [step \in {e + 1 : e \in episodes} |->
                       StepRecord(sample, step, text("response", step - 1), text("prompt", step))],
         malformed |-> 0]

(* An assistant message takes the message after it as its observation,    *)
(* whoever wrote it.                                                       *)
message_pairs(messages) ==
    LET acts[i \in DOMAIN messages] == messages[i].role = "assistant" /\ ~(i > 1 /\ acts[i - 1])
        pair(i) == <<messages[i].text, IF i < Len(messages) THEN messages[i + 1].text ELSE NoText>>
    IN  in_order({i \in DOMAIN messages : acts[i]}, pair)

steps_of_pairs(sample, pairs) ==
    [step \in DOMAIN pairs |-> StepRecord(sample, step, pairs[step][1], pairs[step][2])]

infer_message_traj_steps(sample, members, kinds) ==
    LET found == {i \in DOMAIN members : members[i].kind \in kinds /\ members[i].body # <<>>}
    IN  IF found = {} THEN [steps |-> NoSteps, malformed |-> 1]
        ELSE [steps |-> steps_of_pairs(sample, message_pairs(members[Min(found)].body)), malformed |-> 0]

infer_swe_agent_traj_steps(sample, members) ==
    LET found == {i \in DOMAIN members : members[i].kind = "swe_agent_traj" /\ members[i].body # <<>>}
    IN  IF found = {} THEN [steps |-> NoSteps, malformed |-> 1]
        ELSE [steps |-> steps_of_pairs(sample, members[Min(found)].body), malformed |-> 0]

(***************************************************************************)
(* An event's body is [ok, agent_action, observes]: whether its JSON       *)
(* parses, whether the agent acts in it, and the event it is the           *)
(* observation of (-1 for none).  Steps are numbered by the actions that   *)
(* parse, so an unreadable action renumbers every later step.              *)
(***************************************************************************)
infer_openhands_event_steps(sample, members) ==
    LET events == {m \in ToSet(members) : m.kind = "openhands_events"}
        parsed == {m \in events : m.body.ok}
        event(id) == CHOOSE m \in parsed : m.number = id
        actions == {m.number : m \in {m \in parsed : m.body.agent_action}}
        answers(id) == {m.number : m \in {m \in parsed : m.body.observes = id}}
        pair(id) == <<event(id).text, IF answers(id) = {} THEN NoText ELSE event(Min(answers(id))).text>>
    IN  [steps |-> steps_of_pairs(sample, in_order(actions, pair)),
         malformed |-> Cardinality(events \ parsed)]

(* A block's body is [ok, messages]; its text is the response of the      *)
(* model.  What the next block adds to the conversation is the observation.*)
tensorblock_observation_text(current, next) ==
    LET appended == SubSeq(next.body.messages, Len(current.body.messages) + 1, Len(next.body.messages))
        replies == SelectSeq(appended, LAMBDA m : m.role # "assistant")
    IN  IF replies = <<>> THEN NoText ELSE replies[1].text

infer_openhands_tensorblock_steps(sample, members) ==
    LET blocks == {m \in ToSet(members) : m.kind = "openhands_tensorblock"}
        parsed == {m \in blocks : m.body.ok}
        acting == {m \in parsed : m.text # NoText}
        block(stamp) == CHOOSE m \in parsed : m.number = stamp
        later(stamp) == {m.number : m \in {m \in parsed : m.number > stamp}}
        pair(stamp) == <<block(stamp).text,
                         IF later(stamp) = {} THEN NoText
                         ELSE tensorblock_observation_text(block(stamp), block(Min(later(stamp))))>>
    IN  [steps |-> steps_of_pairs(sample, in_order({m.number : m \in acting}, pair)),
         malformed |-> Cardinality(blocks \ acting)]

(* References of the manifest replace the inferred texts and may add       *)
(* steps; one that no member answers counts as malformed.                  *)
apply_manifest_ref_texts(sample, members, steps) ==
    LET refs == ref_paths_by_step(sample)
        base(id) == IF id \in DOMAIN steps THEN steps[id] ELSE StepRecord(sample, id, NoText, NoText)
        chosen(ref, old) == IF read_ref_text(ref, members) = NoText THEN old ELSE read_ref_text(ref, members)
        with(id) == [base(id) EXCEPT !.action_text = chosen(refs[id].action, @),
                                     !.observation_text = chosen(refs[id].observation, @)]
        unread(ref) == ref # <<>> /\ read_ref_text(ref, members) = NoText
    IN  [steps |-> [id \in DOMAIN steps \cup DOMAIN refs |-> IF id \in DOMAIN refs THEN with(id) ELSE steps[id]],
         malformed |-> Cardinality({id \in DOMAIN refs : unread(refs[id].action)})
                       + Cardinality({id \in DOMAIN refs : unread(refs[id].observation)})]

(* A label on a step the archive does not hold makes the step. *)
label_steps(sample, steps) ==
    LET labels == labels_by_step(sample)
        base(id) == IF id \in DOMAIN steps THEN steps[id] ELSE StepRecord(sample, id, NoText, NoText)
        marked(id) == [base(id) EXCEPT !.incorrect = "incorrect" \in labels[id],
                                       !.unuseful = "unuseful" \in labels[id]]
    IN  [steps |-> [id \in DOMAIN steps \cup DOMAIN labels |->
                       IF id \in DOMAIN labels THEN marked(id) ELSE steps[id]],
         malformed |-> Cardinality(DOMAIN labels \ DOMAIN steps)]

(* Mutant: a step nobody recovered is not counted as malformed. *)
settle_steps_unnoticed(sample, members, inferred) ==
    LET referred == apply_manifest_ref_texts(sample, members, inferred.steps)
        labelled == label_steps(sample, referred.steps)
        declared == sample.step_count
        indices == DOMAIN labelled.steps
        kept == IF declared = 0 THEN indices ELSE {i \in indices : i <= declared}
        missing == (1..declared) \ kept
    IN  [steps |-> in_order(kept, LAMBDA i : labelled.steps[i]),
         overrun |-> Cardinality(indices \ kept), missing |-> Cardinality(missing),
         malformed |-> inferred.malformed + referred.malformed + labelled.malformed
                       + Cardinality(indices \ kept)]

(* Declared count 0 stands for a manifest without one. *)
settle_steps(sample, members, inferred) ==
    LET referred == apply_manifest_ref_texts(sample, members, inferred.steps)
        labelled == label_steps(sample, referred.steps)
        declared == sample.step_count
        indices == DOMAIN labelled.steps
        kept == IF declared = 0 THEN indices ELSE {i \in indices : i <= declared}
        missing == (1..declared) \ kept
    IN  [steps |-> in_order(kept, LAMBDA i : labelled.steps[i]),
         overrun |-> Cardinality(indices \ kept), missing |-> Cardinality(missing),
         malformed |-> inferred.malformed + referred.malformed + labelled.malformed
                       + Cardinality(indices \ kept) + Cardinality(missing)]

inferred_steps(sample, members) ==
    LET family == detect_layout_family(members)
    IN  CASE family = "terminus_episode" -> infer_terminus_steps(sample, members)
          [] family = "mini_swe_mini_traj" -> infer_message_traj_steps(sample, members, {"mini_swe_mini_traj"})
          [] family = "mini_swe_generic_traj_json" ->
                infer_message_traj_steps(sample, members, {"mini_swe_mini_traj", "mini_swe_generic_traj_json"})
          [] family = "swe_agent_traj" -> infer_swe_agent_traj_steps(sample, members)
          [] family = "openhands_events" -> infer_openhands_event_steps(sample, members)
          [] OTHER -> infer_openhands_tensorblock_steps(sample, members)

recover_steps(sample, members) ==
    IF detect_layout_family(members) = "unsupported_layout"
    THEN [steps |-> <<>>, overrun |-> 0, missing |-> sample.step_count,
          malformed |-> IF sample.step_count # 0 THEN sample.step_count
                        ELSE Cardinality(DOMAIN labels_by_step(sample))]
    ELSE settle_steps(sample, members, inferred_steps(sample, members))

(* The preview trusts the manifest's bucket instead of the file names. *)
recover_steps_preview(sample, members) ==
    settle_steps(sample, members,
                 IF sample.source_bucket = "terminalbench_like" THEN infer_terminus_steps(sample, members)
                 ELSE infer_message_traj_steps(sample, members, {"mini_swe_mini_traj"}))

zero_prefix_cause(family, recovery) ==
    IF Len(recovery.steps) >= 2 THEN "none"
    ELSE IF family = "unsupported_layout" THEN "unsupported_layout"
    ELSE IF recovery.missing > 0 THEN "manifest/artifact step_count mismatch"
    ELSE "trajectory has fewer than 2 recoverable steps"

(***************************************************************************)
(* One row per step but the last: the features of the prefix that ends     *)
(* with the step, and the label of the next recovered step as the target.  *)
(***************************************************************************)
IsBad(step) == step.incorrect \/ step.unuseful

repeated_indicator(hash, previous) == IF hash # "" /\ hash \in previous THEN 1 ELSE 0

(* Mutant: repetition is looked for in the whole run. *)
features_of_run(sample, steps, index) ==
    LET current == steps[index]
        previous(text(_)) == {text(steps[i]).hash : i \in DOMAIN steps \ {index}}
    IN  [keywords |-> keyword_features(current.action_text, current.observation_text),
         prefix_length |-> index,
         current_stage_step_count_so_far |-> current_stage_step_count_so_far(sample, current.step_index),
         total_stage_transitions_so_far |-> stage_transition_count_so_far(sample, current.step_index),
         repeated_action |-> repeated_indicator(current.action_text.hash, previous(LAMBDA s : s.action_text)),
         repeated_observation |-> repeated_indicator(current.observation_text.hash,
                                                     previous(LAMBDA s : s.observation_text)),
         action_hash |-> current.action_text.hash, observation_hash |-> current.observation_text.hash,
         action_kind |-> guess_action_kind(current.action_text),
         observation_kind |-> guess_observation_kind(current.observation_text)]

prefix_features(sample, steps, index) ==
    LET current == steps[index]
        previous(text(_)) == {text(steps[i]).hash : i \in 1..(index - 1)}
    IN  [keywords |-> keyword_features(current.action_text, current.observation_text),
         prefix_length |-> index,
         current_stage_step_count_so_far |-> current_stage_step_count_so_far(sample, current.step_index),
         total_stage_transitions_so_far |-> stage_transition_count_so_far(sample, current.step_index),
         repeated_action |-> repeated_indicator(current.action_text.hash, previous(LAMBDA s : s.action_text)),
         repeated_observation |-> repeated_indicator(current.observation_text.hash,
                                                     previous(LAMBDA s : s.observation_text)),
         action_hash |-> current.action_text.hash, observation_hash |-> current.observation_text.hash,
         action_kind |-> guess_action_kind(current.action_text),
         observation_kind |-> guess_observation_kind(current.observation_text)]

example_for_step(sample, steps, index) ==
    LET current == steps[index]
        target == steps[index + 1]
    IN  [trajectory_id |-> sample.traj_id, source_bucket |-> sample.source_bucket,
         step_index |-> current.step_index, next_step_index |-> target.step_index,
         current_stage_index |-> current.stage_index,
         next_step_bad |-> IsBad(target), next_step_incorrect |-> target.incorrect,
         next_step_unuseful |-> target.unuseful, current_step_bad |-> IsBad(current),
         trajectory_has_any_bad_step |-> \E i \in DOMAIN steps : IsBad(steps[i]),
         features |-> prefix_features(sample, steps, index)]

build_prefix_examples(sample, steps) ==
    [index \in 1..(Len(steps) - 1) |-> example_for_step(sample, steps, index)]

(* The three guards of the extraction. *)
RAW_TEXT_KEYS == {"action_text", "observation_text", "raw_action", "raw_observation", "content", "prompt", "response"}

validate_no_raw_text(example) == (DOMAIN example \cup DOMAIN example.features) \cap RAW_TEXT_KEYS = {}

validate_no_future_leakage(example) == example.next_step_index > example.step_index

validate_positive_targets_traceable(examples, steps) ==
    LET labels == {s.step_index : s \in {s \in ToSet(steps) : IsBad(s)}}
    IN  {e \in ToSet(examples) : e.next_step_bad /\ e.next_step_index \notin labels}

preview_exit_code(samples) ==
    LET recovered(i) == recover_steps_preview(samples[i], samples[i].members).steps
        examples(i) == build_prefix_examples(samples[i], recovered(i))
        fails(i) == \/ validate_positive_targets_traceable(examples(i), recovered(i)) # {}
                    \/ \E e \in ToSet(examples(i)) : ~validate_no_raw_text(e) \/ ~validate_no_future_leakage(e)
    IN  IF \E i \in DOMAIN samples : fails(i) THEN 1 ELSE 0

(***************************************************************************)
(* The first look at an archive: which labelled steps can be found in it,  *)
(* by a step id written in an inspected text or by a reference.  A member  *)
(* lists the step ids its text spells in body_ids and says in textual      *)
(* whether its name promises text.                                         *)
(***************************************************************************)
select_members_for_inspection(members, sample, max_members) ==
    LET refs == {e.action_ref : e \in UNION {listed_steps(s) : s \in ToSet(sample.incorrect_stages)}}
                \cup {e.observation_ref : e \in UNION {listed_steps(s) : s \in ToSet(sample.incorrect_stages)}}
        wanted == SelectSeq(members, LAMBDA m : \E r \in refs \ {<<>>} : IsSuffix(r, m.path))
        others == SelectSeq(members, LAMBDA m : m.textual /\ m \notin ToSet(wanted))
        all == wanted \o others
    IN  SubSeq(all, 1, IF Len(all) < max_members THEN Len(all) ELSE max_members)

mapped_label_steps_by_ref_path(sample, members) ==
    LET refs == ref_paths_by_step(sample)
        found(ref) == find_member_for_ref(ref, members) # 0
    IN  {id \in DOMAIN refs : found(refs[id].action) \/ found(refs[id].observation)}

reconcile_labels_to_steps(labelled, detected, ref_mapped) ==
    LET mapped == labelled \cap (detected \cup ref_mapped)
    IN  [mapped |-> mapped, missing |-> labelled \ mapped,
         all_labeled_steps_mapped |-> labelled # {} /\ labelled \subseteq mapped]

inspect_sample(sample, members, max_members) ==
    LET selected == select_members_for_inspection(members, sample, max_members)
        detected == UNION {m.body_ids : m \in {m \in ToSet(selected) : m.textual}}
    IN  reconcile_labels_to_steps(DOMAIN label_steps_from_sample(sample), detected,
                                  mapped_label_steps_by_ref_path(sample, members))
=============================================================================
