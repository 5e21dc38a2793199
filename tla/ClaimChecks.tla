-------------------------------- MODULE ClaimChecks --------------------------------
(* The claim-boundary checkers: scripts that read a batch's reports, look for        *)
(* phrases the project must not claim and for concepts every report must state, and  *)
(* write a verdict.  Each is a record of what sets it apart:                         *)
(*   forbidden  the phrases it looks for                                             *)
(*   excuse     phrase -> the phrases that excuse it, where the scope says           *)
(*   scope      where an excuse counts: just before the phrase, around it, on its    *)
(*              line, anywhere in its report, or around the first of the line        *)
(*   required   the concepts that must be stated                                     *)
(*   stated     "corpus": by some report; "report": by every report; "spelled": as   *)
(*              "corpus", but a concept spelled with capitals is never missed        *)
(*   closed     whether a listed report that does not exist fails the check          *)
(*   exits      whether the script's exit status tells                               *)
(* A report is a sequence of lines, a line a sequence of tokens: each token is one   *)
(* of the phrases, and "prose" is text longer than any window a checker looks at.    *)
EXTENDS Integers, Sequences, FiniteSets, SequencesExt

CONSTANT ReportFiles        \* the reports a checker lists

Absent   == << <<"absent">> >>     \* a listed report that does not exist
Document == << <<"document">> >>   \* a .tex, .pdf or .docx file

NoCausal == "not causal prevention"
NoConformal == "no formal conformal guarantee claimed"
NoProduction == "not production validation"
Source == "codetracebench-derived"
Disclaimers == {NoCausal, NoConformal, NoProduction}
Forbidden == {"production guarantee", "causal prevention", "conformal guarantee", "theorem"}
Tokens == Forbidden \cup Disclaimers \cup {Source, "future work", "publication draft", "prose"}

(* A phrase is found inside the disclaimer that denies it. *)
Holds(token, phrase) ==
  \/ token = phrase
  \/ token = NoCausal /\ phrase = "causal prevention"
  \/ token = NoConformal /\ phrase = "conformal guarantee"
Occurrences(line, phrase) == {i \in DOMAIN line : Holds(line[i], phrase)}
Says(line, phrase) == Occurrences(line, phrase) # {}
TextSays(text, phrase) == Says(FlattenSeq(text), phrase)
SomeOf(line, phrases) == \E q \in phrases : Says(line, q)
Around(line, i) == SubSeq(line, Max({1, i - 1}), Min({Len(line), i + 1}))
Before(line, i) == SubSeq(line, Max({1, i - 1}), i)

a ++ b == [p \in DOMAIN a \cup DOMAIN b |-> IF p \in DOMAIN a THEN a[p] ELSE b[p]]
Each(phrases, excuses) == [p \in phrases |-> excuses]
Always == Each({"production guarantee"}, {})       \* no excuse
OwnDenial == [p \in {"causal prevention", "conformal guarantee"} |->
                IF p = "causal prevention" THEN {NoCausal} ELSE {NoConformal}]
Checker(scope, excuse, required, stated, closed, exits) ==
  [scope |-> scope, excuse |-> excuse, forbidden |-> DOMAIN excuse, required |-> required,
   stated |-> stated, closed |-> closed, exits |-> exits]

(***********************************************************************************)
(* The checkers                                                                      *)
(***********************************************************************************)
(* "not ", "no ": any denial just before the phrase, whatever it denies. *)
check_method_claim_boundaries ==
  Checker("before", Each({"production guarantee", "conformal guarantee"}, Disclaimers),
          {NoCausal, Source}, "corpus", FALSE, FALSE)
check_batch9h ==
  Checker("before", Each(Forbidden \ {"theorem"}, Disclaimers),
          {NoCausal, NoProduction, Source}, "corpus", FALSE, FALSE)

(* The qualifiers of 9j add "not causal": in 9i a required concept is itself a hit. *)
check_batch9i ==
  Checker("around", Always ++ Each({"theorem"}, {})
                      ++ Each({"conformal guarantee", "causal prevention"}, {"future work", NoConformal}),
          Disclaimers \cup {Source}, "spelled", FALSE, FALSE)
(* Mutant: a qualifier is lost. *)
check_batch9j_strict ==
  Checker("around", Always ++ Each({"theorem"}, {})
                      ++ Each({"conformal guarantee", "causal prevention"}, {"future work", NoCausal}),
          Disclaimers \cup {Source}, "spelled", FALSE, FALSE)

check_batch9j ==
  Checker("around", Always ++ Each({"theorem"}, {})
                      ++ Each({"conformal guarantee", "causal prevention"},
                              {"future work", NoConformal, NoCausal}),
          Disclaimers \cup {Source}, "spelled", FALSE, FALSE)

(* The denial of a theorem, "not a theorem", is not among the tokens. *)
FileChecker == Checker("report", Always ++ OwnDenial ++ Each({"theorem"}, {}),
                       Disclaimers \cup {Source}, "report", TRUE, TRUE)
check_batch9k == FileChecker
check_batch9l == FileChecker
check_batch9m == FileChecker
check_batch9n == FileChecker
check_batch9o == FileChecker

LineChecker(excuse, required) == Checker("line", excuse, required, "corpus", TRUE, TRUE)
check_batchT1 ==
  LineChecker(Always ++ Each({"causal prevention"}, {NoCausal})
                ++ Each({"conformal guarantee"}, {NoProduction})
                ++ Each({"theorem"}, {"future work"}),
              {NoCausal, NoProduction})
check_batchT2 == LineChecker(Always ++ OwnDenial, Disclaimers)
check_batchT6 == LineChecker(Always ++ OwnDenial, Disclaimers)
check_batchT13 == LineChecker(Always ++ OwnDenial, Disclaimers)
check_batchT14 == LineChecker(Always ++ OwnDenial, Disclaimers)
check_batchT15 == LineChecker(Always ++ OwnDenial ++ Each({"theorem"}, {"future work"}), Disclaimers)

(* The package is whatever files its directory has; any denial excuses. *)
check_internal_evidence_package ==
  Checker("first", Each(Forbidden \ {"theorem"}, Disclaimers),
          Disclaimers \cup {Source}, "corpus", FALSE, TRUE)

Checkers == {check_method_claim_boundaries, check_batch9h, check_batch9i, check_batch9j,
             check_batch9k, check_batchT1, check_batchT2, check_batchT15,
             check_internal_evidence_package}

(***********************************************************************************)
(* What a checker finds                                                              *)
(***********************************************************************************)
(* Every occurrence is looked at, with the text just before it. *)
phrase_hits(checker, text) ==
  LET line == FlattenSeq(text)
  IN {p \in checker.forbidden : \E i \in Occurrences(line, p) :
        ~SomeOf(Before(line, i), checker.excuse[p])}
conditional_hit(checker, text) ==
  LET line == FlattenSeq(text)
  IN {p \in checker.forbidden : \E i \in Occurrences(line, p) :
        ~SomeOf(Around(line, i), checker.excuse[p])}
(* One excuse anywhere in the report is enough for every occurrence. *)
check_text(checker, text) ==
  {p \in checker.forbidden :
     TextSays(text, p) /\ ~SomeOf(FlattenSeq(text), checker.excuse[p])}
allowed(checker, line, phrase) == SomeOf(line, checker.excuse[phrase])
line_hits(checker, text) ==
  {p \in checker.forbidden : \E l \in DOMAIN text :
     Says(text[l], p) /\ ~allowed(checker, text[l], p)}
(* Only the first occurrence on a line is looked at. *)
forbidden_hits(checker, text) ==
  {p \in checker.forbidden : \E l \in DOMAIN text :
     /\ Says(text[l], p)
     /\ ~SomeOf(Around(text[l], Min(Occurrences(text[l], p))), checker.excuse[p])}

Hits(checker, text) ==
  CASE checker.scope = "before" -> phrase_hits(checker, text)
    [] checker.scope = "around" -> conditional_hit(checker, text)
    [] checker.scope = "report" -> check_text(checker, text)
    [] checker.scope = "line"   -> line_hits(checker, text)
    [] checker.scope = "first"  -> forbidden_hits(checker, text)

Existing(corpus) == {f \in ReportFiles : corpus[f] \notin {Absent, Document}}

(* "CodeTraceBench-derived" in lower case is never in the list of what a report      *)
(* misses, which keeps its spelling: any report that exists is taken to state it.    *)
MissingConcepts(checker, corpus) ==
  LET States(f, c) == \/ TextSays(corpus[f], c)
                      \/ checker.stated = "spelled" /\ c = Source
  IN {c \in checker.required :
        IF checker.stated = "report" THEN \E f \in Existing(corpus) : ~States(f, c)
        ELSE \A f \in Existing(corpus) : ~States(f, c)}

(* The package must hold reports only, and none of them a draft for publication. *)
check_package(corpus) ==
  \A f \in ReportFiles : /\ corpus[f] # Document
                         /\ ~TextSays(corpus[f], "publication draft")

Passed(checker, corpus) ==
  /\ \A f \in Existing(corpus) : Hits(checker, corpus[f]) = {}
  /\ checker.closed => Existing(corpus) = ReportFiles
  /\ MissingConcepts(checker, corpus) = {}
  /\ checker = check_internal_evidence_package => check_package(corpus)

ExitStatus(checker, corpus) == IF checker.exits /\ ~Passed(checker, corpus) THEN 1 ELSE 0
====================================================================================
