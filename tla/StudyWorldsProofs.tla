-------------------------- MODULE StudyWorldsProofs --------------------------
(* Theorems on the study's worlds.                                                    *)
(*                                                                                    *)
(* What the feasibility-aware controller refuses for the prevalence of failures       *)
(* is out of reach of every warning policy, on every split: it need not be searched   *)
(* for.  The argument counts: a policy that misses M of B bad trajectories warns at   *)
(* B - M of them at least, so that miss risk and burden cannot both be small where    *)
(* B is a large share of all.  And a correction of the tables' rates for the number   *)
(* of comparisons only ever takes thresholds away, so that the refusal takes none.    *)
(*                                                                                    *)
(* A warning that was given stays, whatever rows follow, and no shuffle leaves a      *)
(* role of the split without rows, or without positives it could have had.            *)
(*                                                                                    *)
(* A clean run that is declared has the manifest's very next step for the target of   *)
(* every prefix.  And the rows that thresholds allow are nested, so that selections   *)
(* that allow equally many decide alike.                                              *)
(*                                                                                    *)
(* And a statement a claim checker requires of reports is never what it holds against *)
(* them.                                                                              *)
EXTENDS StudyWorlds, FiniteSetTheorems, SequenceTheorems, WellFoundedInduction, TLAPS

(* The rates a user asks for, and times of first events. *)
IsRate(a) == a \in Nat \X (Nat \ {0})
IsTiming(w, f) ==
  /\ IsFiniteSet(DOMAIN f)
  /\ DOMAIN w = DOMAIN f
  /\ \A t \in DOMAIN f : f[t] \in Int /\ w[t] \in Int /\ f[t] <= Never
BadOf(f)        == {t \in DOMAIN f : f[t] < Never}
CoveredOf(w, f) == {t \in BadOf(f) : w[t] <= f[t]}
WarnedOf(w, f)  == {t \in DOMAIN f : w[t] < Never}

---------------------------------------------------------------------------------
(* Arithmetic *)

LEMMA TimesMonotone ==
  ASSUME NEW a \in Int, NEW b \in Int, NEW c \in Nat, a <= b
  PROVE  a * c <= b * c
  OBVIOUS

LEMMA TimesStrict ==
  ASSUME NEW a \in Int, NEW b \in Int, NEW c \in Nat \ {0}
  PROVE  a < b <=> a * c < b * c
  OBVIOUS

(* B bad of N, M missed, W warned at; at a/a' and b/b' the limits on miss risk and   *)
(* burden, and P/Q a prevalence no larger than B/N with P/Q - a/a' above b/b'.       *)
LEMMA LimitsConflict ==
  ASSUME NEW P \in Int, NEW Q \in Nat \ {0},
         NEW a1 \in Nat, NEW a2 \in Nat \ {0}, NEW b1 \in Nat, NEW b2 \in Nat \ {0},
         NEW B \in Nat, NEW N \in Nat \ {0}, NEW M \in Nat, NEW W \in Nat,
         b1 * (Q * a2) < (P * a2 - a1 * Q) * b2, P * N <= B * Q,
         M * a2 <= a1 * B, W * b2 <= b1 * N, W >= B - M, B <= N
  PROVE  FALSE
<1>1. (b1 * (Q * a2)) * N < ((P * a2 - a1 * Q) * b2) * N
  BY TimesStrict
<1>2. ((P * a2 - a1 * Q) * b2) * N = (P * N) * (a2 * b2) - a1 * Q * b2 * N
  OBVIOUS
<1>3. (P * N) * (a2 * b2) <= (B * Q) * (a2 * b2)
  BY TimesMonotone
<1>4. (b1 * a2 * N) * Q < (B * a2 * b2 - a1 * b2 * N) * Q
  BY <1>1, <1>2, <1>3
<1>5. b1 * a2 * N < B * a2 * b2 - a1 * b2 * N
  BY <1>4, TimesStrict
<1>6. B * (a1 * b2) <= N * (a1 * b2)
  BY TimesMonotone
<1>7. (M * a2) * b2 <= (a1 * B) * b2
  BY TimesMonotone
<1>8. (B - M) * (a2 * b2) <= W * (a2 * b2)
  BY TimesMonotone
<1>9. (W * b2) * a2 <= (b1 * N) * a2
  BY TimesMonotone
<1> QED
  BY <1>5, <1>6, <1>7, <1>8, <1>9

---------------------------------------------------------------------------------
(* Counting *)

LEMMA Counts ==
  ASSUME NEW w, NEW f, IsTiming(w, f)
  PROVE  LET n == Tally(w, f) IN
         /\ n.all \in Nat /\ n.bad \in Nat /\ n.missed \in Nat /\ n.warned \in Nat
         /\ n.bad <= n.all /\ n.missed <= n.bad /\ n.warned <= n.all
         /\ n.warned >= n.bad - n.missed /\ n.covered = n.bad - n.missed
<1> DEFINE all == DOMAIN f   bad == BadOf(f)   covered == CoveredOf(w, f)
           warned == WarnedOf(w, f)
<1>1. /\ Tally(w, f).all = Cardinality(all)
      /\ Tally(w, f).bad = Cardinality(bad)
      /\ Tally(w, f).missed = Cardinality(bad \ covered)
      /\ Tally(w, f).warned = Cardinality(warned)
      /\ Tally(w, f).covered = Cardinality(covered)
  BY DEF Tally, BadOf, CoveredOf, WarnedOf
<1>2. bad \subseteq all /\ covered \subseteq bad /\ covered \subseteq warned /\ warned \subseteq all
  BY MaxRowsAssumption DEF IsTiming, BadOf, CoveredOf, WarnedOf, Never
<1> HIDE DEF all, bad, covered, warned
<1>3. IsFiniteSet(all)
  BY DEF IsTiming, all
<1>4. IsFiniteSet(bad) /\ IsFiniteSet(warned) /\ IsFiniteSet(covered)
  BY <1>2, <1>3, FS_Subset
<1>5. /\ Cardinality(bad) <= Cardinality(all) /\ Cardinality(warned) <= Cardinality(all)
      /\ Cardinality(covered) <= Cardinality(warned) /\ Cardinality(covered) <= Cardinality(bad)
  BY <1>2, <1>3, <1>4, FS_Subset
<1>6. /\ IsFiniteSet(bad \ covered)
      /\ Cardinality(bad \ covered) = Cardinality(bad) - Cardinality(covered)
  <2>1. bad \cap covered = covered
    BY <1>2
  <2> QED
    BY <1>4, <2>1, FS_Difference
<1>7. /\ Cardinality(all) \in Nat /\ Cardinality(bad) \in Nat
      /\ Cardinality(warned) \in Nat /\ Cardinality(covered) \in Nat
      /\ Cardinality(bad \ covered) \in Nat
  BY <1>3, <1>4, <1>6, FS_CardinalityType
<1> QED
  BY <1>1, <1>5, <1>6, <1>7

---------------------------------------------------------------------------------
(* A limit on the burden below what a prevalence no larger than the empirical one   *)
(* leaves, after the limit on the miss risk, is met by no policy.                    *)
THEOREM PrevalenceBoundsPolicies ==
  ASSUME NEW w, NEW f, IsTiming(w, f),
         NEW alpha, IsRate(alpha), NEW beta, IsRate(beta),
         NEW p \in Int \X (Nat \ {0}),
         Leq(p, Rate(Tally(w, f).bad, Tally(w, f).all)),
         Less(beta, structural_burden_lower_bound(alpha, p))
  PROVE  LET m == compute_trajectory_event_losses(w, f) IN
         ~(Leq(m.miss_rate, alpha) /\ Leq(m.trajectory_burden, beta))
<1> DEFINE n == Tally(w, f)
           P == p[1]       Q == p[2]
           a1 == alpha[1]  a2 == alpha[2]
           b1 == beta[1]   b2 == beta[2]
<1>1. /\ P \in Int /\ Q \in Nat \ {0} /\ a1 \in Nat /\ a2 \in Nat \ {0}
      /\ b1 \in Nat /\ b2 \in Nat \ {0}
  BY DEF IsRate
<1>2. /\ n.all \in Nat /\ n.bad \in Nat /\ n.missed \in Nat /\ n.warned \in Nat
      /\ n.bad <= n.all /\ n.warned >= n.bad - n.missed
  BY Counts
<1>3. b1 * (Q * a2) < (P * a2 - a1 * Q) * b2 /\ P * a2 - a1 * Q > 0
  <2> DEFINE x == P * a2 - a1 * Q
  <2>1. structural_burden_lower_bound(alpha, p) = AtLeastZero(<<x, Q * a2>>)
    BY DEF structural_burden_lower_bound, Minus
  <2>2. x \in Int /\ Q * a2 \in Nat
    BY <1>1
  <2> HIDE DEF x
  <2>3. CASE x <= 0
    <3>1. AtLeastZero(<<x, Q * a2>>) = Zero
      BY <2>2, <2>3 DEF AtLeastZero, Leq, Zero
    <3> QED
      BY <1>1, <2>1, <3>1 DEF Less, Zero
  <2>4. CASE x > 0
    <3>1. AtLeastZero(<<x, Q * a2>>) = <<x, Q * a2>>
      BY <2>2, <2>4 DEF AtLeastZero, Leq, Zero
    <3>2. b1 * (Q * a2) < x * b2
      BY <2>1, <3>1 DEF Less
    <3> QED
      BY <2>4, <3>2 DEF x
  <2> QED
    BY <2>2, <2>3, <2>4
<1>4. P > 0
  <2> SUFFICES ASSUME P <= 0 PROVE FALSE
    BY <1>1
  <2>1. P * a2 <= 0 * a2
    BY <1>1, TimesMonotone
  <2>2. a1 * Q >= 0
    BY <1>1
  <2> QED
    BY <1>1, <1>3, <2>1, <2>2
<1>5. n.all # 0 /\ n.bad # 0 /\ P * n.all <= n.bad * Q
  <2>1. CASE n.all = 0
    <3>1. P * 1 <= 0 * Q
      BY <2>1 DEF Rate, RateOr, Leq, Zero
    <3> QED
      BY <1>1, <1>4, <3>1
  <2>2. CASE n.all # 0
    <3>1. P * n.all <= n.bad * Q
      BY <2>2 DEF Rate, RateOr, Leq
    <3>2. P * n.all > 0
      BY <1>1, <1>2, <1>4, <2>2
    <3> QED
      BY <1>1, <1>2, <2>2, <3>1, <3>2
  <2> QED
    BY <2>1, <2>2
<1> DEFINE m == compute_trajectory_event_losses(w, f)
<1>6. m.miss_rate = <<n.missed, n.bad>> /\ m.trajectory_burden = <<n.warned, n.all>>
  BY <1>5 DEF compute_trajectory_event_losses, Rate, RateOr
<1> HIDE DEF n, m
<1>7. ASSUME Leq(m.miss_rate, alpha), Leq(m.trajectory_burden, beta)
      PROVE  FALSE
  <2>1. n.missed * a2 <= a1 * n.bad /\ n.warned * b2 <= b1 * n.all
    BY <1>6, <1>7 DEF Leq
  <2> QED
    BY <1>1, <1>2, <1>3, <1>5, <2>1, LimitsConflict
<1> QED
  BY <1>7 DEF m

(* A split: finitely many trajectories, with the bad ones among their rows.         *)
IsSplit(split) ==
  /\ IsFiniteSet(DOMAIN split)
  /\ \A t \in DOMAIN split : split[t].bad \in SUBSET (1..MaxRows)

\* The intervals up to the members of N, ordered by inclusion, have a least.
LEMMA LeastExists ==
  ASSUME NEW N \in SUBSET Nat, N # {}
  PROVE  \E n \in N : \A m \in N : n <= m
<1> DEFINE upTo == {0..n : n \in N}
<1>1. upTo \subseteq FiniteSubsetsOf(Nat) /\ upTo # {}
  <2>1. \A n \in N : 0..n \subseteq Nat
    OBVIOUS
  <2>2. \A n \in N : IsFiniteSet(0..n)
    BY FS_Interval
  <2> QED
    BY <2>1, <2>2 DEF FiniteSubsetsOf
<1>2. PICK I \in upTo : \A J \in upTo : <<J, I>> \notin StrictSubsetOrdering(Nat)
  BY <1>1, FS_StrictSubsetOrderingWellFounded, WFMin
<1>3. PICK n \in N : I = 0..n
  OBVIOUS
<1>4. ASSUME NEW m \in N PROVE n <= m
  <2> SUFFICES ASSUME m < n PROVE FALSE
    OBVIOUS
  <2>1. 0..m \subseteq 0..n /\ n \in 0..n /\ n \notin 0..m
    OBVIOUS
  <2>2. 0..m \in SUBSET Nat /\ 0..n \in SUBSET Nat
    OBVIOUS
  <2>3. 0..m # 0..n
    BY <2>1
  <2>4. <<0..m, 0..n>> \in StrictSubsetOrdering(Nat)
    BY <2>1, <2>2, <2>3 DEF StrictSubsetOrdering
  <2>5. 0..m \in upTo
    OBVIOUS
  <2> QED
    BY <1>2, <1>3, <2>4, <2>5
<1> QED
  BY <1>4

LEMMA FailureBeforeNever ==
  ASSUME NEW t, t.bad \in SUBSET (1..MaxRows)
  PROVE  /\ FirstFailure(t) \in Int /\ FirstFailure(t) <= Never
         /\ FirstFailure(t) < Never <=> t.bad # {}
<1>1. CASE t.bad = {}
  BY <1>1, MaxRowsAssumption DEF FirstFailure, Earliest, Never
<1>2. CASE t.bad # {}
  <2>1. \E x \in t.bad : \A y \in t.bad : x <= y
    BY <1>2, LeastExists
  <2>2. Min(t.bad) \in t.bad
    BY <2>1 DEF Min
  <2> QED
    BY <1>2, <2>2, MaxRowsAssumption DEF FirstFailure, Earliest, Never
<1> QED
  BY <1>1, <1>2

LEMMA TimingsOfSplits ==
  ASSUME NEW split, IsSplit(split), NEW w \in [DOMAIN split -> Int]
  PROVE  /\ IsTiming(w, FailureTimes(split))
         /\ Tally(w, FailureTimes(split)).all = Cardinality(DOMAIN split)
         /\ Tally(w, FailureTimes(split)).bad = Cardinality({t \in DOMAIN split : split[t].bad # {}})
<1> DEFINE f == FailureTimes(split)
<1>1. /\ DOMAIN f = DOMAIN split
      /\ \A t \in DOMAIN split : f[t] = FirstFailure(split[t])
  BY DEF FailureTimes
<1>2. IsTiming(w, f)
  BY <1>1, FailureBeforeNever DEF IsTiming, IsSplit
<1>3. BadOf(f) = {t \in DOMAIN split : split[t].bad # {}}
  BY <1>1, FailureBeforeNever DEF BadOf, IsSplit
<1>4. Tally(w, f).bad = Cardinality(BadOf(f)) /\ Tally(w, f).all = Cardinality(DOMAIN split)
  BY <1>1 DEF Tally, BadOf
<1> QED
  BY <1>2, <1>3, <1>4

(* Whatever the controller refuses, for the empirical prevalence or for a lower      *)
(* bound of it, no warning policy reaches on the split that was counted.             *)
THEOREM RefusedIsOutOfReach ==
  ASSUME NEW split, IsSplit(split), NEW w \in [DOMAIN split -> Int],
         NEW alpha, IsRate(alpha), NEW beta, IsRate(beta),
         NEW p_lcb \in Int \X (Nat \ {0}),
         Leq(p_lcb, estimate_first_failure_prevalence(split).p_hat),
         LET prev == estimate_first_failure_prevalence(split)
             veto == structural_feasibility_check(alpha, beta, prev.p_hat, p_lcb)
         IN veto.empirical \/ veto.certified
  PROVE  LET m == compute_trajectory_event_losses(w, FailureTimes(split)) IN
         ~(Leq(m.miss_rate, alpha) /\ Leq(m.trajectory_burden, beta))
<1> DEFINE f == FailureTimes(split)
           n == Tally(w, f)
           p_hat == estimate_first_failure_prevalence(split).p_hat
<1>1. IsTiming(w, f)
  BY TimingsOfSplits
<1>2. p_hat = Rate(n.bad, n.all)
  BY TimingsOfSplits DEF estimate_first_failure_prevalence
<1>3. n.all \in Nat /\ n.bad \in Nat
  BY <1>1, Counts
<1> HIDE DEF n, f
<1>4. p_hat \in Int \X (Nat \ {0})
  BY <1>2, <1>3 DEF Rate, RateOr, Zero
<1>5. Leq(p_hat, p_hat)
  BY <1>4 DEF Leq
<1> HIDE DEF p_hat
<1>6. PICK p \in {p_hat, p_lcb} : Less(beta, structural_burden_lower_bound(alpha, p))
  BY DEF structural_feasibility_check, p_hat
<1>7. p \in Int \X (Nat \ {0}) /\ Leq(p, Rate(n.bad, n.all))
  BY <1>2, <1>4, <1>5 DEF p_hat
<1> QED
  BY <1>1, <1>6, <1>7, PrevalenceBoundsPolicies DEF n, f

---------------------------------------------------------------------------------
(* Rates *)

(* A number: a rate, or the negative of one. *)
IsNumber(a) == a \in Int \X (Nat \ {0})

LEMMA LeqChain ==
  ASSUME NEW a, IsNumber(a), NEW b, IsNumber(b), NEW c, IsNumber(c), Leq(a, b), Leq(b, c)
  PROVE  Leq(a, c)
<1> DEFINE a1 == a[1]  a2 == a[2]  b1 == b[1]  b2 == b[2]  c1 == c[1]  c2 == c[2]
<1>1. /\ a1 \in Int /\ b1 \in Int /\ c1 \in Int
      /\ a2 \in Nat \ {0} /\ b2 \in Nat \ {0} /\ c2 \in Nat \ {0}
  BY DEF IsNumber
<1>2. a1 * b2 <= b1 * a2 /\ b1 * c2 <= c1 * b2
  BY DEF Leq
<1> HIDE DEF a1, a2, b1, b2, c1, c2
<1>3. (a1 * b2) * c2 <= (b1 * a2) * c2
  BY <1>1, <1>2, TimesMonotone
<1>4. (b1 * c2) * a2 <= (c1 * b2) * a2
  BY <1>1, <1>2, TimesMonotone
<1>5. ~((c1 * a2) * b2 < (a1 * c2) * b2)
  BY <1>1, <1>3, <1>4
<1>6. ~(c1 * a2 < a1 * c2)
  BY <1>1, <1>5, TimesStrict
<1> QED
  BY <1>1, <1>6 DEF Leq, a1, a2, c1, c2

LEMMA LeqTransitive ==
  ASSUME NEW a, IsRate(a), NEW b, IsRate(b), NEW c, IsRate(c), Leq(a, b), Leq(b, c)
  PROVE  Leq(a, c)
<1>1. IsNumber(a) /\ IsNumber(b) /\ IsNumber(c)
  BY DEF IsRate, IsNumber
<1> QED
  BY <1>1, LeqChain

LEMMA LeqReflexive == ASSUME NEW a, IsRate(a) PROVE Leq(a, a)
  BY DEF IsRate, Leq

LEMMA PlusMonotone ==
  ASSUME NEW a, IsRate(a), NEW b, IsRate(b), NEW c, IsRate(c)
  PROVE  /\ IsRate(Plus(a, b))
         /\ Leq(a, Plus(a, b))
         /\ Leq(b, c) => Leq(Plus(a, b), Plus(a, c))
<1> DEFINE a1 == a[1]  a2 == a[2]  b1 == b[1]  b2 == b[2]  c1 == c[1]  c2 == c[2]
<1>1. /\ a1 \in Nat /\ b1 \in Nat /\ c1 \in Nat
      /\ a2 \in Nat \ {0} /\ b2 \in Nat \ {0} /\ c2 \in Nat \ {0}
  BY DEF IsRate
<1>2. /\ Plus(a, b) = <<a1 * b2 + b1 * a2, a2 * b2>>
      /\ Plus(a, c) = <<a1 * c2 + c1 * a2, a2 * c2>>
      /\ Leq(b, c) <=> b1 * c2 <= c1 * b2
      /\ a = <<a1, a2>>
  BY DEF Plus, Leq, IsRate
<1> HIDE DEF a1, a2, b1, b2, c1, c2
<1>3. /\ a1 * b2 + b1 * a2 \in Nat /\ a2 * b2 \in Nat \ {0}
      /\ a1 * (a2 * b2) <= (a1 * b2 + b1 * a2) * a2
  <2>1. /\ a1 * b2 \in Nat /\ b1 * a2 \in Nat /\ a2 * b2 \in Nat /\ a2 * a2 \in Nat
    BY <1>1
  <2>2. a2 * b2 # 0
    BY <1>1
  <2>3. (a1 * b2 + b1 * a2) * a2 = a1 * (a2 * b2) + b1 * (a2 * a2)
    BY <1>1
  <2>4. b1 * (a2 * a2) >= 0
    BY <1>1, <2>1
  <2> QED
    BY <1>1, <2>1, <2>2, <2>3, <2>4
<1>4. ASSUME b1 * c2 <= c1 * b2
      PROVE  (a1 * b2 + b1 * a2) * (a2 * c2) <= (a1 * c2 + c1 * a2) * (a2 * b2)
  <2>1. a2 * a2 \in Nat
    BY <1>1
  <2>2. (b1 * c2) * (a2 * a2) <= (c1 * b2) * (a2 * a2)
    BY <1>1, <1>4, <2>1, TimesMonotone
  <2>3. /\ (a1 * b2 + b1 * a2) * (a2 * c2) = a1 * b2 * a2 * c2 + (b1 * c2) * (a2 * a2)
        /\ (a1 * c2 + c1 * a2) * (a2 * b2) = a1 * b2 * a2 * c2 + (c1 * b2) * (a2 * a2)
    BY <1>1
  <2> QED
    BY <1>1, <2>2, <2>3
<1> QED
  BY <1>1, <1>2, <1>3, <1>4 DEF IsRate, Leq

LEMMA AtMostOneKeepsOrder ==
  ASSUME NEW a, IsRate(a), NEW b, IsRate(b), Leq(a, b)
  PROVE  /\ IsRate(AtMostOne(a)) /\ Leq(AtMostOne(a), One)
         /\ Leq(AtMostOne(a), AtMostOne(b))
         /\ Leq(a, One) => Leq(a, AtMostOne(b))
<1>1. IsRate(One)
  BY DEF IsRate, One
<1>2. Leq(One, a) \/ Leq(a, One)
  BY DEF IsRate, Leq, One
<1>3. Leq(One, b) \/ Leq(b, One)
  BY DEF IsRate, Leq, One
<1>4. Leq(One, a) => Leq(One, b)
  BY <1>1, LeqTransitive
<1> QED
  BY <1>1, <1>2, <1>3, <1>4, LeqReflexive DEF AtMostOne

LEMMA DivisionExact ==
  ASSUME NEW k \in Nat, NEW q \in Nat \ {0}
  PROVE  (k * q) \div q = k /\ (k * q) % q = 0
  OBVIOUS

(* The rate is that of k in n trials. *)
IsCount(rate, n, k) == k \in 0..n /\ rate[1] * n = k * rate[2]

LEMMA CountFromRate ==
  ASSUME NEW n \in Nat \ {0}, NEW rate, IsRate(rate), NEW k, IsCount(rate, n, k)
  PROVE  _count_from_rate(rate, n) = k
<1>1. Times(rate, <<n, 1>>) = <<k * rate[2], rate[2]>>
  BY DEF Times, IsCount, IsRate
<1>2. k \in Nat /\ k <= n /\ rate[2] \in Nat \ {0}
  BY DEF IsCount, IsRate
<1>3. Rounded(<<k * rate[2], rate[2]>>) = k
  <2>1. (k * rate[2]) \div rate[2] = k /\ (k * rate[2]) % rate[2] = 0
    BY <1>2, DivisionExact
  <2> DEFINE q == rate[2]  N == k * rate[2]
  <2> HIDE DEF q, N
  <2>2. N \div q = k /\ N % q = 0 /\ q \in Nat \ {0}
    BY <1>2, <2>1 DEF q, N
  <2>3. Rounded(<<N, q>>) = k
    BY <2>2 DEF Rounded
  <2> QED
    BY <2>3 DEF q, N
<1>4. Min({n, k}) = k
  BY <1>2 DEF Min
<1>5. Max({0, k}) = k
  BY <1>2 DEF Max
<1> QED
  BY <1>1, <1>3, <1>4, <1>5 DEF _count_from_rate

LEMMA CountRate ==
  ASSUME NEW n \in Nat \ {0}, NEW rate, IsRate(rate), NEW k, IsCount(rate, n, k)
  PROVE  /\ IsRate(<<k, n>>)
         /\ Leq(rate, <<k, n>>)
         /\ Leq(rate, One)
         /\ Leq(rate, <<k + 1, n + 1>>) /\ IsRate(<<k + 1, n + 1>>)
<1> DEFINE p == rate[1]  q == rate[2]
<1>1. p \in Nat /\ q \in Nat \ {0} /\ k \in Nat /\ k <= n /\ p * n = k * q
  BY DEF IsRate, IsCount
<1> HIDE DEF p, q
<1>2. p <= q
  <2>1. k * q <= n * q
    BY <1>1, TimesMonotone
  <2>2. ~(q * n < p * n)
    BY <1>1, <2>1
  <2> QED
    BY <1>1, <2>2, TimesStrict
<1>3. p * (n + 1) <= (k + 1) * q
  BY <1>1, <1>2
<1> QED
  BY <1>1, <1>2, <1>3 DEF IsRate, Leq, One, p, q

LEMMA BoundsHold ==
  ASSUME NEW n \in 1..MaxTrials, NEW c \in 1..MaxComparisons, NEW k \in 0..n
  PROVE  /\ IsRate(HoeffdingSlack(n, c))
         /\ c > 1 => Leq(HoeffdingSlack(n, c - 1), HoeffdingSlack(n, c))
         /\ IsRate(clopper_pearson_upper_bound(k, n, c))
         /\ Leq(<<k, n>>, clopper_pearson_upper_bound(k, n, c))
         /\ Leq(clopper_pearson_upper_bound(k, n, c), One)
         /\ c > 1 => Leq(clopper_pearson_upper_bound(k, n, c - 1), clopper_pearson_upper_bound(k, n, c))
<1>1. CASE k = n
  BY <1>1, BoundsAssumption DEF clopper_pearson_upper_bound, IsRate, One, Leq
<1>2. CASE k # n
  BY <1>2, BoundsAssumption DEF clopper_pearson_upper_bound, IsRate
<1> QED
  BY <1>1, <1>2

\* The upper bound of a miss risk is one: it is a rate no smaller than the risk.
LEMMA UpperIsAbove ==
  ASSUME NEW correction \in Corrections, NEW n \in 1..MaxTrials, NEW m \in 1..MaxComparisons,
         NEW rate, IsRate(rate), NEW k, IsCount(rate, n, k)
  PROVE  LET upper == correction_upper_bound(correction, rate, n, m)
         IN IsRate(upper) /\ Leq(upper, One) /\ Leq(rate, upper)
<1> DEFINE upper == correction_upper_bound(correction, rate, n, m)
<1>1. /\ n \in Nat \ {0} /\ ~(n <= 0) /\ k \in 0..n
      /\ _count_from_rate(rate, n) = k
  BY CountFromRate, BoundsAssumption DEF IsCount
<1>2. ASSUME NEW x, IsRate(x), Leq(rate, x), upper = AtMostOne(x)
      PROVE  IsRate(upper) /\ Leq(upper, One) /\ Leq(rate, upper)
  BY <1>1, <1>2, CountRate, AtMostOneKeepsOrder, LeqReflexive
<1>3. ASSUME NEW c \in 1..MaxComparisons
      PROVE  LET x == clopper_pearson_upper_bound(k, n, c) IN IsRate(x) /\ Leq(rate, x)
  BY <1>1, BoundsHold, CountRate, LeqTransitive
<1>4. 1 \in 1..MaxComparisons
  BY BoundsAssumption
<1>5. CASE correction = "hoeffding_union_bound"
  <2> DEFINE y == Plus(rate, HoeffdingSlack(n, m))
  <2>1. IsRate(y) /\ Leq(rate, y)
    BY <1>1, BoundsHold, PlusMonotone
  <2>2. IsRate(AtMostOne(y)) /\ Leq(rate, AtMostOne(y))
    BY <1>1, <2>1, CountRate, AtMostOneKeepsOrder, LeqReflexive
  <2>3. upper = AtMostOne(AtMostOne(y))
    BY <1>1, <1>5 DEF correction_upper_bound, hoeffding_union_upper_bound
  <2> QED
    BY <1>2, <2>2, <2>3
<1>6. CASE correction = "clopper_pearson_union"
  <2>1. upper = AtMostOne(clopper_pearson_upper_bound(k, n, m))
    BY <1>1, <1>6 DEF correction_upper_bound
  <2> QED
    BY <1>2, <1>3, <2>1
<1>7. CASE correction = "plus_one_empirical_proxy"
  <2>1. upper = AtMostOne(<<k + 1, n + 1>>)
    BY <1>1, <1>7 DEF correction_upper_bound
  <2> QED
    BY <1>1, <1>2, <2>1, CountRate
<1>8. CASE correction = "pointwise_clopper_pearson_no_union"
  <2>1. upper = AtMostOne(clopper_pearson_upper_bound(k, n, 1))
    BY <1>1, <1>8 DEF correction_upper_bound
  <2> QED
    BY <1>2, <1>3, <1>4, <2>1
<1> QED
  BY <1>5, <1>6, <1>7, <1>8 DEF Corrections

\* More comparisons, no smaller a bound.
LEMMA UpperStep ==
  ASSUME NEW correction \in Corrections, NEW n \in 1..MaxTrials, NEW m \in 1..MaxComparisons, m > 1,
         NEW rate, IsRate(rate), NEW k, IsCount(rate, n, k)
  PROVE  Leq(correction_upper_bound(correction, rate, n, m - 1),
             correction_upper_bound(correction, rate, n, m))
<1> DEFINE upper(c) == correction_upper_bound(correction, rate, n, c)
<1>1. /\ n \in Nat \ {0} /\ ~(n <= 0) /\ k \in 0..n
      /\ _count_from_rate(rate, n) = k
  BY CountFromRate, BoundsAssumption DEF IsCount
<1>2. m - 1 \in 1..MaxComparisons
  BY BoundsAssumption
<1>3. CASE correction = "hoeffding_union_bound"
  <2> DEFINE y(c) == Plus(rate, HoeffdingSlack(n, c))
  <2>1. IsRate(y(m - 1)) /\ IsRate(y(m)) /\ Leq(y(m - 1), y(m))
    <3>1. /\ IsRate(HoeffdingSlack(n, m - 1)) /\ IsRate(HoeffdingSlack(n, m))
          /\ Leq(HoeffdingSlack(n, m - 1), HoeffdingSlack(n, m))
      BY <1>1, <1>2, BoundsHold
    <3> QED
      BY <3>1, PlusMonotone
  <2>2. /\ IsRate(AtMostOne(y(m - 1))) /\ IsRate(AtMostOne(y(m)))
        /\ Leq(AtMostOne(y(m - 1)), AtMostOne(y(m)))
    BY <2>1, AtMostOneKeepsOrder, LeqReflexive
  <2>3. upper(m - 1) = AtMostOne(AtMostOne(y(m - 1))) /\ upper(m) = AtMostOne(AtMostOne(y(m)))
    BY <1>1, <1>3 DEF correction_upper_bound, hoeffding_union_upper_bound
  <2> QED
    BY <2>2, <2>3, AtMostOneKeepsOrder
<1>4. CASE correction = "clopper_pearson_union"
  <2> DEFINE y(c) == clopper_pearson_upper_bound(k, n, c)
  <2>1. IsRate(y(m - 1)) /\ IsRate(y(m)) /\ Leq(y(m - 1), y(m))
    BY <1>1, <1>2, BoundsHold
  <2>2. upper(m - 1) = AtMostOne(y(m - 1)) /\ upper(m) = AtMostOne(y(m))
    BY <1>1, <1>4 DEF correction_upper_bound
  <2> QED
    BY <2>1, <2>2, AtMostOneKeepsOrder
<1>5. CASE correction \in {"plus_one_empirical_proxy", "pointwise_clopper_pearson_no_union"}
  <2>1. upper(m - 1) = upper(m)
    BY <1>1, <1>5 DEF correction_upper_bound
  <2> QED
    BY <2>1, UpperIsAbove, LeqReflexive
<1> QED
  BY <1>3, <1>4, <1>5 DEF Corrections

LEMMA UpperGrows ==
  ASSUME NEW correction \in Corrections, NEW n \in 1..MaxTrials, NEW m \in 1..MaxComparisons,
         NEW l \in 1..m, NEW rate, IsRate(rate), NEW k, IsCount(rate, n, k)
  PROVE  Leq(correction_upper_bound(correction, rate, n, l),
             correction_upper_bound(correction, rate, n, m))
<1> DEFINE upper(c) == correction_upper_bound(correction, rate, n, c)
           N == {c \in l..m : ~Leq(upper(l), upper(c))}
<1> SUFFICES ASSUME N # {} PROVE FALSE
  BY BoundsAssumption
<1>1. N \in SUBSET Nat
  BY BoundsAssumption
<1>2. PICK c \in N : \A d \in N : c <= d
  BY <1>1, LeastExists
<1>3. c \in l..m /\ ~Leq(upper(l), upper(c)) /\ c \in 1..MaxComparisons /\ l \in 1..MaxComparisons
  BY BoundsAssumption
<1>4. \A d \in 1..MaxComparisons : IsRate(upper(d))
  BY UpperIsAbove
<1>5. c # l
  BY <1>3, <1>4, LeqReflexive
<1>6. c - 1 \in l..m /\ c - 1 \notin N /\ c - 1 \in 1..MaxComparisons /\ c > 1
  BY <1>2, <1>3, <1>5, BoundsAssumption
<1>7. Leq(upper(l), upper(c - 1))
  BY <1>6
<1>8. Leq(upper(c - 1), upper(c))
  BY <1>3, <1>6, UpperStep
<1> QED
  BY <1>3, <1>4, <1>6, <1>7, <1>8, LeqTransitive

---------------------------------------------------------------------------------
(* Tables and corrections *)

(* A row of a calibration table: its rates are those of counts.  A table has no more *)
(* rows than the bounds have comparisons for.                                        *)
IsRow(row) ==
  /\ row.n_miss \in 0..MaxTrials /\ row.n_burden \in 0..MaxTrials
  /\ IsRate(row.miss) /\ Leq(row.miss, One)
  /\ IsRate(row.burden) /\ Leq(row.burden, One)
  /\ OptionATrials(row) > 0 => \E k : IsCount(row.miss, OptionATrials(row), k)
  /\ row.n_burden > 0 => \E k : IsCount(row.burden, row.n_burden, k)

IsTable(table) ==
  /\ Len(table) \in Nat /\ DOMAIN table = 1..Len(table) /\ 2 * Len(table) <= MaxComparisons
  /\ \A i \in DOMAIN table : IsRow(table[i])

LEMMA OptionABounds ==
  ASSUME NEW correction \in Corrections, NEW m \in 1..MaxComparisons, NEW row, IsRow(row)
  PROVE  LET upper == OptionAUpper(row, correction, m)
         IN IsRate(upper) /\ Leq(upper, One) /\ Leq(row.miss, upper)
<1> DEFINE n == OptionATrials(row)
<1>1. n \in 0..MaxTrials
  BY DEF IsRow, OptionATrials
<1>2. CASE n = 0
  <2>1. OptionAUpper(row, correction, m) = One
    BY <1>2 DEF OptionAUpper, correction_upper_bound
  <2> QED
    BY <2>1, LeqReflexive DEF IsRow, IsRate, One
<1>3. CASE n # 0
  <2>1. n \in 1..MaxTrials /\ n > 0
    BY <1>1, <1>3, BoundsAssumption
  <2>2. PICK k : IsCount(row.miss, n, k)
    BY <2>1 DEF IsRow
  <2>3. OptionAUpper(row, correction, m) = correction_upper_bound(correction, row.miss, n, m)
    BY DEF OptionAUpper
  <2> HIDE DEF n
  <2> QED
    BY <2>1, <2>2, <2>3, UpperIsAbove DEF IsRow
<1> QED
  BY <1>2, <1>3

\* Option C's bound of one loss is the same bound for twice the comparisons.
LEMMA DualBounds ==
  ASSUME NEW correction \in Corrections, NEW m \in Nat \ {0}, 2 * m <= MaxComparisons, NEW row, IsRow(row)
  PROVE  LET bounds == compute_dual_loss_bounds(row, correction, m)
             Upper(rate, n) == correction_upper_bound(correction, rate, n, 2 * m)
         IN /\ IsRate(bounds.miss_upper) /\ Leq(Upper(row.miss, row.n_miss), bounds.miss_upper)
            /\ IsRate(bounds.burden_upper) /\ Leq(Upper(row.burden, row.n_burden), bounds.burden_upper)
<1> DEFINE bounds == compute_dual_loss_bounds(row, correction, m)
           Upper(rate, n) == correction_upper_bound(correction, rate, n, 2 * m)
           Exact(rate, n) == IF n > 0 THEN clopper_pearson_upper_bound(_count_from_rate(rate, n), n, 2 * m) ELSE One
           Plain(rate, n) == AtMostOne(OneLossUpper(correction, rate, n, m))
<1>1. ASSUME NEW rate, IsRate(rate), NEW n \in 0..MaxTrials,
             n > 0 => \E k : IsCount(rate, n, k)
      PROVE  /\ correction = "clopper_pearson_union" =>
                  IsRate(Exact(rate, n)) /\ Leq(Upper(rate, n), Exact(rate, n))
             /\ correction # "clopper_pearson_union" =>
                  IsRate(Plain(rate, n)) /\ Leq(Upper(rate, n), Plain(rate, n))
  <2>1. CASE n = 0
    <3>1. Upper(rate, n) = One /\ Exact(rate, n) = One
      BY <2>1 DEF correction_upper_bound
    <3>2. OneLossUpper(correction, rate, n, m) = One
      BY <2>1 DEF OneLossUpper
    <3>3. AtMostOne(One) = One /\ IsRate(One) /\ Leq(One, One)
      BY DEF AtMostOne, IsRate, Leq, One
    <3> QED
      BY <3>1, <3>2, <3>3
  <2>2. CASE n # 0
    <3>1. n \in 1..MaxTrials /\ n > 0 /\ ~(n <= 0) /\ n \in Nat \ {0}
      BY <1>1, <2>2, BoundsAssumption
    <3>2. PICK k : IsCount(rate, n, k)
      BY <1>1, <3>1
    <3>3. _count_from_rate(rate, n) = k /\ k \in 0..n
      BY <1>1, <3>1, <3>2, CountFromRate DEF IsCount
    <3>4. 2 * m \in 1..MaxComparisons
      BY BoundsAssumption
    <3>5. IsRate(Upper(rate, n)) /\ Leq(Upper(rate, n), Upper(rate, n))
      BY <1>1, <3>1, <3>2, <3>4, UpperIsAbove, LeqReflexive
    <3>6. CASE correction = "clopper_pearson_union"
      <4> DEFINE x == clopper_pearson_upper_bound(k, n, 2 * m)
      <4>1. IsRate(x) /\ Leq(x, One)
        BY <3>1, <3>3, <3>4, BoundsHold
      <4>2. Upper(rate, n) = AtMostOne(x) /\ Exact(rate, n) = x
        BY <3>1, <3>3, <3>6 DEF correction_upper_bound
      <4>3. Leq(AtMostOne(x), x)
        BY <4>1, LeqReflexive DEF AtMostOne
      <4> QED
        BY <3>6, <4>1, <4>2, <4>3
    <3>7. CASE correction = "hoeffding_union_bound"
      <4>1. Plain(rate, n) = Upper(rate, n)
        BY <3>1, <3>7 DEF correction_upper_bound, OneLossUpper
      <4> QED
        BY <3>5, <3>7, <4>1
    <3>8. CASE correction = "plus_one_empirical_proxy"
      <4>1. Plain(rate, n) = Upper(rate, n)
        BY <3>1, <3>8 DEF correction_upper_bound, OneLossUpper
      <4> QED
        BY <3>5, <3>8, <4>1
    <3>9. CASE correction = "pointwise_clopper_pearson_no_union"
      <4>1. Plain(rate, n) = Upper(rate, n)
        BY <3>1, <3>9 DEF correction_upper_bound, OneLossUpper
      <4> QED
        BY <3>5, <3>9, <4>1
    <3> QED
      BY <3>6, <3>7, <3>8, <3>9 DEF Corrections
  <2> QED
    BY <2>1, <2>2
<1>2. row.n_miss > 0 => \E k : IsCount(row.miss, row.n_miss, k)
  BY DEF IsRow, OptionATrials
<1>3. /\ correction = "clopper_pearson_union" =>
           bounds = [miss_upper |-> Exact(row.miss, row.n_miss), burden_upper |-> Exact(row.burden, row.n_burden)]
      /\ correction # "clopper_pearson_union" =>
           bounds = [miss_upper |-> Plain(row.miss, row.n_miss), burden_upper |-> Plain(row.burden, row.n_burden)]
  BY DEF compute_dual_loss_bounds, clopper_pearson_dual_union_bounds
<1> HIDE DEF bounds, Upper, Exact, Plain
<1>4. /\ correction = "clopper_pearson_union" =>
           /\ IsRate(Exact(row.miss, row.n_miss)) /\ Leq(Upper(row.miss, row.n_miss), Exact(row.miss, row.n_miss))
           /\ IsRate(Exact(row.burden, row.n_burden))
           /\ Leq(Upper(row.burden, row.n_burden), Exact(row.burden, row.n_burden))
      /\ correction # "clopper_pearson_union" =>
           /\ IsRate(Plain(row.miss, row.n_miss)) /\ Leq(Upper(row.miss, row.n_miss), Plain(row.miss, row.n_miss))
           /\ IsRate(Plain(row.burden, row.n_burden))
           /\ Leq(Upper(row.burden, row.n_burden), Plain(row.burden, row.n_burden))
  BY <1>1, <1>2 DEF IsRow
<1>5. /\ IsRate(bounds.miss_upper) /\ Leq(Upper(row.miss, row.n_miss), bounds.miss_upper)
      /\ IsRate(bounds.burden_upper) /\ Leq(Upper(row.burden, row.n_burden), bounds.burden_upper)
  BY <1>3, <1>4
<1> QED
  BY <1>5 DEF bounds, Upper

\* What Option C bounds, Option A bounds as well, and the rates are no larger.
LEMMA RowBounds ==
  ASSUME NEW correction \in Corrections, NEW m \in Nat \ {0}, 2 * m <= MaxComparisons, NEW row, IsRow(row)
  PROVE  LET bounds == compute_dual_loss_bounds(row, correction, m)
         IN /\ Leq(OptionAUpper(row, correction, m), bounds.miss_upper)
            /\ Leq(row.miss, bounds.miss_upper)
            /\ Leq(row.burden, bounds.burden_upper)
<1> DEFINE bounds == compute_dual_loss_bounds(row, correction, m)
           Upper(rate, n) == correction_upper_bound(correction, rate, n, 2 * m)
<1>1. /\ IsRate(bounds.miss_upper) /\ Leq(Upper(row.miss, row.n_miss), bounds.miss_upper)
      /\ IsRate(bounds.burden_upper) /\ Leq(Upper(row.burden, row.n_burden), bounds.burden_upper)
  BY DualBounds
<1> HIDE DEF bounds
<1>2. /\ row.n_miss \in 0..MaxTrials /\ row.n_burden \in 0..MaxTrials
      /\ IsRate(row.miss) /\ Leq(row.miss, One) /\ IsRate(row.burden) /\ Leq(row.burden, One)
  BY DEF IsRow
<1>3. m \in 1..MaxComparisons /\ 2 * m \in 1..MaxComparisons /\ m \in 1..(2 * m)
  BY BoundsAssumption
<1>4. IsRate(One)
  BY DEF IsRate, One
<1>5. LET upper == OptionAUpper(row, correction, m)
      IN IsRate(upper) /\ Leq(upper, One) /\ Leq(row.miss, upper)
  BY <1>3, OptionABounds
<1>6. Leq(OptionAUpper(row, correction, m), bounds.miss_upper)
  <2>1. CASE row.n_miss = 0
    <3>1. Upper(row.miss, row.n_miss) = One
      BY <2>1 DEF correction_upper_bound
    <3> QED
      BY <1>1, <1>4, <1>5, <3>1, LeqTransitive
  <2>2. CASE row.n_miss # 0
    <3>1. OptionATrials(row) = row.n_miss /\ row.n_miss \in 1..MaxTrials /\ row.n_miss > 0
      BY <1>2, <2>2, BoundsAssumption DEF OptionATrials
    <3>2. PICK k : IsCount(row.miss, row.n_miss, k)
      BY <3>1 DEF IsRow
    <3>3. /\ OptionAUpper(row, correction, m) = correction_upper_bound(correction, row.miss, row.n_miss, m)
          /\ Leq(correction_upper_bound(correction, row.miss, row.n_miss, m), Upper(row.miss, row.n_miss))
          /\ IsRate(Upper(row.miss, row.n_miss))
      BY <1>2, <1>3, <3>1, <3>2, UpperGrows, UpperIsAbove DEF OptionAUpper
    <3> QED
      BY <1>1, <1>5, <3>3, LeqTransitive
  <2> QED
    BY <2>1, <2>2
<1>7. Leq(row.miss, bounds.miss_upper)
  BY <1>1, <1>2, <1>5, <1>6, LeqTransitive
<1>8. Leq(row.burden, bounds.burden_upper)
  <2>1. CASE row.n_burden = 0
    <3>1. Upper(row.burden, row.n_burden) = One
      BY <2>1 DEF correction_upper_bound
    <3> QED
      BY <1>1, <1>2, <1>4, <3>1, LeqTransitive
  <2>2. CASE row.n_burden # 0
    <3>1. row.n_burden \in 1..MaxTrials /\ row.n_burden > 0
      BY <1>2, <2>2, BoundsAssumption
    <3>2. PICK k : IsCount(row.burden, row.n_burden, k)
      BY <3>1 DEF IsRow
    <3>3. IsRate(Upper(row.burden, row.n_burden)) /\ Leq(row.burden, Upper(row.burden, row.n_burden))
      BY <1>2, <1>3, <3>1, <3>2, UpperIsAbove
    <3> QED
      BY <1>1, <1>2, <3>3, LeqTransitive
  <2> QED
    BY <2>1, <2>2
<1> QED
  BY <1>6, <1>7, <1>8 DEF bounds

(* A correction only ever takes rows away: Option C's from the rows that keep both   *)
(* limits empirically, Option A's from those that keep the miss limit, and keeping   *)
(* both is the stricter, as twice the comparisons never shrink a bound.              *)
THEOREM CorrectionsTighten ==
  ASSUME NEW table, IsTable(table), NEW correction \in Corrections,
         NEW alpha, IsRate(alpha), NEW beta, IsRate(beta)
  PROVE  LET optionC == OptionCFeasible(table, alpha, beta, correction)
             optionA == OptionAFeasible(table, alpha, correction)
         IN /\ optionC \subseteq EmpiricallyFeasible(table, alpha, beta)
            /\ optionC \subseteq optionA
            /\ \A i \in optionA : Leq(table[i].miss, alpha)
<1> DEFINE m == Len(table)
<1>1. ASSUME NEW i \in DOMAIN table
      PROVE  /\ IsRow(table[i]) /\ m \in Nat \ {0} /\ 2 * m <= MaxComparisons
             /\ m \in 1..MaxComparisons
  BY <1>1, BoundsAssumption DEF IsTable
<1>2. ASSUME NEW i \in OptionAFeasible(table, alpha, correction)
      PROVE  Leq(table[i].miss, alpha)
  <2>1. i \in DOMAIN table /\ Leq(OptionAUpper(table[i], correction, m), alpha)
    BY DEF OptionAFeasible
  <2>2. IsRow(table[i]) /\ m \in 1..MaxComparisons
    BY <1>1, <2>1
  <2> HIDE DEF m
  <2>3. IsRate(OptionAUpper(table[i], correction, m)) /\ Leq(table[i].miss, OptionAUpper(table[i], correction, m))
    BY <2>2, OptionABounds
  <2> QED
    BY <2>1, <2>2, <2>3, LeqTransitive DEF IsRow
<1>3. ASSUME NEW i \in OptionCFeasible(table, alpha, beta, correction)
      PROVE  /\ i \in OptionAFeasible(table, alpha, correction)
             /\ i \in EmpiricallyFeasible(table, alpha, beta)
  <2> DEFINE bounds == compute_dual_loss_bounds(table[i], correction, m)
  <2>1. i \in DOMAIN table /\ Leq(bounds.miss_upper, alpha) /\ Leq(bounds.burden_upper, beta)
    BY DEF OptionCFeasible
  <2>2. IsRow(table[i]) /\ m \in Nat \ {0} /\ 2 * m <= MaxComparisons /\ m \in 1..MaxComparisons
    BY <1>1, <2>1
  <2>3. IsRate(table[i].miss) /\ IsRate(table[i].burden)
    BY <2>2 DEF IsRow
  <2> HIDE DEF m
  <2>4. /\ Leq(OptionAUpper(table[i], correction, m), bounds.miss_upper)
        /\ Leq(table[i].miss, bounds.miss_upper)
        /\ Leq(table[i].burden, bounds.burden_upper)
        /\ IsRate(bounds.miss_upper) /\ IsRate(bounds.burden_upper)
        /\ IsRate(OptionAUpper(table[i], correction, m))
    BY <2>2, RowBounds, DualBounds, OptionABounds
  <2> HIDE DEF bounds
  <2>5. Leq(OptionAUpper(table[i], correction, m), alpha) /\ Leq(table[i].miss, alpha) /\ Leq(table[i].burden, beta)
    BY <2>1, <2>3, <2>4, LeqTransitive
  <2> QED
    BY <2>1, <2>5 DEF OptionAFeasible, EmpiricallyFeasible, m
<1> QED
  BY <1>2, <1>3

---------------------------------------------------------------------------------
(* The tables of a split *)

(* Scored trajectories, no more than the bounds have trials for. *)
IsCalibrationSplit(split) ==
  /\ IsSplit(split)
  /\ Cardinality(DOMAIN split) <= MaxTrials
  /\ \A t \in DOMAIN split : DOMAIN split[t].score \subseteq 1..MaxRows

LEMMA CrossingTimes ==
  ASSUME NEW split, IsCalibrationSplit(split), NEW threshold
  PROVE  compute_first_crossing_warning_times(split, threshold) \in [DOMAIN split -> Int]
<1>1. ASSUME NEW t \in DOMAIN split
      PROVE  Crossing(split[t].score, threshold) \in Int
  <2> DEFINE S == {i \in DOMAIN split[t].score : Leq(threshold, split[t].score[i])}
  <2>1. S \in SUBSET Nat
    BY DEF IsCalibrationSplit
  <2>2. Crossing(split[t].score, threshold) = Earliest(S)
    BY DEF Crossing
  <2> HIDE DEF S
  <2>3. CASE S = {}
    BY <2>2, <2>3, MaxRowsAssumption DEF Earliest, Never
  <2>4. CASE S # {}
    <3>1. \E x \in S : \A y \in S : x <= y
      BY <2>1, <2>4, LeastExists
    <3>2. Min(S) \in S
      BY <3>1 DEF Min
    <3>3. Earliest(S) = Min(S)
      BY <2>4 DEF Earliest
    <3>4. Min(S) \in Nat
      BY <2>1, <3>2
    <3> QED
      BY <2>2, <3>3, <3>4
  <2> QED
    BY <2>3, <2>4
<1> QED
  BY <1>1 DEF compute_first_crossing_warning_times

\* What a row of either table says, in counts.
Measured(row, n) ==
  /\ row.n_miss = n.bad /\ row.n_burden = n.all
  /\ row.burden = Rate(n.warned, n.all)
  /\ n.bad # 0 => row.miss = <<n.missed, n.bad>>
  /\ n.bad = 0 => row.miss \in {Zero, One}

LEMMA MeasuredRows ==
  ASSUME NEW split, IsCalibrationSplit(split), NEW w \in [DOMAIN split -> Int], NEW row,
         Measured(row, Tally(w, FailureTimes(split)))
  PROVE  /\ IsRow(row)
         /\ LET m == compute_trajectory_event_losses(w, FailureTimes(split))
            IN row.burden = m.trajectory_burden /\ Leq(m.miss_rate, row.miss) /\ IsRate(m.miss_rate)
<1> DEFINE n == Tally(w, FailureTimes(split))
           m == compute_trajectory_event_losses(w, FailureTimes(split))
<1>1. /\ n.all \in Nat /\ n.bad \in Nat /\ n.missed \in Nat /\ n.warned \in Nat
      /\ n.bad <= n.all /\ n.missed <= n.bad /\ n.warned <= n.all /\ n.all <= MaxTrials
  BY TimingsOfSplits, Counts DEF IsCalibrationSplit
<1>2. m.miss_rate = Rate(n.missed, n.bad) /\ m.trajectory_burden = Rate(n.warned, n.all)
  BY DEF compute_trajectory_event_losses
<1>3. Measured(row, n)
  OBVIOUS
<1> HIDE DEF n, m
<1>4. /\ row.n_miss = n.bad /\ row.n_burden = n.all /\ row.burden = Rate(n.warned, n.all)
  BY <1>3 DEF Measured
<1>5. /\ row.n_miss \in 0..MaxTrials /\ row.n_burden \in 0..MaxTrials
  BY <1>1, <1>4, BoundsAssumption
<1>6. /\ IsRate(row.burden) /\ Leq(row.burden, One)
      /\ row.n_burden > 0 => IsCount(row.burden, row.n_burden, n.warned)
  BY <1>1, <1>4 DEF Rate, RateOr, IsRate, Leq, Zero, One, IsCount
<1>7. CASE n.bad # 0
  <2>1. row.miss = <<n.missed, n.bad>> /\ m.miss_rate = <<n.missed, n.bad>> /\ OptionATrials(row) = n.bad
    BY <1>2, <1>3, <1>4, <1>7 DEF Measured, Rate, RateOr, OptionATrials
  <2>2. IsRate(row.miss) /\ Leq(row.miss, One) /\ IsCount(row.miss, n.bad, n.missed)
    BY <1>1, <1>7, <2>1 DEF IsRate, Leq, One, IsCount
  <2> QED
    BY <1>2, <1>4, <1>5, <1>6, <2>1, <2>2, LeqReflexive DEF IsRow, m
<1>8. CASE n.bad = 0
  <2>1. row.miss \in {Zero, One} /\ m.miss_rate = Zero /\ OptionATrials(row) = n.all
    BY <1>2, <1>3, <1>4, <1>8 DEF Measured, Rate, RateOr, OptionATrials
  <2>2. IsRate(row.miss) /\ Leq(row.miss, One) /\ Leq(Zero, row.miss) /\ IsRate(Zero)
    BY <2>1 DEF IsRate, Leq, One, Zero
  <2>3. IsCount(row.miss, n.all, 0) \/ IsCount(row.miss, n.all, n.all)
    BY <1>1, <2>1 DEF IsCount, Zero, One
  <2> QED
    BY <1>2, <1>4, <1>5, <1>6, <2>1, <2>2, <2>3 DEF IsRow, m
<1> QED
  BY <1>7, <1>8

\* The tables the scripts build are tables.
LEMMA TablesOfSplits ==
  ASSUME NEW split, IsCalibrationSplit(split), NEW S, NEW grid \in Seq(S), 2 * Len(grid) <= MaxComparisons,
         NEW table \in {build_threshold_table(split, grid), build_calibration_table(split, grid)}
  PROVE  /\ IsTable(table)
         /\ \A i \in DOMAIN table :
              LET m == compute_trajectory_event_losses(
                         compute_first_crossing_warning_times(split, grid[i]), FailureTimes(split))
              IN table[i].burden = m.trajectory_burden /\ Leq(m.miss_rate, table[i].miss) /\ IsRate(m.miss_rate)
<1>1. DOMAIN table = 1..Len(grid) /\ Len(table) = Len(grid) /\ Len(grid) \in Nat
  BY DEF build_threshold_table, build_calibration_table
<1>2. ASSUME NEW i \in 1..Len(grid)
      PROVE  LET w == compute_first_crossing_warning_times(split, grid[i])
             IN w \in [DOMAIN split -> Int] /\ Measured(table[i], Tally(w, FailureTimes(split)))
  <2> DEFINE w == compute_first_crossing_warning_times(split, grid[i])
             n == Tally(w, FailureTimes(split))
  <2>1. w \in [DOMAIN split -> Int]
    BY CrossingTimes
  <2>2. /\ n.all \in Nat /\ n.bad \in Nat /\ n.missed \in Nat /\ n.missed <= n.bad
        /\ n.covered = n.bad - n.missed
    BY <2>1, TimingsOfSplits, Counts DEF IsCalibrationSplit
  <2>3. CASE table = build_calibration_table(split, grid)
    <3> DEFINE m == compute_trajectory_event_losses(w, FailureTimes(split))
    <3>1. /\ table[i].n_miss = m.bad_trajectory_count /\ table[i].n_burden = m.trajectory_count
          /\ table[i].burden = m.trajectory_burden /\ table[i].miss = m.miss_rate
      BY <2>3 DEF build_calibration_table
    <3>2. /\ m.bad_trajectory_count = n.bad /\ m.trajectory_count = n.all
          /\ m.trajectory_burden = Rate(n.warned, n.all) /\ m.miss_rate = Rate(n.missed, n.bad)
      BY DEF compute_trajectory_event_losses
    <3> HIDE DEF m, n
    <3>3. Measured(table[i], n)
      BY <2>2, <3>1, <3>2 DEF Measured, Rate, RateOr
    <3> QED
      BY <2>1, <3>3 DEF n
  <2>4. CASE table = build_threshold_table(split, grid)
    <3> DEFINE m == first_crossing_metrics(split, grid[i])
    <3>1. /\ table[i].n_miss = m.bad_trajectory_count /\ table[i].n_burden = m.trajectory_count
          /\ table[i].burden = m.empirical_burden /\ table[i].miss = m.empirical_miss_rate
      BY <2>4 DEF build_threshold_table
    <3>2. /\ m.bad_trajectory_count = n.bad /\ m.trajectory_count = n.all
          /\ m.empirical_burden = Rate(n.warned, n.all)
          /\ m.empirical_miss_rate = Minus(One, Rate(n.covered, n.bad))
      BY DEF first_crossing_metrics
    <3> HIDE DEF m, n
    <3>3. Minus(One, Rate(n.covered, n.bad)) = IF n.bad # 0 THEN <<n.missed, n.bad>> ELSE One
      BY <2>2 DEF Minus, One, Rate, RateOr, Zero
    <3>4. Measured(table[i], n)
      BY <3>1, <3>2, <3>3 DEF Measured
    <3> QED
      BY <2>1, <3>4 DEF n
  <2> QED
    BY <2>3, <2>4
<1>3. \A i \in DOMAIN table : IsRow(table[i])
  BY <1>1, <1>2, MeasuredRows
<1>4. IsTable(table)
  BY <1>1, <1>3 DEF IsTable
<1> QED
  BY <1>1, <1>2, <1>4, MeasuredRows

\* The certified prevalence is no larger than the empirical one.
LEMMA CertifiedIsBelow ==
  ASSUME NEW split, IsCalibrationSplit(split)
  PROVE  LET prev == estimate_first_failure_prevalence(split)
             p_lcb == clopper_pearson_lower_bound(prev.k_first_failure, prev.n)
         IN p_lcb \in Int \X (Nat \ {0}) /\ Leq(p_lcb, prev.p_hat)
<1> DEFINE prev == estimate_first_failure_prevalence(split)
           failing == {t \in DOMAIN split : split[t].bad # {}}
           k == Cardinality(failing)   n == Cardinality(DOMAIN split)
<1>1. prev = [p_hat |-> Rate(k, n), n |-> n, k_first_failure |-> k]
  BY DEF estimate_first_failure_prevalence
<1>2. k \in Nat /\ n \in Nat /\ k <= n /\ n <= MaxTrials
  <2>1. IsFiniteSet(DOMAIN split) /\ failing \subseteq DOMAIN split
    BY DEF IsCalibrationSplit, IsSplit
  <2> QED
    BY <2>1, FS_Subset, FS_CardinalityType DEF IsCalibrationSplit
<1> HIDE DEF failing, k, n
<1>3. CASE k = 0
  <2>1. clopper_pearson_lower_bound(k, n) = Zero
    BY <1>3 DEF clopper_pearson_lower_bound
  <2>2. Zero \in Int \X (Nat \ {0}) /\ Leq(Zero, Rate(k, n))
    BY <1>2, <1>3 DEF Zero, Rate, RateOr, Leq
  <2> QED
    BY <1>1, <2>1, <2>2
<1>4. CASE k # 0
  <2>1. n \in 1..MaxTrials /\ k \in 0..n
    BY <1>2, <1>4, BoundsAssumption
  <2>2. clopper_pearson_lower_bound(k, n) = ExactLower(k, n) /\ Rate(k, n) = <<k, n>>
    BY <1>4, <2>1 DEF clopper_pearson_lower_bound, Rate, RateOr
  <2>3. ExactLower(k, n) \in Nat \X (Nat \ {0}) /\ Leq(ExactLower(k, n), <<k, n>>)
    BY <2>1, BoundsAssumption
  <2> QED
    BY <1>1, <2>2, <2>3
<1> QED
  BY <1>3, <1>4

(* Where the controller refuses, Option C would have selected nothing either: no      *)
(* threshold of a grid keeps both limits, in the clean-grid table and in the          *)
(* library's, on the split that was counted.                                         *)
THEOREM VetoCostsNothing ==
  ASSUME NEW split, IsCalibrationSplit(split),
         NEW S, NEW grid \in Seq(S), 2 * Len(grid) <= MaxComparisons,
         NEW alpha, IsRate(alpha), NEW beta, IsRate(beta), NEW correction \in Corrections,
         LET prev == estimate_first_failure_prevalence(split)
             p_lcb == clopper_pearson_lower_bound(prev.k_first_failure, prev.n)
             veto == structural_feasibility_check(alpha, beta, prev.p_hat, p_lcb)
         IN veto.empirical \/ veto.certified
  PROVE  \A table \in {build_threshold_table(split, grid), build_calibration_table(split, grid)} :
           /\ EmpiricallyFeasible(table, alpha, beta) = {}
           /\ option_c_select_threshold(table, alpha, beta, correction) = NoSafe
<1> SUFFICES ASSUME NEW table \in {build_threshold_table(split, grid), build_calibration_table(split, grid)}
             PROVE  /\ EmpiricallyFeasible(table, alpha, beta) = {}
                    /\ option_c_select_threshold(table, alpha, beta, correction) = NoSafe
  OBVIOUS
<1> DEFINE w(i) == compute_first_crossing_warning_times(split, grid[i])
           m(i) == compute_trajectory_event_losses(w(i), FailureTimes(split))
<1>1. /\ IsTable(table)
      /\ \A i \in DOMAIN table :
           table[i].burden = m(i).trajectory_burden /\ Leq(m(i).miss_rate, table[i].miss) /\ IsRate(m(i).miss_rate)
  BY TablesOfSplits
<1>2. ASSUME NEW i
      PROVE  ~(Leq(m(i).miss_rate, alpha) /\ Leq(m(i).trajectory_burden, beta))
  <2>1. w(i) \in [DOMAIN split -> Int] /\ IsSplit(split)
    BY CrossingTimes DEF IsCalibrationSplit
  <2> QED
    BY <2>1, CertifiedIsBelow, RefusedIsOutOfReach
<1> HIDE DEF m
<1>3. EmpiricallyFeasible(table, alpha, beta) = {}
  <2> SUFFICES ASSUME NEW i \in DOMAIN table, Leq(table[i].miss, alpha), Leq(table[i].burden, beta)
               PROVE  FALSE
    BY DEF EmpiricallyFeasible
  <2>1. IsRate(table[i].miss)
    BY <1>1 DEF IsTable, IsRow
  <2>2. Leq(m(i).miss_rate, alpha)
    BY <1>1, <2>1, LeqTransitive
  <2> QED
    BY <1>1, <1>2, <2>2
<1>4. OptionCFeasible(table, alpha, beta, correction) = {}
  BY <1>1, <1>3, CorrectionsTighten
<1> QED
  BY <1>3, <1>4 DEF option_c_select_threshold

(* The timing worlds: the trajectories of the calibration split, one after another,  *)
(* each a sequence of at most MaxRows scores and the places of its bad rows.         *)
IsTimedTrajectory(t) ==
  \E score \in Seq(TimedScores), bad \in SUBSET (1..MaxRows) :
    /\ Len(score) <= MaxRows /\ bad \subseteq 1..Len(score)
    /\ t = TimedTrajectory(score, bad)

TimingTyped ==
  part = "timing" =>
    /\ roles = [train |-> roles.train, calibration |-> roles.calibration, test |-> roles.test]
    /\ \E n \in Nat : DOMAIN roles.calibration = 1..n
    /\ \A t \in DOMAIN roles.calibration : IsTimedTrajectory(roles.calibration[t])

(* A trajectory goes on: one more row, or none. *)
GoesOn(old, new) == \E score \in TimedScores : new = old \/ new = Append(old, score)

LEMMA TimedScore ==
  ASSUME NEW score, NEW bad
  PROVE  TimedTrajectory(score, bad).score = score /\ TimedTrajectory(score, bad).bad = bad
  BY DEF TimedTrajectory

LEMMA TimedFields ==
  ASSUME NEW t, IsTimedTrajectory(t)
  PROVE  /\ t.score \in Seq(TimedScores) /\ Len(t.score) \in Nat /\ Len(t.score) <= MaxRows
         /\ DOMAIN t.score = 1..Len(t.score)
         /\ t.bad \subseteq 1..Len(t.score)
         /\ t = TimedTrajectory(t.score, t.bad)
<1>1. PICK score \in Seq(TimedScores), bad \in SUBSET (1..MaxRows) :
        /\ Len(score) <= MaxRows /\ bad \subseteq 1..Len(score)
        /\ t = TimedTrajectory(score, bad)
  BY DEF IsTimedTrajectory
<1>2. t.score = score /\ t.bad = bad
  BY <1>1, TimedScore
<1> QED
  BY <1>1, <1>2, LenProperties

LEMMA RowAdded ==
  ASSUME TimingTyped, part = "timing", AddTimedRow
  PROVE  /\ TimingTyped'
         /\ roles'.train = roles.train
         /\ \A t \in DOMAIN roles.calibration :
              /\ t \in DOMAIN roles'.calibration
              /\ GoesOn(roles.calibration[t].score, roles'.calibration[t].score)
<1> DEFINE cal == roles.calibration
<1>1. PICK n \in Nat : DOMAIN cal = 1..n
  BY DEF TimingTyped
<1>2. Cardinality(DOMAIN cal) = n
  BY <1>1, FS_Interval
<1>3. PICK t \in {n, n + 1} \cap 1..MaxTrajectories, score \in TimedScores, is_bad \in BOOLEAN :
        /\ t = n => Len(cal[n].score) < MaxRows
        /\ roles' = [roles EXCEPT !.calibration =
                       [u \in DOMAIN @ \cup {t} |-> IF u = t THEN WithRow(t, score, is_bad) ELSE @[u]]]
  BY <1>2 DEF AddTimedRow
<1>4. t \in 1..(n + 1)
  BY <1>3, WorldsAssumption
<1> DEFINE new == [u \in DOMAIN cal \cup {t} |-> IF u = t THEN WithRow(t, score, is_bad) ELSE cal[u]]
<1>5. roles' = [train |-> roles.train, calibration |-> new, test |-> roles.test]
  BY <1>3 DEF TimingTyped
<1>6. roles'.calibration = new /\ roles'.train = roles.train /\ roles'.test = roles.test
  BY <1>5
<1>7. \E m \in Nat : DOMAIN new = 1..m
  <2>1. CASE t = n
    BY <1>1, <1>4, <2>1
  <2>2. CASE t = n + 1
    <3>1. DOMAIN new = 1..(n + 1)
      BY <1>1, <2>2
    <3> QED
      BY <3>1
  <2> QED
    BY <2>1, <2>2, <1>3
<1> DEFINE old == IF t \in DOMAIN cal THEN cal[t] ELSE TimedTrajectory(<< >>, {})
           bad == old.bad \cup (IF is_bad THEN {Len(old.score) + 1} ELSE {})
<1>8. /\ old.score \in Seq(TimedScores) /\ Len(old.score) \in Nat /\ Len(old.score) < MaxRows
      /\ old.bad \subseteq 1..Len(old.score)
  <2>1. CASE t \in DOMAIN cal
    <3>1. t = n
      BY <2>1, <1>1, <1>3
    <3>2. IsTimedTrajectory(cal[t])
      BY <2>1 DEF TimingTyped
    <3> QED
      BY <3>1, <3>2, <2>1, <1>3, TimedFields
  <2>2. CASE t \notin DOMAIN cal
    <3>1. old.score = << >> /\ old.bad = {}
      BY <2>2, TimedScore
    <3>2. 0 < MaxRows
      BY WorldsAssumption, MaxRowsAssumption
    <3>3. << >> \in Seq(TimedScores) /\ Len(<< >>) = 0
      BY EmptySeq
    <3> HIDE DEF old
    <3> QED
      BY <3>1, <3>2, <3>3
  <2> QED
    BY <2>1, <2>2
<1>9. new[t] = TimedTrajectory(Append(old.score, score), bad)
  BY DEF WithRow
<1>10. /\ Append(old.score, score) \in Seq(TimedScores)
       /\ Len(Append(old.score, score)) = Len(old.score) + 1
  BY <1>8
<1>11. IsTimedTrajectory(new[t])
  <2>1. bad \subseteq 1..(Len(old.score) + 1)
    BY <1>8
  <2>2. Len(old.score) + 1 <= MaxRows
    BY <1>8, MaxRowsAssumption
  <2>3. bad \in SUBSET (1..MaxRows)
    BY <1>8, <2>1, MaxRowsAssumption
  <2> HIDE DEF new, old, bad
  <2> QED
    BY <1>8, <1>9, <1>10, <2>1, <2>2, <2>3 DEF IsTimedTrajectory
<1>12. \A u \in DOMAIN new : IsTimedTrajectory(new[u])
  <2>1. ASSUME NEW u \in DOMAIN new, u # t
        PROVE  new[u] = cal[u] /\ u \in DOMAIN cal
    BY <2>1
  <2>2. ASSUME NEW u \in DOMAIN cal
        PROVE  IsTimedTrajectory(cal[u])
    BY DEF TimingTyped
  <2> HIDE DEF new
  <2> QED
    BY <1>11, <2>1, <2>2
<1>13. TimingTyped'
  BY <1>5, <1>6, <1>7, <1>12 DEF TimingTyped, AddTimedRow
<1>14. ASSUME NEW u \in DOMAIN cal
       PROVE  u \in DOMAIN new /\ GoesOn(cal[u].score, new[u].score)
  <2>1. CASE u = t
    <3>1. new[t].score = Append(old.score, score)
      <4>1. TimedTrajectory(Append(old.score, score), bad).score = Append(old.score, score)
        BY DEF TimedTrajectory
      <4> HIDE DEF new, old, bad
      <4> QED
        BY <1>9, <4>1
    <3>2. old = cal[t]
      BY <2>1
    <3> HIDE DEF new, old
    <3>3. new[u].score = Append(cal[u].score, score)
      BY <2>1, <3>1, <3>2
    <3>4. u \in DOMAIN new
      BY <2>1 DEF new
    <3> QED
      BY <3>3, <3>4, <1>3 DEF GoesOn
  <2>2. CASE u # t
    BY <2>2, <1>3 DEF GoesOn
  <2> QED
    BY <2>1, <2>2
<1> QED
  BY <1>6, <1>13, <1>14

\* Every trajectory the calibration set ever holds has scores of the grid and rows that
\* are numbered, whatever rows were added to it.
THEOREM TimingWorlds == Spec => []TimingTyped
<1>1. Init => TimingTyped
  <2> SUFFICES ASSUME Init, part = "timing" PROVE TimingTyped
    BY DEF TimingTyped
  <2>1. PICK train \in Trains, test \in Tests :
          roles = [train |-> SplitOf(train), calibration |-> Nothing, test |-> SplitOf(test)]
    BY DEF Init
  <2>2. roles.calibration = << >>
    BY <2>1 DEF Nothing
  <2>3. DOMAIN roles.calibration = {} /\ {} = 1..0
    BY <2>2
  <2> QED
    BY <2>1, <2>3 DEF TimingTyped
<1>2. TimingTyped /\ [Next]_vars => TimingTyped'
  <2> SUFFICES ASSUME TimingTyped, [Next]_vars PROVE TimingTyped'
    OBVIOUS
  <2>1. CASE Turn
    BY <2>1 DEF Turn, TimingTyped
  <2>2. CASE Label
    BY <2>2 DEF Label, TimingTyped
  <2>3. CASE AddRow
    BY <2>3 DEF AddRow, TimingTyped
  <2>4. CASE AddTimedRow
    BY <2>4, RowAdded DEF AddTimedRow
  <2>5. CASE AddLine
    BY <2>5 DEF AddLine, TimingTyped
  <2>6. CASE UNCHANGED vars
    BY <2>6 DEF vars, TimingTyped
  <2> QED
    BY <2>1, <2>2, <2>3, <2>4, <2>5, <2>6 DEF Next
<1> QED
  BY <1>1, <1>2, PTL DEF Spec

LEMMA MinOf ==
  ASSUME NEW S \in SUBSET Nat, S # {}
  PROVE  /\ Min(S) \in S /\ Min(S) \in Nat
         /\ \A y \in S : Min(S) <= y
<1>1. \E x \in S : \A y \in S : x <= y
  BY LeastExists
<1>2. Min(S) \in S /\ \A y \in S : Min(S) <= y
  BY <1>1 DEF Min
<1> QED
  BY <1>2

(* The warnings of a score sequence f that goes on as g: the first crossing stays,   *)
(* or is the new row.                                                                *)
MayWarn(before, after, row) == after \in {before} \cup (IF before = Never THEN {row} ELSE {})

LEMMA CrossingGrows ==
  ASSUME NEW f, NEW g, NEW m \in Nat, NEW n \in {m, m + 1}, n <= MaxRows, NEW threshold,
         DOMAIN f = 1..m, DOMAIN g = 1..n, \A i \in 1..m : f[i] = g[i]
  PROVE  MayWarn(Crossing(f, threshold), Crossing(g, threshold), n)
<1> DEFINE S == {i \in DOMAIN f : Leq(threshold, f[i])}
           T == {i \in DOMAIN g : Leq(threshold, g[i])}
<1>1. S \in SUBSET Nat /\ T \in SUBSET Nat /\ S \subseteq 1..m
  OBVIOUS
<1>2. T \subseteq S \cup {n} /\ S \subseteq T
  OBVIOUS
<1>3. Crossing(f, threshold) = Earliest(S) /\ Crossing(g, threshold) = Earliest(T)
  BY DEF Crossing
<1> HIDE DEF S, T
<1>4. CASE S = {}
  <2>1. Earliest(S) = Never
    BY <1>4 DEF Earliest
  <2>2. CASE T = {}
    BY <2>1, <2>2, <1>3 DEF Earliest, MayWarn
  <2>3. CASE T # {}
    <3>1. Min(T) \in T
      BY <1>1, <2>3, MinOf
    <3>2. Min(T) = n
      BY <3>1, <1>2, <1>4
    <3> QED
      BY <3>2, <2>1, <2>3, <1>3 DEF Earliest, MayWarn
  <2> QED
    BY <2>2, <2>3
<1>5. CASE S # {}
  <2>1. Min(S) \in S /\ \A y \in S : Min(S) <= y
    BY <1>1, <1>5, MinOf
  <2>2. T # {}
    BY <1>2, <1>5
  <2>3. Min(T) \in T /\ \A y \in T : Min(T) <= y
    BY <1>1, <2>2, MinOf
  <2>4. Min(S) \in Nat /\ Min(T) \in Nat /\ Min(S) \in 1..m
    BY <1>1, <2>1, <2>3
  <2>5. Min(T) <= Min(S)
    BY <2>1, <2>3, <1>2
  <2>6. Min(T) \in S \/ Min(T) = n
    BY <2>3, <1>2
  <2>7. Min(T) = Min(S)
    BY <2>1, <2>4, <2>5, <2>6
  <2> QED
    BY <2>7, <2>2, <1>5, <1>3 DEF Earliest, MayWarn
<1> QED
  BY <1>4, <1>5

(* A warning at a row is a decision of that row. *)
LEMMA OnlyRowTime ==
  ASSUME NEW i \in Nat
  PROVE  Earliest(OnlyRow(i)) = i
<1>1. CASE i = Never
  BY <1>1 DEF OnlyRow, Earliest
<1>2. CASE i # Never
  <2>1. OnlyRow(i) = {i} /\ {i} # {}
    BY <1>2 DEF OnlyRow
  <2>2. Min({i}) \in {i}
    BY MinOf
  <2> QED
    BY <2>1, <2>2 DEF Earliest
<1> QED
  BY <1>1, <1>2

LEMMA CrossingIsNat ==
  ASSUME NEW f, NEW m \in Nat, DOMAIN f = 1..m, NEW threshold
  PROVE  Crossing(f, threshold) \in Nat
<1> DEFINE S == {i \in DOMAIN f : Leq(threshold, f[i])}
<1>1. S \in SUBSET Nat
  OBVIOUS
<1>2. S # {} => Min(S) \in Nat
  BY <1>1, MinOf
<1> QED
  BY <1>2, MaxRowsAssumption DEF Crossing, Earliest, Never

LEMMA WithinLonger ==
  ASSUME NEW m \in Nat, NEW n \in {m, m + 1}, NEW i \in 1..m
  PROVE  i \in Nat /\ i \in 1..n /\ \A j \in 1..i : j \in 1..m /\ j \in 1..n
  OBVIOUS

(* The sequences the policies warn on, as their trajectory goes on: what they say of *)
(* a row is computed from the rows up to it.                                         *)
LEMMA PrefixStays ==
  ASSUME NEW s \in Seq(TimedScores), NEW r, GoesOn(s, r)
  PROVE  /\ r \in Seq(TimedScores) /\ Len(s) \in Nat /\ Len(r) \in {Len(s), Len(s) + 1}
         /\ DOMAIN s = 1..Len(s) /\ DOMAIN r = 1..Len(r)
         /\ \A i \in 1..Len(s) : r[i] = s[i] /\ SubSeq(r, 1, i) = SubSeq(s, 1, i)
<1>1. PICK x \in TimedScores : r = s \/ r = Append(s, x)
  BY DEF GoesOn
<1>2. /\ r \in Seq(TimedScores) /\ Len(s) \in Nat /\ Len(r) \in {Len(s), Len(s) + 1}
      /\ DOMAIN s = 1..Len(s) /\ DOMAIN r = 1..Len(r)
  BY <1>1, LenProperties
<1>3. \A i \in 1..Len(s) : r[i] = s[i]
  BY <1>1
<1>5. Len(s) \in Nat /\ Len(r) \in {Len(s), Len(s) + 1}
  BY <1>2, Zenon
<1>4. ASSUME NEW i \in 1..Len(s)
      PROVE  SubSeq(r, 1, i) = SubSeq(s, 1, i)
  <2>1. ASSUME NEW j \in 1..i
        PROVE  r[j] = s[j] /\ r[j] \in TimedScores /\ s[j] \in TimedScores
    <3>1. j \in 1..Len(s) /\ j \in 1..Len(r)
      BY <1>5, WithinLonger
    <3> QED
      BY <3>1, <1>2, <1>3, ElementOfSeq, Zenon
  <2>2. i \in Nat
    BY <1>5, WithinLonger
  <2>3. /\ SubSeq(r, 1, i) \in Seq(TimedScores) /\ SubSeq(s, 1, i) \in Seq(TimedScores)
        /\ Len(SubSeq(r, 1, i)) = i /\ Len(SubSeq(s, 1, i)) = i
        /\ \A j \in 1..i : SubSeq(r, 1, i)[j] = r[j]
        /\ \A j \in 1..i : SubSeq(s, 1, i)[j] = s[j]
    BY <2>1, <2>2, SubSeqProperties
  <2> QED
    BY <2>1, <2>3, SeqEqual
<1> QED
  BY <1>2, <1>3, <1>4, Zenon

(* What the rows of a trajectory t read as, for the policies that warn on sums or on  *)
(* discounted scores.                                                                *)
PositiveSums(s) == [i \in DOMAIN s |-> Sum([j \in 1..i |-> Largest(Zero, s[j])])]
Fading(s) == [i \in DOMAIN s |-> Reduced(Over(s[i], <<100 + 3 * (i - 1), 100>>))]

LEMMA SequencesGrow ==
  ASSUME NEW s \in Seq(TimedScores), NEW r, GoesOn(s, r), Len(r) <= MaxRows, NEW threshold
  PROVE  /\ MayWarn(Crossing(s, threshold), Crossing(r, threshold), Len(r))
         /\ MayWarn(Crossing(Running(s), threshold), Crossing(Running(r), threshold), Len(r))
         /\ MayWarn(Crossing(Discounted(s), threshold), Crossing(Discounted(r), threshold), Len(r))
         /\ MayWarn(Crossing(PositiveSums(s), threshold), Crossing(PositiveSums(r), threshold), Len(r))
         /\ MayWarn(Crossing(Fading(s), threshold), Crossing(Fading(r), threshold), Len(r))
<1> DEFINE m == Len(s)
           n == Len(r)
<1>1. /\ m \in Nat /\ n \in {m, m + 1} /\ n <= MaxRows
      /\ DOMAIN s = 1..m /\ DOMAIN r = 1..n
      /\ \A i \in 1..m : r[i] = s[i] /\ SubSeq(r, 1, i) = SubSeq(s, 1, i)
  BY PrefixStays
<1> HIDE DEF m, n
<1>2. \A i \in 1..m : i \in 1..n /\ \A j \in 1..i : j \in 1..m
  BY <1>1, WithinLonger
<1>3. MayWarn(Crossing(s, threshold), Crossing(r, threshold), n)
  BY <1>1, CrossingGrows
<1>4. MayWarn(Crossing(Running(s), threshold), Crossing(Running(r), threshold), n)
  <2>1. DOMAIN Running(s) = 1..m /\ DOMAIN Running(r) = 1..n
    BY <1>1 DEF Running
  <2>2. \A i \in 1..m : Running(s)[i] = Running(r)[i]
    BY <1>1, <1>2 DEF Running
  <2> QED
    BY <1>1, <2>1, <2>2, CrossingGrows
<1>5. MayWarn(Crossing(Discounted(s), threshold), Crossing(Discounted(r), threshold), n)
  <2>1. DOMAIN Discounted(s) = 1..m /\ DOMAIN Discounted(r) = 1..n
    BY <1>1 DEF Discounted
  <2>2. \A i \in 1..m : Discounted(s)[i] = Discounted(r)[i]
    BY <1>1, <1>2 DEF Discounted
  <2> QED
    BY <1>1, <2>1, <2>2, CrossingGrows
<1>6. MayWarn(Crossing(PositiveSums(s), threshold), Crossing(PositiveSums(r), threshold), n)
  <2>1. DOMAIN PositiveSums(s) = 1..m /\ DOMAIN PositiveSums(r) = 1..n
    BY <1>1 DEF PositiveSums
  <2>2. ASSUME NEW i \in 1..m
        PROVE  PositiveSums(s)[i] = PositiveSums(r)[i]
    <3>1. [j \in 1..i |-> Largest(Zero, s[j])] = [j \in 1..i |-> Largest(Zero, r[j])]
      BY <1>1, <1>2
    <3> QED
      BY <3>1, <1>1, <1>2 DEF PositiveSums
  <2> QED
    BY <1>1, <2>1, <2>2, CrossingGrows
<1>7. MayWarn(Crossing(Fading(s), threshold), Crossing(Fading(r), threshold), n)
  <2>1. DOMAIN Fading(s) = 1..m /\ DOMAIN Fading(r) = 1..n
    BY <1>1 DEF Fading
  <2>2. \A i \in 1..m : Fading(s)[i] = Fading(r)[i]
    BY <1>1, <1>2 DEF Fading
  <2> QED
    BY <1>1, <2>1, <2>2, CrossingGrows
<1> QED
  BY <1>3, <1>4, <1>5, <1>6, <1>7 DEF n

LEMMA ReadAs ==
  ASSUME NEW split, NEW t \in DOMAIN split, IsTimedTrajectory(split[t])
  PROVE  /\ cumulative_scores(split)[t].score = PositiveSums(split[t].score)
         /\ transform_rows(split, "cumulative_hazard_first_crossing")[t].score = Running(split[t].score)
         /\ transform_rows(split, "early_weighted_first_crossing")[t].score = Fading(split[t].score)
         /\ DOMAIN cumulative_scores(split) = DOMAIN split
         /\ \A family : DOMAIN transform_rows(split, family) = DOMAIN split
<1>1. split[t] = TimedTrajectory(split[t].score, split[t].bad)
  BY TimedFields
<1>2. \A f : [split[t] EXCEPT !.score = f].score = f
  BY <1>1 DEF TimedTrajectory
<1>3. cumulative_scores(split)[t].score = PositiveSums(split[t].score)
  BY <1>2 DEF cumulative_scores, Rescored, PositiveSums
<1>4. transform_rows(split, "cumulative_hazard_first_crossing")[t].score = Running(split[t].score)
  BY <1>2 DEF transform_rows, Rescored, Running
<1>5. transform_rows(split, "early_weighted_first_crossing")[t].score = Fading(split[t].score)
  BY <1>2 DEF transform_rows, Rescored, Fading
<1>6. DOMAIN cumulative_scores(split) = DOMAIN split
  BY DEF cumulative_scores, Rescored
<1>7. \A family : DOMAIN transform_rows(split, family) = DOMAIN split
  BY DEF transform_rows, Rescored
<1> QED
  BY <1>3, <1>4, <1>5, <1>6, <1>7

EventPolicies == {"single_threshold_first_crossing", "cumulative_hazard_threshold"}

LEMMA EventTimes ==
  ASSUME NEW split, NEW p \in EventPolicies \X Quantiles
  PROVE  /\ DOMAIN EventWarnings(split)[p] = DOMAIN split
         /\ \A t \in DOMAIN split : IsTimedTrajectory(split[t]) =>
              LET thresholds == threshold_values(roles.train, p[2])
              IN EventWarnings(split)[p][t] =
                   IF p[1] = "single_threshold_first_crossing"
                   THEN Crossing(split[t].score, thresholds.row_threshold)
                   ELSE Crossing(PositiveSums(split[t].score), thresholds.cumulative_threshold)
<1> DEFINE thresholds == threshold_values(roles.train, p[2])
           decisions == decisions_for_variant(split, p[1], thresholds)
<1>1. EventWarnings(split)[p] = WarningTimes(decisions)
  BY DEF EventWarnings, EventPolicies
<1>2. CASE p[1] = "single_threshold_first_crossing"
  <2>1. decisions = [t \in DOMAIN split |-> OnlyRow(Crossing(split[t].score, thresholds.row_threshold))]
    <3> HIDE DEF thresholds
    <3> QED
      BY <1>2 DEF decisions_for_variant, single_threshold_first_crossing
  <2>2. ASSUME NEW t \in DOMAIN split, IsTimedTrajectory(split[t])
        PROVE  Crossing(split[t].score, thresholds.row_threshold) \in Nat
    <3> HIDE DEF thresholds
    <3> QED
      BY <2>2, TimedFields, CrossingIsNat
  <2> HIDE DEF decisions, thresholds
  <2>3. DOMAIN EventWarnings(split)[p] = DOMAIN split
    BY <1>1, <2>1 DEF WarningTimes
  <2>4. ASSUME NEW t \in DOMAIN split, IsTimedTrajectory(split[t])
        PROVE  EventWarnings(split)[p][t] = Crossing(split[t].score, thresholds.row_threshold)
    BY <1>1, <2>1, <2>2, <2>4, OnlyRowTime DEF WarningTimes
  <2> QED
    BY <2>3, <2>4, <1>2 DEF thresholds
<1>3. CASE p[1] = "cumulative_hazard_threshold"
  <2> DEFINE sums == cumulative_scores(split)
  <2>1. DOMAIN sums = DOMAIN split
    BY DEF cumulative_scores, Rescored
  <2>2. decisions = [t \in DOMAIN sums |-> OnlyRow(Crossing(sums[t].score, thresholds.cumulative_threshold))]
    <3> HIDE DEF thresholds, sums
    <3> QED
      BY <1>3 DEF decisions_for_variant, single_threshold_first_crossing, cumulative_hazard_threshold, sums
  <2>3. ASSUME NEW t \in DOMAIN split, IsTimedTrajectory(split[t])
        PROVE  /\ sums[t].score = PositiveSums(split[t].score)
               /\ Crossing(sums[t].score, thresholds.cumulative_threshold) \in Nat
    <3>1. sums[t].score = PositiveSums(split[t].score)
      BY <2>3, ReadAs
    <3>2. Len(split[t].score) \in Nat /\ DOMAIN split[t].score = 1..Len(split[t].score)
      BY <2>3, TimedFields
    <3>3. DOMAIN PositiveSums(split[t].score) = 1..Len(split[t].score)
      BY <3>2 DEF PositiveSums
    <3> HIDE DEF thresholds, sums
    <3> QED
      BY <3>1, <3>2, <3>3, CrossingIsNat
  <2> HIDE DEF decisions, thresholds, sums
  <2>4. DOMAIN EventWarnings(split)[p] = DOMAIN split
    BY <1>1, <2>1, <2>2 DEF WarningTimes
  <2>5. ASSUME NEW t \in DOMAIN split, IsTimedTrajectory(split[t])
        PROVE  EventWarnings(split)[p][t]
                 = Crossing(PositiveSums(split[t].score), thresholds.cumulative_threshold)
    BY <1>1, <2>1, <2>2, <2>3, <2>5, OnlyRowTime DEF WarningTimes
  <2> QED
    BY <2>4, <2>5, <1>3 DEF thresholds
<1> QED
  BY <1>2, <1>3 DEF EventPolicies

NestedPolicies ==
  UNION {{family} \X Range(build_threshold_grid(AllScores(transform_rows(roles.train, family)), Quantiles)) :
           family \in NestedFamilies}

LEMMA NestedTimes ==
  ASSUME NEW split
  PROVE  /\ DOMAIN NestedWarnings(split) = NestedPolicies
         /\ \A p \in NestedPolicies :
              /\ DOMAIN NestedWarnings(split)[p] = DOMAIN split
              /\ \A t \in DOMAIN split : IsTimedTrajectory(split[t]) =>
                   NestedWarnings(split)[p][t] =
                     CASE p[1] = "cumulative_hazard_first_crossing" -> Crossing(Running(split[t].score), p[2])
                       [] p[1] = "early_weighted_first_crossing" -> Crossing(Fading(split[t].score), p[2])
                       [] OTHER -> Crossing(split[t].score, p[2])
<1>1. NestedWarnings(split) =
        [p \in NestedPolicies |-> compute_first_crossing_warning_times(transform_rows(split, p[1]), p[2])]
  BY DEF NestedWarnings, NestedPolicies
<1>2. ASSUME NEW p \in NestedPolicies
      PROVE  /\ DOMAIN NestedWarnings(split)[p] = DOMAIN split
             /\ \A t \in DOMAIN split :
                  NestedWarnings(split)[p][t] = Crossing(transform_rows(split, p[1])[t].score, p[2])
  <2>1. DOMAIN transform_rows(split, p[1]) = DOMAIN split
    BY DEF transform_rows, Rescored
  <2> QED
    BY <1>1, <2>1 DEF compute_first_crossing_warning_times
<1>3. ASSUME NEW p \in NestedPolicies, NEW t \in DOMAIN split, IsTimedTrajectory(split[t])
      PROVE  transform_rows(split, p[1])[t].score =
                     CASE p[1] = "cumulative_hazard_first_crossing" -> Running(split[t].score)
                       [] p[1] = "early_weighted_first_crossing" -> Fading(split[t].score)
                       [] OTHER -> split[t].score
  <2>1. CASE p[1] = "cumulative_hazard_first_crossing"
    BY <2>1, <1>3, ReadAs
  <2>2. CASE p[1] = "early_weighted_first_crossing"
    BY <2>2, <1>3, ReadAs
  <2>3. CASE p[1] \notin {"cumulative_hazard_first_crossing", "early_weighted_first_crossing"}
    BY <2>3 DEF transform_rows
  <2> QED
    BY <2>1, <2>2, <2>3
<1> HIDE DEF NestedPolicies
<1>4. DOMAIN NestedWarnings(split) = NestedPolicies
  BY <1>1
<1> QED
  BY <1>2, <1>3, <1>4

OraclePolicies == {"first_crossing_train_q80", "cumulative_hazard_train_q80", "early_weighted_train_q80"}

LEMMA OracleTimes ==
  ASSUME NEW split, NEW p \in OraclePolicies
  PROVE  /\ DOMAIN OracleTimedWarnings(split)[p] = DOMAIN split
         /\ \A t \in DOMAIN split : LET thresholds == _thresholds_from_train(roles.train)
              IN OracleTimedWarnings(split)[p][t] =
                   CASE p = "first_crossing_train_q80" -> Crossing(split[t].score, thresholds.score_q80)
                     [] p = "cumulative_hazard_train_q80" ->
                          Crossing(Running(split[t].score), thresholds.cumulative_q80)
                     [] p = "early_weighted_train_q80" ->
                          Crossing(Discounted(split[t].score), thresholds.early_q80)
  BY DEF OracleTimedWarnings, OraclePolicies, _warning_time

\* One more row changes no warning that was given before it: what the policies of T-6 and
\* T-8 to T-12 that are named causal warn at depends on the rows up to there only.
THEOREM CausalWarnings == Spec => WarningsAreCausal
<1>1. TimingTyped /\ [Next]_vars => [part = "timing" =>
       LET old == roles.calibration
           new == roles'.calibration
       IN /\ Kept(EventWarnings(old), EventWarnings(new))
          /\ Kept(NestedWarnings(old), NestedWarnings(new))
          /\ Kept(OracleTimedWarnings(old), OracleTimedWarnings(new))]_vars
  <2> SUFFICES ASSUME TimingTyped, Next, part = "timing"
               PROVE  LET old == roles.calibration
                          new == roles'.calibration
                      IN /\ Kept(EventWarnings(old), EventWarnings(new))
                         /\ Kept(NestedWarnings(old), NestedWarnings(new))
                         /\ Kept(OracleTimedWarnings(old), OracleTimedWarnings(new))
    BY DEF vars
  <2> DEFINE old == roles.calibration
             new == roles'.calibration
  <2>1. AddTimedRow
    BY DEF Next, Turn, Label, AddRow, AddLine
  <2>2. /\ TimingTyped' /\ part' = "timing"
        /\ \A t \in DOMAIN old : t \in DOMAIN new /\ GoesOn(old[t].score, new[t].score)
    BY <2>1, RowAdded DEF AddTimedRow
  <2>3. ASSUME NEW t \in DOMAIN old
        PROVE  /\ t \in DOMAIN new /\ IsTimedTrajectory(old[t]) /\ IsTimedTrajectory(new[t])
               /\ old[t].score \in Seq(TimedScores) /\ GoesOn(old[t].score, new[t].score)
               /\ Len(new[t].score) <= MaxRows
    <3>1. t \in DOMAIN new /\ GoesOn(old[t].score, new[t].score)
      BY <2>2
    <3>2. IsTimedTrajectory(old[t]) /\ IsTimedTrajectory(new[t])
      BY <2>2, <3>1 DEF TimingTyped
    <3> QED
      BY <3>1, <3>2, TimedFields
  <2> HIDE DEF old, new
  <2>4. Kept(EventWarnings(old), EventWarnings(new))
    <3>1. DOMAIN EventWarnings(old) = EventPolicies \X Quantiles
      BY DEF EventWarnings, EventPolicies
    <3>2. ASSUME NEW p \in EventPolicies \X Quantiles, NEW t \in DOMAIN old
          PROVE  MayWarn(EventWarnings(old)[p][t], EventWarnings(new)[p][t], Len(new[t].score))
      BY <2>3, EventTimes, SequencesGrow
    <3>3. \A p \in EventPolicies \X Quantiles : DOMAIN EventWarnings(old)[p] = DOMAIN old
      BY EventTimes
    <3> QED
      BY <3>1, <3>2, <3>3 DEF Kept, MayWarn, new
  <2>5. Kept(NestedWarnings(old), NestedWarnings(new))
    <3>1. ASSUME NEW p \in NestedPolicies, NEW t \in DOMAIN old
          PROVE  MayWarn(NestedWarnings(old)[p][t], NestedWarnings(new)[p][t], Len(new[t].score))
      <4>1. CASE p[1] = "cumulative_hazard_first_crossing"
        BY <4>1, <2>3, NestedTimes, SequencesGrow
      <4>2. CASE p[1] = "early_weighted_first_crossing"
        BY <4>2, <2>3, NestedTimes, SequencesGrow
      <4>3. CASE p[1] \notin {"cumulative_hazard_first_crossing", "early_weighted_first_crossing"}
        BY <4>3, <2>3, NestedTimes, SequencesGrow
      <4> QED
        BY <4>1, <4>2, <4>3
    <3> QED
      BY <3>1, NestedTimes DEF Kept, MayWarn, new
  <2>6. Kept(OracleTimedWarnings(old), OracleTimedWarnings(new))
    <3>1. DOMAIN OracleTimedWarnings(old) = OraclePolicies
      BY DEF OracleTimedWarnings, OraclePolicies
    <3>2. ASSUME NEW p \in OraclePolicies, NEW t \in DOMAIN old
          PROVE  MayWarn(OracleTimedWarnings(old)[p][t], OracleTimedWarnings(new)[p][t], Len(new[t].score))
      <4>1. CASE p = "first_crossing_train_q80"
        BY <4>1, <2>3, OracleTimes, SequencesGrow
      <4>2. CASE p = "cumulative_hazard_train_q80"
        BY <4>2, <2>3, OracleTimes, SequencesGrow
      <4>3. CASE p = "early_weighted_train_q80"
        BY <4>3, <2>3, OracleTimes, SequencesGrow
      <4> QED
        BY <4>1, <4>2, <4>3 DEF OraclePolicies
    <3>3. \A p \in OraclePolicies : DOMAIN OracleTimedWarnings(old)[p] = DOMAIN old
      BY OracleTimes
    <3> QED
      BY <3>1, <3>2, <3>3 DEF Kept, MayWarn, new
  <2> QED
    BY <2>4, <2>5, <2>6 DEF old, new
<1> QED
  BY <1>1, TimingWorlds, PTL DEF Spec, WarningsAreCausal

(***********************************************************************************)
(* Train, calibration and test                                                      *)
(***********************************************************************************)
(* The decision rows are numbered. *)
RowsTyped == part = "rows" => \E n \in Nat : DOMAIN rows = 1..n

LEMMA MaxOf ==
  ASSUME NEW a \in Int, NEW b \in Int
  PROVE  Max({a, b}) = IF a <= b THEN b ELSE a
<1>1. CASE a <= b
  BY <1>1 DEF Max
<1>2. CASE ~(a <= b)
  BY <1>2 DEF Max
<1> QED
  BY <1>1, <1>2

(* Three fifths and one fifth of n, rounded. *)
LEMMA Portions ==
  ASSUME NEW n \in Nat, n >= 3
  PROVE  /\ Portion(n, TrainRatio) \in Nat /\ Portion(n, CalibrationRatio) \in Nat
         /\ 2 <= Portion(n, TrainRatio)
         /\ Portion(n, CalibrationRatio) <= Portion(n, TrainRatio)
         /\ Portion(n, TrainRatio) + Portion(n, CalibrationRatio) <= n
         /\ Portion(n, TrainRatio) + 1 <= n
<1> DEFINE a == (3 * n) \div 5   r == (3 * n) % 5
           b == n \div 5         q == n % 5
<1>1. /\ a \in Nat /\ r \in 0..4 /\ 3 * n = 5 * a + r
      /\ b \in Nat /\ q \in 0..4 /\ n = 5 * b + q
  OBVIOUS
<1>2. Portion(n, TrainRatio) = IF 2 * r > 5 \/ (2 * r = 5 /\ a % 2 = 1) THEN a + 1 ELSE a
  <2>1. Times(<<n, 1>>, TrainRatio) = <<3 * n, 5>>
    BY DEF Times, TrainRatio
  <2> QED
    BY <2>1 DEF Portion, Rounded
<1>3. Portion(n, CalibrationRatio) = IF 2 * q > 5 \/ (2 * q = 5 /\ b % 2 = 1) THEN b + 1 ELSE b
  <2>1. Times(<<n, 1>>, CalibrationRatio) = <<n, 5>>
    BY DEF Times, CalibrationRatio
  <2> QED
    BY <2>1 DEF Portion, Rounded
<1> HIDE DEF a, r, b, q
<1>4. Portion(n, TrainRatio) = (IF r >= 3 THEN a + 1 ELSE a) /\ Portion(n, CalibrationRatio) = (IF q >= 3 THEN b + 1 ELSE b)
  BY <1>1, <1>2, <1>3
<1> QED
  BY <1>1, <1>4

LEMMA SplitCounts ==
  ASSUME NEW n \in Nat, n >= 3
  PROVE  /\ split_counts(n).train \in Nat /\ split_counts(n).calibration \in Nat
         /\ 1 <= split_counts(n).train /\ 1 <= split_counts(n).calibration
         /\ split_counts(n).train + split_counts(n).calibration < n
<1> DEFINE p == Portion(n, TrainRatio)
           c == Portion(n, CalibrationRatio)
           wanted == IF 1 <= c THEN c ELSE 1
<1>1. /\ p \in Nat /\ c \in Nat /\ 2 <= p /\ c <= p /\ p + c <= n /\ p + 1 <= n
  BY Portions
<1>2. Max({1, p}) = p /\ Max({1, c}) = wanted
  BY <1>1, MaxOf
<1> DEFINE Result(train, cal) ==
             LET none_left == n >= 3 /\ train + cal = n
             IN CASE none_left /\ train >= cal /\ train > 1 -> [train |-> train - 1, calibration |-> cal]
                  [] none_left /\ ~(train >= cal /\ train > 1) /\ cal > 1 ->
                       [train |-> train, calibration |-> cal - 1]
                  [] OTHER -> [train |-> train, calibration |-> cal]
           CountsFrom(least) ==
             LET train == Max({least, p})
                 more == Max({least, c})
             IN Result(train, IF train + more > n THEN Max({0, n - train}) ELSE more)
<1>3. split_counts(n) = CountsFrom(IF n >= 3 THEN 1 ELSE 0)
  BY DEF split_counts
<1>4. (IF n >= 3 THEN 1 ELSE 0) = 1
  OBVIOUS
<1>5. wanted \in Nat /\ p + wanted <= n /\ p >= wanted /\ p > 1
  BY <1>1
<1>6. split_counts(n) = Result(p, wanted)
  <2> HIDE DEF p, c, wanted, Result
  <2>1. CountsFrom(1) = Result(p, IF p + wanted > n THEN Max({0, n - p}) ELSE wanted)
    BY <1>2
  <2>2. ~(p + wanted > n)
    BY <1>1, <1>5
  <2> HIDE DEF CountsFrom
  <2> QED
    BY <1>3, <1>4, <2>1, <2>2
<1>7. Result(p, wanted) = IF p + wanted = n THEN [train |-> p - 1, calibration |-> wanted]
                          ELSE [train |-> p, calibration |-> wanted]
  <2> HIDE DEF p, c, wanted
  <2> QED
    BY <1>1, <1>5
<1> HIDE DEF p, c, Result
<1> QED
  BY <1>1, <1>6, <1>7

LEMMA CutByPlace ==
  ASSUME NEW n \in Nat, NEW order, DOMAIN order = 1..n, \A i, j \in 1..n : i # j => order[i] # order[j],
         NEW train \in Nat, NEW cal \in Nat, NEW k \in 1..n
  PROVE  /\ order[k] \in DOMAIN Cut(order, train, cal)
         /\ Cut(order, train, cal)[order[k]] =
              IF k <= train THEN "train" ELSE IF k <= train + cal THEN "calibration" ELSE "test"
<1>1. order[k] \in Range(order) 
  BY DEF Range
<1>2. (CHOOSE i \in DOMAIN order : order[i] = order[k]) = k
  BY <1>1
<1>3. Cut(order, train, cal)[order[k]] =
        CASE k <= train -> "train"
          [] k > train /\ k <= train + cal -> "calibration"
          [] OTHER -> "test"
  BY <1>1, <1>2 DEF Cut
<1>4. order[k] \in DOMAIN Cut(order, train, cal)
  BY <1>1 DEF Cut
<1> QED
  BY <1>3, <1>4

(* The rows of a role, and those of them that turn bad. *)
RowsOfRole(rs, a, role) ==
  {i \in DOMAIN rs : rs[i].trajectory \in DOMAIN a /\ a[rs[i].trajectory] = role}
TrajectoriesOfRole(rs, a, role) == {rs[i].trajectory : i \in RowsOfRole(rs, a, role)}

LEMMA Summarized ==
  ASSUME NEW rs, IsFiniteSet(DOMAIN rs), NEW a, NEW role \in Roles
  PROVE  /\ summarize_split(rs, a, role).trajectory_count =
              Cardinality(TrajectoriesOfRole(rs, a, role))
         /\ summarize_split(rs, a, role).positives =
              Cardinality({i \in RowsOfRole(rs, a, role) : rs[i].target = 1})
<1> DEFINE held == [i \in RowsOfRole(rs, a, role) |-> rs[i]]
<1>1. rows_by_split(rs, a)[role] = held
  BY DEF rows_by_split, Part, RowsOfRole
<1>2. TrajectoriesOf(held) = TrajectoriesOfRole(rs, a, role)
  BY DEF TrajectoriesOf, TrajectoriesOfRole
<1>3. Positives(held) = {i \in RowsOfRole(rs, a, role) : rs[i].target = 1}
  BY DEF Positives
<1> HIDE DEF held
<1> QED
  BY <1>1, <1>2, <1>3 DEF summarize_split

LEMMA NonEmptyIsPositive ==
  ASSUME NEW S, IsFiniteSet(S)
  PROVE  Cardinality(S) \in Nat /\ (Cardinality(S) > 0 <=> S # {})
  BY FS_CardinalityType, FS_EmptySet

LEMMA RoleIsHeld ==
  ASSUME NEW rs, IsFiniteSet(DOMAIN rs), NEW a, NEW role \in Roles
  PROVE  (\E t \in TrajectoriesOf(rs) : t \in DOMAIN a /\ a[t] = role)
           => summarize_split(rs, a, role).trajectory_count > 0
<1> DEFINE R == RowsOfRole(rs, a, role)
           T == TrajectoriesOfRole(rs, a, role)
<1>6. summarize_split(rs, a, role).trajectory_count = Cardinality(T)
  BY Summarized
<1> SUFFICES ASSUME NEW t \in TrajectoriesOf(rs), t \in DOMAIN a, a[t] = role
             PROVE  summarize_split(rs, a, role).trajectory_count > 0
  OBVIOUS
<1>1. PICK i \in DOMAIN rs : rs[i].trajectory = t
  BY DEF TrajectoriesOf
<1>2. i \in RowsOfRole(rs, a, role)
  BY <1>1 DEF RowsOfRole
<1>3. IsFiniteSet(RowsOfRole(rs, a, role))
  BY FS_Subset DEF RowsOfRole
<1>4. IsFiniteSet(T)
  <2> DEFINE f == [j \in R |-> rs[j].trajectory]
  <2>1. f \in Surjection(R, T)
    BY DEF Surjection, TrajectoriesOfRole
  <2> QED
    BY <1>3, <2>1, FS_Surjection
<1>5. T # {}
  BY <1>2 DEF TrajectoriesOfRole
<1>7. Cardinality(T) > 0
  <2> HIDE DEF T
  <2>1. Cardinality(T) \in Nat /\ (Cardinality(T) > 0 <=> T # {})
    BY <1>4, NonEmptyIsPositive
  <2> QED
    BY <1>5, <2>1
<1> QED
  BY <1>6, <1>7

(* A role has a bad row exactly when it has a trajectory that turns bad. *)
LEMMA PositiveRows ==
  ASSUME NEW rs, IsFiniteSet(DOMAIN rs), NEW a, DOMAIN a \subseteq TrajectoriesOf(rs), NEW role \in Roles
  PROVE  /\ summarize_split(rs, a, role).positives \in Nat
         /\ summarize_split(rs, a, role).positives >= 1 <=> PositiveIn(a, Metadata(rs), role) # {}
<1> DEFINE Bad == {i \in RowsOfRole(rs, a, role) : rs[i].target = 1}
           BadOfTrajectory(t) == {i \in DOMAIN rs : rs[i].trajectory = t /\ rs[i].target = 1}
<1>1. IsFiniteSet(Bad)
  <2>1. Bad \in SUBSET DOMAIN rs
    BY DEF RowsOfRole
  <2> QED
    BY <2>1, FS_Subset
<1>2. summarize_split(rs, a, role).positives = Cardinality(Bad)
  BY Summarized
<1>3. ASSUME NEW t \in TrajectoriesOf(rs)
      PROVE  Metadata(rs)[t].positive_count > 0 <=> BadOfTrajectory(t) # {}
  <2> DEFINE own == {i \in DOMAIN rs : rs[i].trajectory = t}
  <2>1. RowsOfTrajectory(rs, t) = [i \in own |-> rs[i]]
    BY DEF RowsOfTrajectory, Part
  <2>2. Positives(RowsOfTrajectory(rs, t)) = BadOfTrajectory(t)
    BY <2>1 DEF Positives
  <2>3. Metadata(rs)[t].positive_count = Cardinality(BadOfTrajectory(t))
    BY <2>2 DEF Metadata, trajectory_metadata
  <2>4. IsFiniteSet(BadOfTrajectory(t))
    <3>1. BadOfTrajectory(t) \in SUBSET DOMAIN rs
      OBVIOUS
    <3> QED
      BY <3>1, FS_Subset
  <2> HIDE DEF BadOfTrajectory
  <2> QED
    BY <2>3, <2>4, NonEmptyIsPositive
<1>4. Bad # {} <=> \E t \in DOMAIN a : a[t] = role /\ BadOfTrajectory(t) # {}
  BY DEF RowsOfRole
<1>5. Bad # {} <=> PositiveIn(a, Metadata(rs), role) # {}
  <2> HIDE DEF Bad, BadOfTrajectory
  <2> QED
    BY <1>3, <1>4 DEF PositiveIn
<1>6. Cardinality(Bad) \in Nat /\ (Cardinality(Bad) > 0 <=> Bad # {})
  BY <1>1, NonEmptyIsPositive
<1> HIDE DEF Bad
<1> QED
  BY <1>2, <1>5, <1>6

(* A rebalanced role that still has no trajectory that turns bad: the training set   *)
(* has none either.                                                                  *)
LEMMA RefilledRole ==
  ASSUME NEW a, NEW metadata, NEW role, role # "train", NEW b \in Refilled(a, metadata, role)
  PROVE  /\ DOMAIN b = DOMAIN a
         /\ PositiveIn(b, metadata, "train") \subseteq PositiveIn(a, metadata, "train")
         /\ PositiveIn(b, metadata, role) = {} => PositiveIn(b, metadata, "train") = {}
         /\ \A other : other \notin {"train", role} =>
              PositiveIn(b, metadata, other) = PositiveIn(a, metadata, other)
<1> DEFINE donors == PositiveIn(a, metadata, "train")
<1>1. CASE PositiveIn(a, metadata, role) # {} \/ donors = {}
  <2>1. b = a
    BY <1>1 DEF Refilled
  <2> QED
    BY <1>1, <2>1
<1>2. CASE ~(PositiveIn(a, metadata, role) # {} \/ donors = {})
  <2>1. PICK t \in donors : b = [a EXCEPT ![t] = role]
    BY <1>2 DEF Refilled
  <2>2. /\ t \in DOMAIN a /\ a[t] = "train" /\ metadata[t].positive_count > 0
        /\ DOMAIN b = DOMAIN a /\ b[t] = role /\ \A u \in DOMAIN a : u # t => b[u] = a[u]
    BY <2>1 DEF PositiveIn
  <2>3. t \in PositiveIn(b, metadata, role)
    BY <2>2 DEF PositiveIn
  <2>4. PositiveIn(b, metadata, "train") \subseteq PositiveIn(a, metadata, "train")
    BY <2>2 DEF PositiveIn
  <2>5. ASSUME NEW other, other \notin {"train", role}
        PROVE  PositiveIn(b, metadata, other) = PositiveIn(a, metadata, other)
    BY <2>2, <2>5 DEF PositiveIn
  <2> QED
    BY <2>2, <2>3, <2>4, <2>5
<1> QED
  BY <1>1, <1>2

LEMMA Rebalanced ==
  ASSUME NEW a, NEW metadata, NEW b \in rebalance_empty_splits(a, metadata)
  PROVE  /\ DOMAIN b = DOMAIN a
         /\ \A role \in {"calibration", "test"} :
              PositiveIn(b, metadata, role) = {} => PositiveIn(b, metadata, "train") = {}
<1>1. PICK c \in Refilled(a, metadata, "calibration") : b \in Refilled(c, metadata, "test")
  BY DEF rebalance_empty_splits
<1>2. /\ DOMAIN c = DOMAIN a
      /\ PositiveIn(c, metadata, "calibration") = {} => PositiveIn(c, metadata, "train") = {}
  BY <1>1, RefilledRole
<1>3. /\ DOMAIN b = DOMAIN c
      /\ PositiveIn(b, metadata, "train") \subseteq PositiveIn(c, metadata, "train")
      /\ PositiveIn(b, metadata, "test") = {} => PositiveIn(b, metadata, "train") = {}
      /\ PositiveIn(b, metadata, "calibration") = PositiveIn(c, metadata, "calibration")
  BY <1>1, RefilledRole
<1> QED
  BY <1>2, <1>3

\* The decision rows are numbered from 1 in every world.
THEOREM RowWorlds == Spec => []RowsTyped
<1>1. Init => RowsTyped
  <2>1. DOMAIN << >> = 1..0
    OBVIOUS
  <2> QED
    BY <2>1 DEF Init, RowsTyped, Nothing
<1>2. RowsTyped /\ [Next]_vars => RowsTyped'
  <2> SUFFICES ASSUME RowsTyped, [Next]_vars PROVE RowsTyped'
    OBVIOUS
  <2>1. CASE AddRow
    <3>1. PICK n \in Nat : DOMAIN rows = 1..n
      BY <2>1 DEF AddRow, RowsTyped
    <3>2. Cardinality(DOMAIN rows) = n
      BY <3>1, FS_Interval
    <3>3. DOMAIN rows' = 1..(n + 1) /\ n + 1 \in Nat
      BY <2>1, <3>2 DEF AddRow
    <3> QED
      BY <3>3 DEF RowsTyped
  <2>2. CASE Turn \/ Label \/ AddTimedRow \/ AddLine \/ UNCHANGED vars
    BY <2>2, Zenon DEF Turn, Label, AddTimedRow, AddLine, vars, RowsTyped
  <2> QED
    BY <2>1, <2>2 DEF Next
<1> QED
  BY <1>1, <1>2, PTL DEF Spec

(* One shuffle of three trajectories or more: every role gets one of the places.     *)
LEMMA ShuffleFillsRoles ==
  ASSUME IsFiniteSet(DOMAIN rows), Cardinality(TrajectoriesOf(rows)) >= 3,
         NEW order \in Shuffles, NEW role \in Roles
  PROVE  make_verified_splits(rows, order, 1).splits[role].trajectory_count > 0
<1> DEFINE S == TrajectoriesOf(rows)
           n == Cardinality(S)
           train == split_counts(n).train
           cal == split_counts(n).calibration
           a == Cut(order, train, cal)
           place == IF role = "train" THEN 1 ELSE IF role = "calibration" THEN train + 1 ELSE n
<1>1. IsFiniteSet(S)
  <2> DEFINE f == [i \in DOMAIN rows |-> rows[i].trajectory]
  <2>1. f \in Surjection(DOMAIN rows, S)
    BY DEF Surjection, TrajectoriesOf
  <2> QED
    BY <2>1, FS_Surjection
<1>2. n \in Nat /\ n >= 3
  BY <1>1, FS_CardinalityType
<1>3. order \in [1..n -> S] /\ \A i, j \in 1..n : i # j => order[i] # order[j]
  BY DEF Shuffles, SetToSeqs
<1>4. Len(order) = n
  <2> HIDE DEF n, S
  <2> QED
    BY <1>2, <1>3
<1>5. /\ train \in Nat /\ cal \in Nat /\ 1 <= train /\ 1 <= cal /\ train + cal < n
  <2> HIDE DEF n
  <2> QED
    BY <1>2, SplitCounts
<1>6. make_verified_splits(rows, order, 1).splits[role] = summarize_split(rows, a, role)
  <2>1. make_assignments(order) = a
    BY <1>4 DEF make_assignments
  <2> HIDE DEF a
  <2> QED
    BY <2>1 DEF make_verified_splits
<1>7. place \in 1..n
  <2> HIDE DEF n, train, cal
  <2> QED
    BY <1>2, <1>5
<1>8. order[place] \in S /\ order[place] \in DOMAIN a /\ a[order[place]] = role
  <2> HIDE DEF n, train, cal, S
  <2>1. order[place] \in S
    BY <1>3, <1>7
  <2>2. /\ order[place] \in DOMAIN a
        /\ a[order[place]] = IF place <= train THEN "train" ELSE IF place <= train + cal THEN "calibration" ELSE "test"
    <3>1. DOMAIN order = 1..n /\ \A i, j \in 1..n : i # j => order[i] # order[j]
      BY <1>3
    <3> HIDE DEF place
    <3> QED
      BY <1>2, <1>5, <1>7, <3>1, CutByPlace
  <2> HIDE DEF a
  <2> QED
    BY <1>2, <1>5, <2>1, <2>2 DEF Roles
<1>9. S = TrajectoriesOf(rows)
  OBVIOUS
<1> HIDE DEF a, place, S
<1> QED
  BY <1>6, <1>8, <1>9, RoleIsHeld

(* Stratum by stratum: what a seed yields lacks bad trajectories in calibration or   *)
(* test only when train has none.                                                    *)
LEMMA SeedsKeepPositives ==
  ASSUME IsFiniteSet(DOMAIN rows), NEW orders \in StratumShuffles,
         NEW outcome \in create_repeated_splits(rows, orders, 1),
         NEW role \in {"calibration", "test"}, ~outcome.audit.enough_positives[role]
  PROVE  outcome.audit.splits["train"].positives = 0
<1> DEFINE first == stratified_assignments(orders)
           metadata == Metadata(rows)
<1>1. PICK a \in rebalance_empty_splits(first, metadata) :
        outcome = [assignments |-> a, audit |-> split_audit(rows, a, 1)]
  BY DEF create_repeated_splits
<1>2. DOMAIN first \subseteq TrajectoriesOf(rows)
  <2>1. ASSUME NEW key \in DOMAIN orders PROVE Range(orders[key]) \subseteq TrajectoriesOf(rows)
    <3>1. orders[key] \in SetToSeqs(Stratum(metadata, key))
      BY DEF StratumShuffles
    <3>2. Range(orders[key]) \subseteq Stratum(metadata, key)
      BY <3>1 DEF SetToSeqs, Range
    <3> QED
      BY <3>2 DEF Stratum, Metadata
  <2>2. DOMAIN first = UNION {Range(orders[key]) : key \in DOMAIN orders}
    BY DEF stratified_assignments
  <2> HIDE DEF first
  <2> QED
    BY <2>1, <2>2
<1> HIDE DEF first
<1>3. DOMAIN a \subseteq TrajectoriesOf(rows)
  BY <1>1, <1>2, Rebalanced
<1>4. /\ outcome.audit.enough_positives[role] = (summarize_split(rows, a, role).positives >= 1)
      /\ outcome.audit.splits["train"].positives = summarize_split(rows, a, "train").positives
  BY <1>1 DEF split_audit, Roles
<1>5. PositiveIn(a, metadata, role) = {}
  BY <1>3, <1>4, PositiveRows DEF Roles
<1>6. PositiveIn(a, metadata, "train") = {}
  BY <1>1, <1>5, Rebalanced
<1>7. /\ summarize_split(rows, a, "train").positives \in Nat
      /\ ~(summarize_split(rows, a, "train").positives >= 1)
  BY <1>3, <1>6, PositiveRows DEF Roles
<1> QED
  BY <1>4, <1>7

\* However the shuffles fall, split and rebalancing leave every role with rows, and
\* calibration and test without positives only if the training set has none to give.
THEOREM RolesStayUsable == Spec => []RolesKeepPositives
<1>1. RowsTyped => RolesKeepPositives
  <2> SUFFICES ASSUME RowsTyped, part = "rows" PROVE RolesKeepPositives
    BY DEF RolesKeepPositives
  <2>1. IsFiniteSet(DOMAIN rows)
    <3>1. PICK n \in Nat : DOMAIN rows = 1..n
      BY DEF RowsTyped
    <3> QED
      BY <3>1, FS_Interval
  <2>2. ASSUME Cardinality(TrajectoriesOf(rows)) >= 3, NEW order \in Shuffles, NEW role \in Roles
        PROVE  make_verified_splits(rows, order, 1).splits[role].trajectory_count > 0
    BY <2>1, <2>2, ShuffleFillsRoles
  <2>3. ASSUME NEW orders \in StratumShuffles, NEW outcome \in create_repeated_splits(rows, orders, 1),
               NEW role \in DOMAIN outcome.audit.enough_positives,
               ~outcome.audit.enough_positives[role]
        PROVE  outcome.audit.splits["train"].positives = 0
    <3>1. PICK a : outcome = [assignments |-> a, audit |-> split_audit(rows, a, 1)]
      BY DEF create_repeated_splits
    <3>2. role \in {"calibration", "test"}
      BY <3>1 DEF split_audit
    <3> QED
      BY <2>1, <2>3, <3>2, SeedsKeepPositives
  <2> QED
    BY <2>2, <2>3 DEF RolesKeepPositives
<1> QED
  BY <1>1, RowWorlds, PTL

(***********************************************************************************)
(* The archived run                                                                  *)
(***********************************************************************************)
Numbered(s) == \E n \in Nat : DOMAIN s = 1..n

(* What the manifest may say of a run: finitely many stages, steps from 1 on, and    *)
(* labels that say incorrect or unuseful.                                           *)
IsStage(stage) ==
  /\ \A ids \in {stage.incorrect_step_ids, stage.unuseful_step_ids} :
       IsFiniteSet(ids) /\ ids \subseteq Nat \ {0}
  /\ Numbered(stage.steps)
  /\ \A k \in DOMAIN stage.steps :
       stage.steps[k].step_id \in Nat \ {0} /\ stage.steps[k].labels \subseteq {"incorrect", "unuseful"}
IsSample(sample) ==
  /\ sample.step_count \in Nat
  /\ Numbered(sample.incorrect_stages)
  /\ \A k \in DOMAIN sample.incorrect_stages : IsStage(sample.incorrect_stages[k])

(* What an archive may hold: members in a row, a conversation in a row of messages. *)
Conversations == {"mini_swe_mini_traj", "mini_swe_generic_traj_json", "swe_agent_traj"}
IsArchive(members) ==
  /\ Numbered(members)
  /\ \A k \in DOMAIN members :
       /\ members[k].number \in Nat
       /\ members[k].kind \in Conversations => Numbered(members[k].body)

(* A step of a run, at its place. *)
IsStep(r, id, i, u) ==
  /\ {"step_index", "action_text", "observation_text", "incorrect", "unuseful"} \subseteq DOMAIN r
  /\ r.step_index = id /\ r.incorrect = i /\ r.unuseful = u
AreSteps(steps) ==
  /\ IsFiniteSet(DOMAIN steps) /\ DOMAIN steps \subseteq Nat \ {0}
  /\ \A id \in DOMAIN steps : IsStep(steps[id], id, FALSE, FALSE)

LEMMA NumberedFinite ==
  ASSUME NEW s, Numbered(s)
  PROVE  IsFiniteSet(DOMAIN s) /\ DOMAIN s \subseteq Nat \ {0} /\ IsFiniteSet(ToSet(s))
<1> DEFINE f == [k \in DOMAIN s |-> s[k]]
<1>1. IsFiniteSet(DOMAIN s) /\ DOMAIN s \subseteq Nat \ {0}
  BY FS_Interval DEF Numbered
<1>2. f \in Surjection(DOMAIN s, ToSet(s))
  BY DEF Surjection, ToSet
<1> QED
  BY <1>1, <1>2, FS_Surjection

LEMMA FreshStep ==
  ASSUME NEW sample, NEW id, NEW action, NEW observation
  PROVE  IsStep(StepRecord(sample, id, action, observation), id, FALSE, FALSE)
  BY DEF IsStep, StepRecord

LEMMA StepTexts ==
  ASSUME NEW r, NEW id, NEW i, NEW u, NEW a, NEW o, IsStep(r, id, i, u)
  PROVE  IsStep([r EXCEPT !.action_text = a, !.observation_text = o], id, i, u)
  BY DEF IsStep

LEMMA StepMarks ==
  ASSUME NEW r, NEW id, NEW i, NEW u, NEW x, NEW y, IsStep(r, id, i, u)
  PROVE  IsStep([r EXCEPT !.incorrect = x, !.unuseful = y], id, x, y)
  BY DEF IsStep

LEMMA StepFields ==
  ASSUME NEW r, NEW id, NEW i, NEW u, IsStep(r, id, i, u)
  PROVE  r.step_index = id /\ (IsBad(r) <=> i \/ u)
  BY DEF IsStep, IsBad

LEMMA PairsAreSteps ==
  ASSUME NEW sample, NEW pairs, Numbered(pairs)
  PROVE  AreSteps(steps_of_pairs(sample, pairs))
<1>1. DOMAIN steps_of_pairs(sample, pairs) = DOMAIN pairs
  BY DEF steps_of_pairs
<1>2. \A step \in DOMAIN pairs : IsStep(steps_of_pairs(sample, pairs)[step], step, FALSE, FALSE)
  BY FreshStep DEF steps_of_pairs
<1> QED
  BY <1>1, <1>2, NumberedFinite DEF AreSteps

LEMMA CountIsNat ==
  ASSUME NEW S, IsFiniteSet(S), NEW T, T \subseteq S
  PROVE  IsFiniteSet(T) /\ Cardinality(T) \in Nat
  BY FS_Subset, FS_CardinalityType

LEMMA NumbersFinite ==
  ASSUME NEW S, IsFiniteSet(S)
  PROVE  IsFiniteSet({m.number : m \in S})
<1> DEFINE f == [m \in S |-> m.number]
<1>1. f \in Surjection(S, {m.number : m \in S})
  BY DEF Surjection
<1> QED
  BY <1>1, FS_Surjection

(* What has been inferred of a run. *)
IsInferred(r) == r.malformed \in Nat /\ AreSteps(r.steps)

LEMMA NothingInferred == IsInferred([steps |-> NoSteps, malformed |-> 1])
  BY FS_EmptySet DEF IsInferred, AreSteps, NoSteps

LEMMA EpisodesAreSteps ==
  ASSUME NEW sample, NEW members, IsArchive(members)
  PROVE  IsInferred(infer_terminus_steps(sample, members))
<1> DEFINE E == {m.number : m \in {m \in ToSet(members) : m.kind \in {"response", "prompt"}}}
           S == {e + 1 : e \in E}
           f == [e \in E |-> e + 1]
<1>1. IsFiniteSet(E)
  BY NumberedFinite, CountIsNat, NumbersFinite DEF IsArchive
<1>2. E \subseteq Nat
  BY DEF IsArchive, ToSet
<1>3. IsFiniteSet(S)
  <2>1. f \in Surjection(E, S)
    BY DEF Surjection
  <2> QED
    BY <1>1, <2>1, FS_Surjection
<1>4. S \subseteq Nat \ {0}
  BY <1>2
<1>5. infer_terminus_steps(sample, members).malformed = 0
  BY DEF infer_terminus_steps
<1>6. DOMAIN infer_terminus_steps(sample, members).steps = S
  BY DEF infer_terminus_steps
<1>7. \A step \in S : IsStep(infer_terminus_steps(sample, members).steps[step], step, FALSE, FALSE)
  BY FreshStep DEF infer_terminus_steps
<1> HIDE DEF S
<1>8. AreSteps(infer_terminus_steps(sample, members).steps)
  BY <1>3, <1>4, <1>6, <1>7 DEF AreSteps
<1> QED
  BY <1>5, <1>8 DEF IsInferred

LEMMA PairsOfMessages ==
  ASSUME NEW messages, Numbered(messages)
  PROVE  Numbered(message_pairs(messages))
<1> DEFINE acts == CHOOSE acts : acts = [i \in DOMAIN messages |->
                                   messages[i].role = "assistant" /\ ~(i > 1 /\ acts[i - 1])]
           S == {i \in DOMAIN messages : acts[i]}
<1>1. Cardinality(S) \in Nat
  BY NumberedFinite, CountIsNat
<1>2. DOMAIN message_pairs(messages) = 1..Cardinality(S)
  BY DEF message_pairs, in_order
<1> QED
  BY <1>1, <1>2 DEF Numbered

LEMMA MessagesAreSteps ==
  ASSUME NEW sample, NEW members, IsArchive(members), NEW kinds, kinds \subseteq Conversations
  PROVE  IsInferred(infer_message_traj_steps(sample, members, kinds))
<1> DEFINE found == {i \in DOMAIN members : members[i].kind \in kinds /\ members[i].body # <<>>}
<1>1. CASE found = {}
  <2>1. infer_message_traj_steps(sample, members, kinds) = [steps |-> NoSteps, malformed |-> 1]
    BY <1>1 DEF infer_message_traj_steps
  <2> QED
    BY <2>1, NothingInferred
<1>2. CASE found # {}
  <2>1. Min(found) \in found
    BY <1>2, MinOf, NumberedFinite DEF IsArchive
  <2>2. Numbered(members[Min(found)].body)
    BY <2>1 DEF IsArchive
  <2> DEFINE pairs == message_pairs(members[Min(found)].body)
  <2>3. AreSteps(steps_of_pairs(sample, pairs))
    BY <2>2, PairsOfMessages, PairsAreSteps
  <2>4. infer_message_traj_steps(sample, members, kinds)
          = [steps |-> steps_of_pairs(sample, pairs), malformed |-> 0]
    BY <1>2 DEF infer_message_traj_steps
  <2> QED
    BY <2>3, <2>4 DEF IsInferred
<1> QED
  BY <1>1, <1>2

LEMMA TrajectoryIsSteps ==
  ASSUME NEW sample, NEW members, IsArchive(members)
  PROVE  IsInferred(infer_swe_agent_traj_steps(sample, members))
<1> DEFINE found == {i \in DOMAIN members : members[i].kind = "swe_agent_traj" /\ members[i].body # <<>>}
<1>1. CASE found = {}
  <2>1. infer_swe_agent_traj_steps(sample, members) = [steps |-> NoSteps, malformed |-> 1]
    BY <1>1 DEF infer_swe_agent_traj_steps
  <2> QED
    BY <2>1, NothingInferred
<1>2. CASE found # {}
  <2>1. Min(found) \in found
    BY <1>2, MinOf, NumberedFinite DEF IsArchive
  <2>2. Numbered(members[Min(found)].body)
    BY <2>1 DEF IsArchive, Conversations
  <2>3. AreSteps(steps_of_pairs(sample, members[Min(found)].body))
    BY <2>2, PairsAreSteps
  <2>4. infer_swe_agent_traj_steps(sample, members)
          = [steps |-> steps_of_pairs(sample, members[Min(found)].body), malformed |-> 0]
    BY <1>2 DEF infer_swe_agent_traj_steps
  <2> QED
    BY <2>3, <2>4 DEF IsInferred
<1> QED
  BY <1>1, <1>2

LEMMA EventsAreSteps ==
  ASSUME NEW sample, NEW members, IsArchive(members)
  PROVE  IsInferred(infer_openhands_event_steps(sample, members))
<1> DEFINE events == {m \in ToSet(members) : m.kind = "openhands_events"}
           parsed == {m \in events : m.body.ok}
           actions == {m.number : m \in {m \in parsed : m.body.agent_action}}
           result == infer_openhands_event_steps(sample, members)
<1>1. IsFiniteSet(ToSet(members))
  BY NumberedFinite DEF IsArchive
<1>2. Cardinality(events \ parsed) \in Nat
  BY <1>1, CountIsNat
<1>3. IsFiniteSet(actions)
  BY <1>1, CountIsNat, NumbersFinite
<1>4. PICK pairs : /\ DOMAIN pairs = 1..Cardinality(actions)
                   /\ result.steps = steps_of_pairs(sample, pairs)
  BY DEF infer_openhands_event_steps, in_order
<1>5. Numbered(pairs)
  BY <1>3, <1>4, FS_CardinalityType DEF Numbered
<1>6. result.malformed = Cardinality(events \ parsed)
  BY DEF infer_openhands_event_steps
<1> QED
  BY <1>2, <1>4, <1>5, <1>6, PairsAreSteps DEF IsInferred

LEMMA BlocksAreSteps ==
  ASSUME NEW sample, NEW members, IsArchive(members)
  PROVE  IsInferred(infer_openhands_tensorblock_steps(sample, members))
<1> DEFINE blocks == {m \in ToSet(members) : m.kind = "openhands_tensorblock"}
           acting == {m \in {m \in blocks : m.body.ok} : m.text # NoText}
           stamps == {m.number : m \in acting}
           result == infer_openhands_tensorblock_steps(sample, members)
<1>1. IsFiniteSet(ToSet(members))
  BY NumberedFinite DEF IsArchive
<1>2. Cardinality(blocks \ acting) \in Nat
  BY <1>1, CountIsNat
<1>3. IsFiniteSet(stamps)
  BY <1>1, CountIsNat, NumbersFinite
<1>4. PICK pairs : /\ DOMAIN pairs = 1..Cardinality(stamps)
                   /\ result.steps = steps_of_pairs(sample, pairs)
  BY DEF infer_openhands_tensorblock_steps, in_order
<1>5. Numbered(pairs)
  BY <1>3, <1>4, FS_CardinalityType DEF Numbered
<1>6. result.malformed = Cardinality(blocks \ acting)
  BY DEF infer_openhands_tensorblock_steps
<1> QED
  BY <1>2, <1>4, <1>5, <1>6, PairsAreSteps DEF IsInferred

(* Whatever the layout, what is inferred is a run of steps at their places, and what  *)
(* had to be left out is counted.                                                    *)
LEMMA InferredAreSteps ==
  ASSUME NEW sample, NEW members, IsArchive(members)
  PROVE  IsInferred(inferred_steps(sample, members))
  BY EpisodesAreSteps, MessagesAreSteps, TrajectoryIsSteps, EventsAreSteps, BlocksAreSteps
     DEF inferred_steps, Conversations

LEMMA StagesOf ==
  ASSUME NEW sample, IsSample(sample)
  PROVE  /\ IsFiniteSet(ToSet(sample.incorrect_stages))
         /\ \A s \in ToSet(sample.incorrect_stages) : IsStage(s)
  BY NumberedFinite DEF IsSample, ToSet

LEMMA ListedOf ==
  ASSUME NEW s, IsStage(s)
  PROVE  /\ IsFiniteSet({e.step_id : e \in listed_steps(s)})
         /\ {e.step_id : e \in listed_steps(s)} \subseteq Nat \ {0}
         /\ \A e \in listed_steps(s) : e.labels \subseteq {"incorrect", "unuseful"}
<1>1. IsFiniteSet(listed_steps(s))
  BY NumberedFinite DEF IsStage, listed_steps
<1>2. \A e \in listed_steps(s) : e.step_id \in Nat \ {0} /\ e.labels \subseteq {"incorrect", "unuseful"}
  BY DEF IsStage, listed_steps, ToSet
<1>3. IsFiniteSet({e.step_id : e \in listed_steps(s)})
  <2> DEFINE f == [e \in listed_steps(s) |-> e.step_id]
  <2>1. f \in Surjection(listed_steps(s), {e.step_id : e \in listed_steps(s)})
    BY DEF Surjection
  <2> QED
    BY <1>1, <2>1, FS_Surjection
<1> QED
  BY <1>2, <1>3

LEMMA RefsOf ==
  ASSUME NEW sample, IsSample(sample)
  PROVE  /\ IsFiniteSet(DOMAIN ref_paths_by_step(sample))
         /\ DOMAIN ref_paths_by_step(sample) \subseteq Nat \ {0}
<1> DEFINE stages == ToSet(sample.incorrect_stages)
           Listed(s) == {e.step_id : e \in listed_steps(s)}
           all == {Listed(s) : s \in stages}
           f == [s \in stages |-> Listed(s)]
<1>1. IsFiniteSet(stages) /\ \A s \in stages : IsStage(s)
  BY StagesOf
<1>2. \A s \in stages : IsFiniteSet(Listed(s)) /\ Listed(s) \subseteq Nat \ {0}
  BY <1>1, ListedOf
<1> HIDE DEF stages, Listed
<1>3. f \in Surjection(stages, all)
  BY DEF Surjection
<1>4. IsFiniteSet(all)
  BY <1>1, <1>3, FS_Surjection
<1>5. IsFiniteSet(UNION all)
  <2>1. \A T \in all : IsFiniteSet(T)
    BY <1>2
  <2> HIDE DEF all
  <2> QED
    BY <1>4, <2>1, FS_UNION
<1>6. DOMAIN ref_paths_by_step(sample) = UNION all
  BY DEF ref_paths_by_step, stages, Listed
<1> QED
  BY <1>2, <1>5, <1>6

(* The manifest's references keep the steps at their places, and add some. *)
LEMMA ReferredAreSteps ==
  ASSUME NEW sample, IsSample(sample), NEW members, NEW steps, AreSteps(steps)
  PROVE  IsInferred(apply_manifest_ref_texts(sample, members, steps))
<1> DEFINE refs == ref_paths_by_step(sample)
           base(id) == IF id \in DOMAIN steps THEN steps[id] ELSE StepRecord(sample, id, NoText, NoText)
           result == apply_manifest_ref_texts(sample, members, steps)
           unread(ref) == ref # <<>> /\ read_ref_text(ref, members) = NoText
<1>1. IsFiniteSet(DOMAIN refs) /\ DOMAIN refs \subseteq Nat \ {0}
  BY RefsOf
<1>2. \A id \in DOMAIN steps \cup DOMAIN refs : IsStep(base(id), id, FALSE, FALSE)
  BY FreshStep DEF AreSteps
<1>3. /\ DOMAIN result.steps = DOMAIN steps \cup DOMAIN refs
      /\ \A id \in DOMAIN steps \ DOMAIN refs : result.steps[id] = steps[id]
      /\ \A id \in DOMAIN refs : \E a, o :
           result.steps[id] = [base(id) EXCEPT !.action_text = a, !.observation_text = o]
  BY DEF apply_manifest_ref_texts
<1>4. result.malformed \in Nat
  <2>1. result.malformed = Cardinality({id \in DOMAIN refs : unread(refs[id].action)})
                           + Cardinality({id \in DOMAIN refs : unread(refs[id].observation)})
    BY DEF apply_manifest_ref_texts
  <2>2. /\ Cardinality({id \in DOMAIN refs : unread(refs[id].action)}) \in Nat
        /\ Cardinality({id \in DOMAIN refs : unread(refs[id].observation)}) \in Nat
    BY <1>1, CountIsNat
  <2> QED
    BY <2>1, <2>2
<1>5. \A id \in DOMAIN result.steps : IsStep(result.steps[id], id, FALSE, FALSE)
  <2> SUFFICES ASSUME NEW id \in DOMAIN result.steps PROVE IsStep(result.steps[id], id, FALSE, FALSE)
    OBVIOUS
  <2> HIDE DEF result, refs, base
  <2>1. CASE id \in DOMAIN refs
    <3>1. PICK a, o : result.steps[id] = [base(id) EXCEPT !.action_text = a, !.observation_text = o]
      BY <1>3, <2>1
    <3>2. IsStep(base(id), id, FALSE, FALSE)
      BY <1>2, <2>1
    <3>3. IsStep([base(id) EXCEPT !.action_text = a, !.observation_text = o], id, FALSE, FALSE)
      BY ONLY <3>2, StepTexts
    <3> QED
      BY <3>1, <3>3
  <2>2. CASE id \notin DOMAIN refs
    BY <1>3, <2>2 DEF AreSteps
  <2> QED
    BY <2>1, <2>2
<1>6. IsFiniteSet(DOMAIN result.steps) /\ DOMAIN result.steps \subseteq Nat \ {0}
  <2>1. IsFiniteSet(DOMAIN steps) /\ DOMAIN steps \subseteq Nat \ {0}
    BY DEF AreSteps
  <2> HIDE DEF result, refs
  <2>2. IsFiniteSet(DOMAIN steps \cup DOMAIN refs)
    BY <1>1, <2>1, FS_Union
  <2>3. DOMAIN result.steps = DOMAIN steps \cup DOMAIN refs
    BY <1>3
  <2> QED
    BY <1>1, <2>1, <2>2, <2>3
<1>7. AreSteps(result.steps)
  <2> HIDE DEF result
  <2> QED
    BY <1>5, <1>6 DEF AreSteps
<1> HIDE DEF result
<1> QED
  BY <1>4, <1>7 DEF IsInferred, result

(* A label is a label: of the steps that have one, some say so. *)
LEMMA LabelsOf ==
  ASSUME NEW sample, IsSample(sample)
  PROVE  LET labels == labels_by_step(sample)
         IN /\ IsFiniteSet(DOMAIN labels) /\ DOMAIN labels \subseteq Nat \ {0}
            /\ \A id \in DOMAIN labels : "incorrect" \in labels[id] \/ "unuseful" \in labels[id]
<1> DEFINE stages == ToSet(sample.incorrect_stages)
           Mentioned(s) == s.incorrect_step_ids \cup s.unuseful_step_ids
                             \cup {e.step_id : e \in listed_steps(s)}
           ByStage(s, id) ==
             (IF id \in s.incorrect_step_ids THEN {"incorrect", "stage"} ELSE {})
             \cup (IF id \in s.unuseful_step_ids THEN {"unuseful", "stage"} ELSE {})
             \cup UNION {e.labels \cup {"stage"} : e \in {e \in listed_steps(s) : e.step_id = id}}
           all == {Mentioned(s) : s \in stages}
           raw == label_steps_from_sample(sample)
           labels == labels_by_step(sample)
           f == [s \in stages |-> Mentioned(s)]
<1>1. IsFiniteSet(stages) /\ \A s \in stages : IsStage(s)
  BY StagesOf
<1>2. \A s \in stages : IsFiniteSet(Mentioned(s)) /\ Mentioned(s) \subseteq Nat \ {0}
  <2> SUFFICES ASSUME NEW s \in stages
               PROVE  IsFiniteSet(Mentioned(s)) /\ Mentioned(s) \subseteq Nat \ {0}
    OBVIOUS
  <2>1. IsFiniteSet(s.incorrect_step_ids) /\ IsFiniteSet(s.unuseful_step_ids)
        /\ s.incorrect_step_ids \subseteq Nat \ {0} /\ s.unuseful_step_ids \subseteq Nat \ {0}
    BY <1>1 DEF IsStage
  <2>2. /\ IsFiniteSet({e.step_id : e \in listed_steps(s)})
        /\ {e.step_id : e \in listed_steps(s)} \subseteq Nat \ {0}
    BY <1>1, ListedOf
  <2>3. IsFiniteSet(s.incorrect_step_ids \cup s.unuseful_step_ids)
    BY <2>1, FS_Union
  <2> QED
    BY <2>1, <2>2, <2>3, FS_Union
<1>3. \A s \in stages : \A id :
        /\ ByStage(s, id) \subseteq {"incorrect", "unuseful", "stage"}
        /\ id \in Mentioned(s) => "stage" \in ByStage(s, id)
  <2> SUFFICES ASSUME NEW s \in stages, NEW id
               PROVE  /\ ByStage(s, id) \subseteq {"incorrect", "unuseful", "stage"}
                      /\ id \in Mentioned(s) => "stage" \in ByStage(s, id)
    OBVIOUS
  <2>1. \A e \in listed_steps(s) : e.labels \subseteq {"incorrect", "unuseful"}
    BY <1>1, ListedOf
  <2> QED
    BY <2>1
<1>4. /\ DOMAIN raw = UNION all
      /\ \A id \in DOMAIN raw : raw[id] = UNION {ByStage(s, id) : s \in stages}
  BY DEF label_steps_from_sample
<1>5. /\ DOMAIN labels = {id \in DOMAIN raw : raw[id] # {"stage"}}
      /\ \A id \in DOMAIN labels : labels[id] = raw[id] \ {"stage"}
  BY DEF labels_by_step
<1> HIDE DEF stages, Mentioned, ByStage, raw, labels
<1>6. f \in Surjection(stages, all)
  BY DEF Surjection
<1>7. IsFiniteSet(all)
  BY <1>1, <1>6, FS_Surjection
<1>8. IsFiniteSet(UNION all) /\ UNION all \subseteq Nat \ {0}
  <2>1. \A T \in all : IsFiniteSet(T) /\ T \subseteq Nat \ {0}
    BY <1>2
  <2> HIDE DEF all
  <2> QED
    BY <1>7, <2>1, FS_UNION
<1>9. \A id \in DOMAIN raw : "stage" \in raw[id] /\ raw[id] \subseteq {"incorrect", "unuseful", "stage"}
  BY <1>3, <1>4
<1>10. \A id \in DOMAIN labels : "incorrect" \in labels[id] \/ "unuseful" \in labels[id]
  BY <1>5, <1>9
<1>11. IsFiniteSet(DOMAIN labels) /\ DOMAIN labels \subseteq Nat \ {0}
  <2> HIDE DEF all
  <2>1. DOMAIN labels \subseteq UNION all
    BY <1>4, <1>5
  <2> QED
    BY <1>8, <2>1, CountIsNat
<1> QED
  BY <1>10, <1>11 DEF labels

(* The labels mark the steps they are of, and make those nobody recovered. *)
IsMarked(steps, labels) ==
  /\ IsFiniteSet(DOMAIN steps) /\ DOMAIN steps \subseteq Nat \ {0}
  /\ \A id \in DOMAIN steps : \E i, u \in BOOLEAN :
       IsStep(steps[id], id, i, u) /\ (i \/ u <=> id \in DOMAIN labels)

LEMMA LabelledAreMarked ==
  ASSUME NEW sample, IsSample(sample), NEW steps, AreSteps(steps)
  PROVE  LET result == label_steps(sample, steps)
         IN result.malformed \in Nat /\ IsMarked(result.steps, labels_by_step(sample))
<1> DEFINE labels == labels_by_step(sample)
           base(id) == IF id \in DOMAIN steps THEN steps[id] ELSE StepRecord(sample, id, NoText, NoText)
           marked(id) == [base(id) EXCEPT !.incorrect = "incorrect" \in labels[id],
                                          !.unuseful = "unuseful" \in labels[id]]
           result == label_steps(sample, steps)
<1>1. /\ IsFiniteSet(DOMAIN labels) /\ DOMAIN labels \subseteq Nat \ {0}
      /\ \A id \in DOMAIN labels : "incorrect" \in labels[id] \/ "unuseful" \in labels[id]
  BY LabelsOf
<1>2. \A id \in DOMAIN steps \cup DOMAIN labels : IsStep(base(id), id, FALSE, FALSE)
  BY FreshStep DEF AreSteps
<1>3. /\ DOMAIN result.steps = DOMAIN steps \cup DOMAIN labels
      /\ result.malformed = Cardinality(DOMAIN labels \ DOMAIN steps)
      /\ \A id \in DOMAIN steps \ DOMAIN labels : result.steps[id] = steps[id]
      /\ \A id \in DOMAIN labels : result.steps[id] = marked(id)
  <2>1. result = [steps |-> [id \in DOMAIN steps \cup DOMAIN labels |->
                              IF id \in DOMAIN labels THEN marked(id) ELSE steps[id]],
                  malformed |-> Cardinality(DOMAIN labels \ DOMAIN steps)]
    BY Zenon DEF label_steps
  <2> HIDE DEF labels, marked, result
  <2> QED
    BY <2>1
<1> HIDE DEF labels, base, marked, result
<1>4. result.malformed \in Nat
  BY <1>1, <1>3, CountIsNat
<1>5. ASSUME NEW id \in DOMAIN result.steps
      PROVE  \E i, u \in BOOLEAN : IsStep(result.steps[id], id, i, u) /\ (i \/ u <=> id \in DOMAIN labels)
  <2>1. CASE id \in DOMAIN labels
    <3> DEFINE i == "incorrect" \in labels[id]
               u == "unuseful" \in labels[id]
    <3>1. i \in BOOLEAN /\ u \in BOOLEAN /\ (i \/ u)
      BY <1>1, <2>1
    <3>2. result.steps[id] = [base(id) EXCEPT !.incorrect = i, !.unuseful = u]
      BY <1>3, <2>1, Zenon DEF marked
    <3> HIDE DEF i, u
    <3>3. IsStep(base(id), id, FALSE, FALSE)
      BY <1>2, <2>1
    <3>4. IsStep([base(id) EXCEPT !.incorrect = i, !.unuseful = u], id, i, u)
      BY ONLY <3>3, StepMarks
    <3>5. IsStep(result.steps[id], id, i, u)
      BY <3>2, <3>4
    <3> QED
      BY <2>1, <3>1, <3>5
  <2>2. CASE id \notin DOMAIN labels
    BY <1>3, <2>2 DEF AreSteps
  <2> QED
    BY <2>1, <2>2
<1>6. IsFiniteSet(DOMAIN result.steps) /\ DOMAIN result.steps \subseteq Nat \ {0}
  <2>1. IsFiniteSet(DOMAIN steps) /\ DOMAIN steps \subseteq Nat \ {0}
    BY DEF AreSteps
  <2>2. IsFiniteSet(DOMAIN steps \cup DOMAIN labels)
    BY <1>1, <2>1, FS_Union
  <2>3. DOMAIN result.steps = DOMAIN steps \cup DOMAIN labels
    BY <1>3
  <2> QED
    BY <1>1, <2>1, <2>2, <2>3
<1>7. IsMarked(result.steps, labels)
  BY <1>5, <1>6 DEF IsMarked
<1> QED
  BY <1>4, <1>7 DEF labels, result

LEMMA UpTo ==
  ASSUME NEW n \in Nat, NEW S, S = 1..n
  PROVE  IsFiniteSet(S) /\ Cardinality(S) = n
  BY FS_Interval

(* Numbered from 1 without a gap, a run is in order as it is. *)
LEMMA NthOfRun ==
  ASSUME NEW d \in Nat, NEW k \in 1..d
  PROVE  nth(1..d, k) = k
<1>1. ASSUME NEW i \in 1..d PROVE Cardinality({j \in 1..d : j <= i}) = i
  <2> DEFINE S == {j \in 1..d : j <= i}
  <2>1. S = 1..i /\ i \in Nat
    OBVIOUS
  <2> HIDE DEF S
  <2>2. Cardinality(S) = i
    BY <2>1, UpTo
  <2> QED
    BY <2>2 DEF S
<1> QED
  BY <1>1 DEF nth

(* A settled run that nothing is amiss with has all the steps the manifest declares,  *)
(* at their places, bad exactly where the manifest labels them.                      *)
IsAligned(steps, labels) ==
  /\ Numbered(steps)
  /\ \A k \in DOMAIN steps :
       /\ steps[k].step_index = k
       /\ IsBad(steps[k]) <=> k \in DOMAIN labels

LEMMA SettledIsAligned ==
  ASSUME NEW sample, IsSample(sample), sample.step_count > 0,
         NEW members, NEW inferred, IsInferred(inferred),
         settle_steps(sample, members, inferred).malformed = 0
  PROVE  IsAligned(settle_steps(sample, members, inferred).steps, labels_by_step(sample))
<1> DEFINE referred == apply_manifest_ref_texts(sample, members, inferred.steps)
           labelled == label_steps(sample, referred.steps)
           labels == labels_by_step(sample)
           d == sample.step_count
           kept == {i \in DOMAIN labelled.steps : i <= d}
           result == settle_steps(sample, members, inferred)
<1>1. d \in Nat /\ d > 0
  BY DEF IsSample
<1>2. inferred.malformed \in Nat /\ AreSteps(inferred.steps)
  BY DEF IsInferred
<1>3. referred.malformed \in Nat /\ AreSteps(referred.steps)
  BY <1>2, ReferredAreSteps DEF IsInferred
<1>4. labelled.malformed \in Nat /\ IsMarked(labelled.steps, labels)
  BY <1>3, LabelledAreMarked
<1>5. /\ result.steps = [k \in 1..Cardinality(kept) |-> labelled.steps[nth(kept, k)]]
      /\ result.malformed = inferred.malformed + referred.malformed + labelled.malformed
                              + Cardinality(DOMAIN labelled.steps \ kept) + Cardinality((1..d) \ kept)
  <2> DEFINE all == IF d = 0 THEN DOMAIN labelled.steps ELSE kept
  <2>1. result = [steps |-> in_order(all, LAMBDA i : labelled.steps[i]),
                  overrun |-> Cardinality(DOMAIN labelled.steps \ all), missing |-> Cardinality((1..d) \ all),
                  malformed |-> inferred.malformed + referred.malformed + labelled.malformed
                                + Cardinality(DOMAIN labelled.steps \ all) + Cardinality((1..d) \ all)]
    BY Zenon DEF settle_steps
  <2>2. in_order(kept, LAMBDA i : labelled.steps[i])
          = [k \in 1..Cardinality(kept) |-> labelled.steps[nth(kept, k)]]
    BY Zenon DEF in_order
  <2>3. all = kept
    BY <1>1
  <2> HIDE DEF all, kept, labelled, referred, result
  <2> QED
    BY <2>1, <2>2, <2>3
<1> HIDE DEF referred, labelled, labels, d, result
<1>6. IsFiniteSet(DOMAIN labelled.steps) /\ DOMAIN labelled.steps \subseteq Nat \ {0}
  BY <1>4 DEF IsMarked
<1>7. IsFiniteSet((1..d) \ kept) /\ Cardinality((1..d) \ kept) \in Nat
  <2>1. IsFiniteSet(1..d)
    BY <1>1, FS_Interval
  <2> QED
    BY <2>1, CountIsNat
<1>8. Cardinality(DOMAIN labelled.steps \ kept) \in Nat
  BY <1>6, CountIsNat
<1>9. Cardinality((1..d) \ kept) = 0
  <2>1. result.malformed = 0
    BY DEF result
  <2> HIDE DEF kept
  <2> QED
    BY <1>2, <1>3, <1>4, <1>5, <1>7, <1>8, <2>1
<1>10. (1..d) \ kept = {}
  BY <1>7, <1>9, FS_EmptySet
<1>11. kept = 1..d
  BY <1>1, <1>6, <1>10
<1>12. Cardinality(1..d) = d
  BY <1>1, FS_Interval
<1>13. result.steps = [k \in 1..d |-> labelled.steps[k]]
  <2>2. \A k \in 1..d : nth(1..d, k) = k
    BY <1>1, NthOfRun
  <2> HIDE DEF kept
  <2> QED
    BY <1>5, <1>11, <1>12, <2>2
<1>14. ASSUME NEW k \in 1..d
       PROVE  /\ labelled.steps[k].step_index = k
              /\ IsBad(labelled.steps[k]) <=> k \in DOMAIN labels
  <2>1. PICK i, u \in BOOLEAN :
          IsStep(labelled.steps[k], k, i, u) /\ (i \/ u <=> k \in DOMAIN labels)
    BY <1>4, <1>11 DEF IsMarked
  <2> QED
    BY <2>1, StepFields
<1>15. Numbered(result.steps)
  BY <1>1, <1>13 DEF Numbered
<1>16. IsAligned(result.steps, labels)
  BY <1>13, <1>14, <1>15 DEF IsAligned
<1> QED
  BY <1>16 DEF result, labels

(* So it is of every archive, whatever its layout. *)
LEMMA CleanIsAligned ==
  ASSUME NEW sample, IsSample(sample), sample.step_count > 0,
         NEW members, IsArchive(members),
         recover_steps(sample, members).malformed = 0
  PROVE  IsAligned(recover_steps(sample, members).steps, labels_by_step(sample))
<1>1. detect_layout_family(members) # "unsupported_layout"
  BY DEF recover_steps, IsSample
<1>2. recover_steps(sample, members) = settle_steps(sample, members, inferred_steps(sample, members))
  BY <1>1 DEF recover_steps
<1> QED
  BY <1>2, InferredAreSteps, SettledIsAligned

LEMMA AlignedTargets ==
  ASSUME NEW sample, NEW steps, NEW labels, IsAligned(steps, labels),
         NEW e \in Range(build_prefix_examples(sample, steps))
  PROVE  /\ e.next_step_index = e.step_index + 1
         /\ e.next_step_bad <=> e.next_step_index \in DOMAIN labels
<1>1. PICK n \in Nat : DOMAIN steps = 1..n
  BY DEF IsAligned, Numbered
<1>2. Len(steps) = n
  BY <1>1
<1>3. PICK k \in 1..(n - 1) : e = example_for_step(sample, steps, k)
  BY <1>2 DEF Range, build_prefix_examples
<1>4. /\ e.step_index = steps[k].step_index
      /\ e.next_step_index = steps[k + 1].step_index
      /\ e.next_step_bad = IsBad(steps[k + 1])
  BY <1>3, Zenon DEF example_for_step
<1>5. k \in DOMAIN steps /\ k + 1 \in DOMAIN steps
  BY <1>1
<1> QED
  BY <1>4, <1>5 DEF IsAligned

(* A sequence, of whatever is in it. *)
IsSequence(s) == s \in Seq(ToSet(s))

LEMMA SequenceIsNumbered ==
  ASSUME NEW s, IsSequence(s)
  PROVE  /\ Numbered(s) /\ Len(s) \in Nat /\ DOMAIN s = 1..Len(s)
         /\ \A k \in DOMAIN s : s[k] \in ToSet(s)
         /\ \A x \in ToSet(s) : \E k \in DOMAIN s : x = s[k]
  BY DEF IsSequence, Numbered, ToSet

LEMMA ShortSequences ==
  /\ IsSequence(<< >>) /\ ToSet(<< >>) = {}
  /\ \A x : IsSequence(<<x>>) /\ ToSet(<<x>>) = {x}
  /\ \A x, y : IsSequence(<<x, y>>) /\ ToSet(<<x, y>>) = {x, y}
<1>1. IsSequence(<< >>) /\ ToSet(<< >>) = {}
  BY DEF IsSequence, ToSet
<1>2. ASSUME NEW x PROVE IsSequence(<<x>>) /\ ToSet(<<x>>) = {x}
  <2>1. DOMAIN <<x>> = {1} /\ <<x>>[1] = x
    OBVIOUS
  <2>2. ToSet(<<x>>) = {x}
    BY <2>1 DEF ToSet
  <2> QED
    BY <2>2 DEF IsSequence
<1>3. ASSUME NEW x, NEW y PROVE IsSequence(<<x, y>>) /\ ToSet(<<x, y>>) = {x, y}
  <2>1. DOMAIN <<x, y>> = {1, 2} /\ <<x, y>>[1] = x /\ <<x, y>>[2] = y
    OBVIOUS
  <2>2. ToSet(<<x, y>>) = {x, y}
    BY <2>1 DEF ToSet
  <2> QED
    BY <2>2 DEF IsSequence
<1> QED
  BY <1>1, <1>2, <1>3

LEMMA Joined ==
  ASSUME NEW s, NEW t, IsSequence(s), IsSequence(t)
  PROVE  IsSequence(s \o t) /\ ToSet(s \o t) = ToSet(s) \cup ToSet(t)
<1> DEFINE S == ToSet(s) \cup ToSet(t)
<1>1. s \in Seq(S) /\ t \in Seq(S)
  BY DEF IsSequence
<1>2. /\ s \o t \in Seq(S)
      /\ Len(s \o t) = Len(s) + Len(t)
      /\ \A i \in 1..(Len(s) + Len(t)) : (s \o t)[i] = IF i <= Len(s) THEN s[i] ELSE t[i - Len(s)]
  BY <1>1, ConcatProperties
<1>3. /\ Len(s) \in Nat /\ DOMAIN s = 1..Len(s) /\ Len(t) \in Nat /\ DOMAIN t = 1..Len(t)
      /\ DOMAIN (s \o t) = 1..(Len(s) + Len(t))
  BY <1>1, <1>2
<1>4. ToSet(s \o t) \subseteq S
  BY <1>2, <1>3 DEF ToSet
<1>5. ToSet(s) \subseteq ToSet(s \o t)
  <2> SUFFICES ASSUME NEW i \in DOMAIN s PROVE s[i] \in ToSet(s \o t)
    BY DEF ToSet
  <2>1. i \in DOMAIN (s \o t) /\ (s \o t)[i] = s[i]
    BY <1>2, <1>3
  <2> QED
    BY <2>1 DEF ToSet
<1>6. ToSet(t) \subseteq ToSet(s \o t)
  <2> SUFFICES ASSUME NEW i \in DOMAIN t PROVE t[i] \in ToSet(s \o t)
    BY DEF ToSet
  <2>1. Len(s) + i \in DOMAIN (s \o t) /\ (s \o t)[Len(s) + i] = t[i]
    BY <1>2, <1>3
  <2> QED
    BY <2>1 DEF ToSet
<1>7. ToSet(s \o t) = S
  BY <1>4, <1>5, <1>6
<1> QED
  BY <1>2, <1>7 DEF IsSequence

LEMMA Prolonged ==
  ASSUME NEW s, NEW x, IsSequence(s)
  PROVE  IsSequence(Append(s, x)) /\ ToSet(Append(s, x)) = ToSet(s) \cup {x}
<1>1. s \in Seq(ToSet(s) \cup {x}) /\ x \in ToSet(s) \cup {x}
  BY DEF IsSequence
<1>2. Append(s, x) = s \o <<x>>
  BY <1>1
<1> QED
  BY <1>2, Joined, ShortSequences

(* The archive of a run: the members its layout has, conversations in sequence. *)
IsMember(m, layout) ==
  /\ m.number \in Nat
  /\ layout \in Conversations => m.kind = layout
  /\ m.kind \in Conversations => IsSequence(m.body)

RunTyped ==
  part = "prefix" =>
    /\ {"turns", "members", "sample", "layout"} \subseteq DOMAIN run
    /\ run.turns \in Nat /\ run.layout \in Layouts
    /\ IsSequence(run.members) /\ \A m \in ToSet(run.members) : IsMember(m, run.layout)
    /\ {"step_count", "incorrect_stages"} \subseteq DOMAIN run.sample
    /\ run.sample.step_count \in Nat
    /\ IsSequence(run.sample.incorrect_stages)
    /\ \A stage \in ToSet(run.sample.incorrect_stages) : IsStage(stage)

LEMMA RunIsTyped ==
  ASSUME RunTyped, part = "prefix"
  PROVE  IsSample(run.sample) /\ IsArchive(run.members)
<1>1. IsSample(run.sample)
  BY SequenceIsNumbered DEF RunTyped, IsSample
<1>2. IsArchive(run.members)
  BY SequenceIsNumbered DEF RunTyped, IsArchive, IsMember
<1> QED
  BY <1>1, <1>2

LEMMA StageIsTyped ==
  ASSUME NEW step \in Nat \ {0}, NEW kind \in {"incorrect", "unuseful", "dangling"}
  PROVE  IsStage(LabelledStage(step, kind))
<1> DEFINE stage == LabelledStage(step, kind)
           Entry(ref) == [step_id |-> step, labels |-> {"unuseful"}, action_ref |-> ref, observation_ref |-> << >>]
<1>1. /\ stage.incorrect_step_ids \in {{}, {step}} /\ stage.unuseful_step_ids = {}
      /\ stage.steps = << >> \/ \E ref : stage.steps = <<Entry(ref)>>
  BY DEF LabelledStage
<1>2. IsFiniteSet({}) /\ IsFiniteSet({step})
  BY FS_EmptySet, FS_Singleton
<1>3. Numbered(stage.steps)
  <2> HIDE DEF stage, Entry
  <2> QED
    BY <1>1, ShortSequences, SequenceIsNumbered
<1>4. ASSUME NEW k \in DOMAIN stage.steps
      PROVE  stage.steps[k].step_id \in Nat \ {0} /\ stage.steps[k].labels \subseteq {"incorrect", "unuseful"}
  <2>1. PICK ref : stage.steps = <<Entry(ref)>>
    <3> HIDE DEF stage, Entry
    <3> QED
      BY <1>1, <1>4
  <2>2. stage.steps[k] = Entry(ref)
    <3> HIDE DEF stage, Entry
    <3> QED
      BY <1>4, <2>1
  <2> QED
    BY <2>2
<1> HIDE DEF stage
<1> QED
  BY <1>1, <1>2, <1>3, <1>4 DEF IsStage, stage

LEMMA TurnIsTyped ==
  ASSUME RunTyped, part = "prefix", NEW text, NEW torn \in BOOLEAN
  PROVE  /\ IsSequence(TurnOf(run, text, torn))
         /\ \A m \in ToSet(TurnOf(run, text, torn)) : IsMember(m, run.layout)
<1> DEFINE n == run.turns + 1
           members == run.members
           layout == run.layout
           result == TurnOf(run, text, torn)
           body == IF members = << >> THEN << >> ELSE members[1].body
           Conversation(pairs) == <<Member(layout, 0, NoText, body \o pairs)>>
           Good(ms) == IsSequence(ms) /\ \A m \in ToSet(ms) : IsMember(m, layout)
<1>1. n \in Nat \ {0} /\ layout \in Layouts /\ Good(members)
  BY DEF RunTyped
<1>2. /\ Good(<< >>)
      /\ \A m : IsMember(m, layout) => Good(<<m>>)
      /\ \A m, l : IsMember(m, layout) /\ IsMember(l, layout) => Good(<<m, l>>)
  BY ShortSequences
<1>3. ASSUME NEW s, NEW t, Good(s), Good(t) PROVE Good(s \o t)
  BY <1>3, Joined
<1>4. ASSUME NEW kind, NEW number \in Nat, NEW words, NEW content, kind \notin Conversations,
             layout \notin Conversations
      PROVE  IsMember(Member(kind, number, words, content), layout)
  BY <1>4 DEF IsMember, Member
<1>5. ASSUME NEW pairs, IsSequence(pairs), layout \in Conversations
      PROVE  Good(Conversation(pairs))
  <2>1. IsSequence(body)
    <3>1. CASE members = << >>
      BY <3>1, ShortSequences
    <3>2. CASE members # << >>
      <4>1. 1 \in DOMAIN members
        BY <1>1, <3>2, SequenceIsNumbered, EmptySeq DEF IsSequence
      <4>2. IsMember(members[1], layout)
        BY <1>1, <4>1, SequenceIsNumbered
      <4> QED
        BY <1>5, <3>2, <4>2 DEF IsMember
    <3> QED
      BY <3>1, <3>2
  <2>2. IsSequence(body \o pairs)
    BY <1>5, <2>1, Joined
  <2>3. IsMember(Member(layout, 0, NoText, body \o pairs), layout)
    <3> HIDE DEF body, layout
    <3> QED
      BY <2>2 DEF IsMember, Member
  <2> QED
    BY <1>2, <2>3
<1>6. CASE layout = "terminus_episode"
  <2> DEFINE prompt == Member("prompt", n - 1, Text("prompt"), NoBody)
             response == Member("response", n - 1, text, NoBody)
             last == IF torn THEN << >> ELSE <<response>>
  <2>1. result = members \o <<prompt>> \o last
    BY <1>6 DEF TurnOf
  <2>2. IsMember(prompt, layout) /\ IsMember(response, layout)
    BY <1>1, <1>4, <1>6 DEF Conversations
  <2>3. Good(<<prompt>>) /\ Good(last)
    BY <1>2, <2>2
  <2> HIDE DEF result, prompt, last, members, Good
  <2>4. Good(members \o <<prompt>>)
    BY <1>1, <1>3, <2>3
  <2>5. Good(result)
    BY <1>3, <2>1, <2>3, <2>4
  <2> QED
    BY <2>5 DEF Good, result
<1>7. CASE layout = "mini_swe_mini_traj"
  <2> DEFINE message == [role |-> "assistant", text |-> text]
             answer == [role |-> "user", text |-> Text("answer")]
             first == IF torn THEN << >> ELSE <<message>>
  <2>1. result = Conversation(first \o <<answer>>)
    BY <1>7 DEF TurnOf
  <2>2. IsSequence(first) /\ IsSequence(<<answer>>)
    BY ShortSequences
  <2>3. IsSequence(first \o <<answer>>)
    BY <2>2, Joined
  <2> HIDE DEF result, Good, Conversation, first
  <2>4. Good(result)
    BY <1>5, <1>7, <2>1, <2>3 DEF Conversations
  <2> QED
    BY <2>4 DEF Good, result
<1>8. CASE layout = "swe_agent_traj"
  <2> DEFINE row == <<text, IF torn THEN NoText ELSE Text("answer")>>
  <2>1. result = Conversation(<<row>>)
    BY <1>8 DEF TurnOf
  <2>2. IsSequence(<<row>>)
    BY ShortSequences
  <2> HIDE DEF result, Good, Conversation, row
  <2>3. Good(result)
    BY <1>5, <1>8, <2>1, <2>2 DEF Conversations
  <2> QED
    BY <2>3 DEF Good, result
<1>9. CASE layout = "openhands_events"
  <2> DEFINE action == Member(layout, 2 * n - 1, text, [ok |-> ~torn, agent_action |-> TRUE, observes |-> -1])
             answer == Member(layout, 2 * n, Text("answer"),
                              [ok |-> TRUE, agent_action |-> FALSE, observes |-> 2 * n - 1])
  <2>1. result = members \o <<action, answer>>
    BY <1>9 DEF TurnOf
  <2>2. IsMember(action, layout) /\ IsMember(answer, layout)
    <3>1. 2 * n - 1 \in Nat /\ 2 * n \in Nat /\ layout \notin Conversations
      BY <1>1, <1>9 DEF Conversations
    <3> HIDE DEF layout, n
    <3> QED
      BY <1>4, <3>1
  <2> HIDE DEF result, action, answer, members, Good
  <2>3. Good(<<action, answer>>)
    BY <1>2, <2>2
  <2>4. Good(result)
    BY <1>1, <1>3, <2>1, <2>3
  <2> QED
    BY <2>4 DEF Good, result
<1>10. CASE layout = "openhands_tensorblock"
  <2> DEFINE history == [k \in 1..(2 * n - 1) |->
                           [role |-> IF k % 2 = 1 THEN "user" ELSE "assistant", text |-> Text("x")]]
             block == Member(layout, n, text, [ok |-> ~torn, messages |-> history])
  <2>1. result = Append(members, block)
    BY <1>10 DEF TurnOf
  <2>2. IsMember(block, layout)
    <3>1. n \in Nat /\ layout \notin Conversations
      BY <1>1, <1>10 DEF Conversations
    <3> HIDE DEF layout, n, history
    <3> QED
      BY <1>4, <3>1
  <2> HIDE DEF result, block, members
  <2>3. Good(result)
    BY <1>1, <2>1, <2>2, Prolonged
  <2> QED
    BY <2>3 DEF result
<1> QED
  BY <1>1, <1>6, <1>7, <1>8, <1>9, <1>10, WorldsAssumption

\* In every world, the run has a manifest and an archive an adapter could meet.
THEOREM RunWorlds == Spec => []RunTyped
<1>1. Init => RunTyped
  <2> SUFFICES ASSUME Init, part = "prefix" PROVE RunTyped
    BY DEF RunTyped
  <2>1. PICK layout \in Layouts, declared \in {0, MaxTurns} : run = EmptyRun(layout, declared)
    BY DEF Init
  <2>2. MaxTurns \in Nat
    BY WorldsAssumption
  <2>3. /\ run.layout = layout /\ run.turns = 0 /\ run.members = << >>
        /\ run.sample.step_count = declared /\ run.sample.incorrect_stages = << >>
        /\ {"turns", "members", "sample", "layout"} \subseteq DOMAIN run
        /\ {"step_count", "incorrect_stages"} \subseteq DOMAIN run.sample
    BY <2>1 DEF EmptyRun
  <2> QED
    BY <2>2, <2>3, ShortSequences DEF RunTyped
<1>2. RunTyped /\ [Next]_vars => RunTyped'
  <2> SUFFICES ASSUME RunTyped, [Next]_vars PROVE RunTyped'
    OBVIOUS
  <2>1. CASE Turn
    <3>1. PICK name \in {"x", "y"}, torn \in BOOLEAN :
            run' = [run EXCEPT !.turns = @ + 1, !.members = TurnOf(run, Text(name), torn)]
      BY <2>1 DEF Turn
    <3>2. part = "prefix" /\ part' = part
      BY <2>1 DEF Turn
    <3> DEFINE members == TurnOf(run, Text(name), torn)
    <3>3. IsSequence(members) /\ \A m \in ToSet(members) : IsMember(m, run.layout)
      BY <3>2, TurnIsTyped
    <3> HIDE DEF members
    <3>4. /\ run'.turns = run.turns + 1 /\ run'.members = members
          /\ run'.layout = run.layout /\ run'.sample = run.sample /\ DOMAIN run' = DOMAIN run
      BY <3>1, <3>2 DEF RunTyped, members
    <3> QED
      BY <3>2, <3>3, <3>4 DEF RunTyped
  <2>2. CASE Label
    <3>1. PICK step \in 1..MaxTurns, kind \in {"incorrect", "unuseful", "dangling"} :
            run' = [run EXCEPT !.sample.incorrect_stages = Append(@, LabelledStage(step, kind))]
      BY <2>2 DEF Label
    <3>2. part = "prefix" /\ part' = part
      BY <2>2 DEF Label
    <3> DEFINE stage == LabelledStage(step, kind)
               stages == Append(run.sample.incorrect_stages, stage)
    <3>3. IsStage(stage)
      BY WorldsAssumption, StageIsTyped
    <3> HIDE DEF stage
    <3>4. IsSequence(stages) /\ \A s \in ToSet(stages) : IsStage(s)
      BY <3>2, <3>3, Prolonged DEF RunTyped
    <3>5. /\ run'.turns = run.turns /\ run'.members = run.members /\ run'.layout = run.layout
          /\ DOMAIN run' = DOMAIN run /\ DOMAIN run'.sample = DOMAIN run.sample
          /\ run'.sample.step_count = run.sample.step_count /\ run'.sample.incorrect_stages = stages
      BY <3>1, <3>2 DEF RunTyped, stage
    <3> HIDE DEF stages
    <3> QED
      BY <3>2, <3>4, <3>5 DEF RunTyped
  <2>3. CASE AddRow \/ AddTimedRow \/ AddLine \/ UNCHANGED vars
    BY <2>3 DEF AddRow, AddTimedRow, AddLine, vars, RunTyped
  <2> QED
    BY <2>1, <2>2, <2>3 DEF Next
<1> QED
  BY <1>1, <1>2, PTL DEF Spec

\* A run that is declared and clean is aligned: its prefixes' targets are the labels of
\* the very next steps, whatever the archive's layout, its length and the labels.
THEOREM TargetsAreNextSteps == Spec => []CleanTargetsAreNextSteps
<1>1. RunTyped => CleanTargetsAreNextSteps
  <2> SUFFICES ASSUME RunTyped, part = "prefix", run.sample.step_count > 0, Clean(run)
               PROVE  CleanTargetsAreNextSteps
    BY DEF CleanTargetsAreNextSteps
  <2> DEFINE labels == labels_by_step(run.sample)
             steps == recover_steps(run.sample, run.members).steps
  <2>1. IsAligned(steps, labels)
    BY RunIsTyped, CleanIsAligned DEF Clean, Recovery
  <2>2. ASSUME NEW e \in Range(Examples(run))
        PROVE  /\ e.next_step_index = e.step_index + 1
               /\ e.next_step_bad <=> e.next_step_index \in DOMAIN labels
    <3>1. e \in Range(build_prefix_examples(run.sample, steps))
      BY DEF Examples, Recovery
    <3> HIDE DEF steps, labels
    <3> QED
      BY <2>1, <3>1, AlignedTargets
  <2> QED
    BY <2>2 DEF CleanTargetsAreNextSteps
<1> QED
  BY <1>1, RunWorlds, PTL

(***********************************************************************************)
(* Numbers in lowest terms, and in order                                            *)
(***********************************************************************************)

LEMMA Order ==
  ASSUME NEW a, IsNumber(a), NEW b, IsNumber(b)
  PROVE  /\ Leq(a, a) /\ (Leq(a, b) \/ Leq(b, a))
         /\ Less(a, b) <=> ~Leq(b, a)
         /\ Same(a, b) <=> Leq(a, b) /\ Leq(b, a)
<1>1. a[1] * b[2] \in Int /\ b[1] * a[2] \in Int /\ a[1] * a[2] \in Int
  BY DEF IsNumber
<1> QED
  BY <1>1 DEF Leq, Less, Same

---------------------------------------------------------------------------------
(* Lowest terms *)

LEMMA CommonFactor ==
  ASSUME NEW a \in Nat, NEW b \in Nat \ {0},
         NEW Common, Common = {d \in 1..b : a % d = 0 /\ b % d = 0}
  PROVE  LET g == CHOOSE d \in Common : \A e \in Common : e <= d
         IN g \in Common /\ \A e \in Common : e <= g
<1> DEFINE g == CHOOSE d \in Common : \A e \in Common : e <= d
           Rest == {b - d : d \in Common}
<1>1. 1 \in Common
  OBVIOUS
<1>2. Rest \in SUBSET Nat /\ Rest # {}
  BY <1>1
<1>3. PICK r \in Rest : \A s \in Rest : r <= s
  BY <1>2, LeastExists
<1>4. PICK d \in Common : r = b - d
  OBVIOUS
<1>5. \A e \in Common : e <= d
  <2> SUFFICES ASSUME NEW e \in Common PROVE e <= d
    OBVIOUS
  <2>1. b - d <= b - e
    BY <1>3, <1>4
  <2>2. d \in Nat /\ e \in Nat
    OBVIOUS
  <2> QED
    BY <2>1, <2>2
<1> QED
  BY <1>4, <1>5

LEMMA Divided ==
  ASSUME NEW a \in Int, NEW d \in Nat \ {0}, (IF a < 0 THEN -a ELSE a) % d = 0
  PROVE  a \div d \in Int /\ (a \div d) * d = a
<1> DEFINE abs == IF a < 0 THEN -a ELSE a   q == abs \div d
<1>1. abs \in Nat /\ q \in Nat /\ abs = q * d
  OBVIOUS
<1>2. CASE a >= 0
  BY <1>1, <1>2
<1>3. CASE a < 0
  <2>1. a = (-q) * d
    BY <1>1, <1>3
  <2>2. (-q) \in Int
    BY <1>1
  <2> HIDE DEF q, abs
  <2>3. ((-q) * d) \div d = -q
    BY <1>1
  <2> QED
    BY <2>1, <2>2, <2>3
<1> QED
  BY <1>2, <1>3

LEMMA DividedNat ==
  ASSUME NEW n \in Nat, NEW d \in Nat \ {0}, n % d = 0
  PROVE  n \div d \in Int /\ (n \div d) * d = n
  OBVIOUS

LEMMA ReducedParts ==
  ASSUME NEW a, IsNumber(a)
  PROVE  \E g \in Nat \ {0} :
           /\ Reduced(a) = <<a[1] \div g, a[2] \div g>>
           /\ a[1] \div g \in Int /\ (a[1] \div g) * g = a[1]
           /\ a[2] \div g \in Nat \ {0} /\ (a[2] \div g) * g = a[2]
           /\ \A k \in Nat \ {0} : (\E x \in Int, y \in Nat : a[1] = x * k /\ a[2] = y * k) => k <= g
<1> DEFINE abs == IF a[1] < 0 THEN -a[1] ELSE a[1]
           Common == {d \in 1..a[2] : abs % d = 0 /\ a[2] % d = 0}
           g == CHOOSE d \in Common : \A e \in Common : e <= d
<1>1. a[1] \in Int /\ a[2] \in Nat \ {0} /\ abs \in Nat
  BY DEF IsNumber
<1>2. g \in Common /\ \A e \in Common : e <= g
  <2> DEFINE C == Common
  <2>1. C = {d \in 1..a[2] : abs % d = 0 /\ a[2] % d = 0}
    OBVIOUS
  <2> HIDE DEF abs, C
  <2>2. LET h == CHOOSE d \in C : \A e \in C : e <= d
        IN h \in C /\ \A e \in C : e <= h
    BY ONLY <1>1, <2>1, CommonFactor
  <2> QED
    BY <2>2 DEF C
<1>3. Reduced(a) = <<a[1] \div g, a[2] \div g>>
  <2>1. a[2] # 0
    BY <1>1
  <2> QED
    BY <2>1, Zenon DEF Reduced
<1> HIDE DEF g
<1>4. g \in Nat \ {0} /\ abs % g = 0 /\ a[2] % g = 0
  BY <1>1, <1>2
<1>5. a[1] \div g \in Int /\ (a[1] \div g) * g = a[1]
  BY <1>1, <1>4, Divided
<1>6. a[2] \div g \in Int /\ (a[2] \div g) * g = a[2]
  BY <1>1, <1>4, DividedNat
<1>7. a[2] \div g \in Nat \ {0}
  <2> DEFINE r == a[2] \div g
  <2> HIDE DEF r
  <2>1. r \in Int /\ r * g = a[2] /\ a[2] > 0 /\ g > 0
    BY <1>1, <1>4, <1>6 DEF r
  <2>2. ~(r <= 0)
    <3> SUFFICES ASSUME r <= 0 PROVE FALSE
      OBVIOUS
    <3>1. r * g <= 0 * g
      BY <1>4, <2>1, TimesMonotone
    <3> QED
      BY <1>4, <2>1, <3>1
  <2> QED
    BY <2>1, <2>2 DEF r
<1>8. ASSUME NEW k \in Nat \ {0}, NEW x \in Int, NEW y \in Nat, a[1] = x * k, a[2] = y * k
      PROVE  k <= g
  <2>1. \E z \in Nat : abs = z * k
    <3>1. CASE a[1] < 0
      <4>1. abs = (-x) * k
        BY <1>1, <1>8, <3>1
      <4>2. ~(x >= 0)
        <5> SUFFICES ASSUME x >= 0 PROVE FALSE
          OBVIOUS
        <5>1. 0 * k <= x * k
          BY TimesMonotone
        <5> QED
          BY <1>8, <3>1, <5>1
      <4>3. -x \in Nat
        BY <4>2
      <4> QED
        BY <4>1, <4>3
    <3>2. CASE ~(a[1] < 0)
      <4>1. ~(x < 0)
        <5> SUFFICES ASSUME x < 0 PROVE FALSE
          OBVIOUS
        <5>1. x * k < 0 * k
          BY TimesStrict
        <5> QED
          BY <1>1, <1>8, <3>2, <5>1
      <4> QED
        BY <1>8, <3>2, <4>1
    <3> QED
      BY <3>1, <3>2
  <2>2. PICK z \in Nat : abs = z * k
    BY <2>1
  <2> HIDE DEF abs
  <2>3. abs % k = 0 /\ a[2] % k = 0
    BY <1>8, <2>2, DivisionExact
  <2>4. k <= a[2]
    <3>1. y >= 1
      BY <1>1, <1>8
    <3>2. 1 * k <= y * k
      BY <3>1, TimesMonotone
    <3> QED
      BY <1>8, <3>2
  <2>5. k \in Common
    BY <1>1, <2>3, <2>4
  <2> QED
    BY <1>2, <2>5
<1> QED
  BY <1>3, <1>4, <1>5, <1>6, <1>7, <1>8

\* Equal rates are one element of a set once they are in lowest terms.  Of the rates equal
\* to a, one has the least denominator; the others are multiples of it.
Divides(p, q, a) ==
  \A c : IsNumber(c) /\ Same(a, c) => \E k \in Nat \ {0} : c[1] = p * k /\ c[2] = q * k

(* Every number is a multiple of one pair, its lowest terms. *)
LEMMA LowestTerms ==
  ASSUME NEW a, IsNumber(a)
  PROVE  \E p \in Int, q \in Nat \ {0} : Divides(p, q, a)
<1> DEFINE a1 == a[1]  a2 == a[2]
           Alike(x, y) == x * a2 = a1 * y
           D == {y \in Nat \ {0} : \E x \in Int : Alike(x, y)}
<1>1. a1 \in Int /\ a2 \in Nat \ {0}
  BY DEF IsNumber
<1>2. \A b : IsNumber(b) /\ Same(a, b) => b[1] \in Int /\ b[2] \in Nat \ {0} /\ Alike(b[1], b[2])
  BY <1>1 DEF Same, IsNumber
<1> HIDE DEF a1, a2
<1>3. D \in SUBSET Nat /\ D # {}
  <2>1. a2 \in D
    BY <1>1
  <2> QED
    BY <2>1
<1>4. PICK q \in D : \A y \in D : q <= y
  <2> HIDE DEF D
  <2> QED
    BY <1>3, LeastExists
<1>5. PICK p \in Int : Alike(p, q)
  OBVIOUS
<1>6. ASSUME NEW x \in Int, NEW y \in Nat \ {0}, Alike(x, y)
      PROVE  \E k \in Nat \ {0} : x = p * k /\ y = q * k
  <2> DEFINE k == y \div q   r == y % q
  <2>1. k \in Nat /\ r \in 0..(q - 1) /\ y = q * k + r
    OBVIOUS
  <2> HIDE DEF k, r
  <2>2. (x - p * k) * a2 = a1 * r
    <3>1. (p * a2) * k = (a1 * q) * k
      BY <1>5
    <3>2. (x - p * k) * a2 = x * a2 - (p * a2) * k
      BY <1>1, <2>1
    <3>3. a1 * (q * k + r) = (a1 * q) * k + a1 * r
      BY <1>1, <2>1
    <3>4. x * a2 = a1 * (q * k + r)
      BY <1>6, <2>1
    <3> HIDE DEF D
    <3>5. /\ (p * a2) * k \in Int /\ (a1 * q) * k \in Int /\ a1 * r \in Int /\ x * a2 \in Int
      <4>1. q \in Int
        BY <1>3, <1>4
      <4> QED
        BY <1>1, <2>1, <4>1
    <3> QED
      BY <3>1, <3>2, <3>3, <3>4, <3>5
  <2>3. r = 0
    <3> SUFFICES ASSUME r # 0 PROVE FALSE
      OBVIOUS
    <3>1. r \in D
      <4>1. x - p * k \in Int
        BY <2>1
      <4> QED
        BY <2>1, <2>2, <4>1
    <3> QED
      BY <1>4, <2>1, <3>1
  <2>4. y = q * k /\ k # 0
    BY <2>1, <2>3
  <2>5. x = p * k
    <3>1. (x - p * k) * a2 = 0
      BY <1>1, <2>2, <2>3
    <3>2. x - p * k \in Int
      BY <2>1
    <3> DEFINE z == x - p * k
    <3> HIDE DEF z
    <3>3. z \in Int /\ z * a2 = 0
      BY <3>1, <3>2 DEF z
    <3>4. z = 0
      BY <1>1, <3>3
    <3> QED
      BY <2>1, <3>4 DEF z
  <2> QED
    BY <2>1, <2>4, <2>5
<1>7. \A b : IsNumber(b) /\ Same(a, b) => \E k \in Nat \ {0} : b[1] = p * k /\ b[2] = q * k
  <2> HIDE DEF Alike
  <2> QED
    BY <1>2, <1>6
<1> QED
  BY <1>7 DEF Divides

LEMMA ReducedIsSame ==
  ASSUME NEW a, IsNumber(a)
  PROVE  IsNumber(Reduced(a)) /\ Same(Reduced(a), a)
<1>1. PICK g \in Nat \ {0} :
        /\ Reduced(a) = <<a[1] \div g, a[2] \div g>>
        /\ a[1] \div g \in Int /\ (a[1] \div g) * g = a[1]
        /\ a[2] \div g \in Nat \ {0} /\ (a[2] \div g) * g = a[2]
  BY ReducedParts
<1> DEFINE p == a[1] \div g   q == a[2] \div g
<1>2. /\ p \in Int /\ q \in Nat \ {0} /\ Reduced(a) = <<p, q>>
      /\ a[1] = p * g /\ a[2] = q * g
  BY <1>1
<1> HIDE DEF p, q
<1>3. p * (q * g) = (p * g) * q
  BY <1>2
<1> QED
  BY <1>2, <1>3 DEF IsNumber, Same

(* Equal numbers are one in lowest terms. *)
LEMMA ReducedIsUnique ==
  ASSUME NEW a, IsNumber(a), NEW b, IsNumber(b), Same(a, b)
  PROVE  Reduced(a) = Reduced(b)
<1>1. PICK p \in Int, q \in Nat \ {0} : Divides(p, q, a)
  BY LowestTerms
<1>2. ASSUME NEW c, IsNumber(c), Same(a, c)
      PROVE  Reduced(c) = <<p, q>>
  <2>1. PICK k \in Nat \ {0} : c[1] = p * k /\ c[2] = q * k
    BY <1>1, <1>2 DEF Divides
  <2>2. PICK g \in Nat \ {0} :
          /\ Reduced(c) = <<c[1] \div g, c[2] \div g>>
          /\ c[1] \div g \in Int /\ (c[1] \div g) * g = c[1]
          /\ c[2] \div g \in Nat \ {0} /\ (c[2] \div g) * g = c[2]
          /\ \A j \in Nat \ {0} : (\E x \in Int, y \in Nat : c[1] = x * j /\ c[2] = y * j) => j <= g
    BY <1>2, ReducedParts
  <2>3. k <= g
    BY <2>1, <2>2
  <2> DEFINE x == c[1] \div g   y == c[2] \div g
  <2>4. /\ Reduced(c) = <<x, y>> /\ x \in Int /\ y \in Nat \ {0}
        /\ x * g = c[1] /\ y * g = c[2]
    BY <2>2
  <2> HIDE DEF x, y
  <2>5. IsNumber(<<x, y>>) /\ Same(a, <<x, y>>)
    <3>1. Same(<<x, y>>, c) /\ IsNumber(<<x, y>>)
      BY <1>2, <2>4, ReducedIsSame
    <3> QED
      BY <1>2, <3>1, Order, LeqChain
  <2>6. PICK j \in Nat \ {0} : x = p * j /\ y = q * j
    <3>1. \E j \in Nat \ {0} : <<x, y>>[1] = p * j /\ <<x, y>>[2] = q * j
      BY <1>1, <2>5 DEF Divides
    <3> QED
      BY <3>1
  <2>7. (q * j) * g = q * k
    BY <2>1, <2>4, <2>6
  <2>8. j * g = k
    <3>1. q * (j * g) = q * k
      BY <2>7
    <3>2. j * g \in Nat /\ k \in Nat
      OBVIOUS
    <3> DEFINE m == j * g
    <3> HIDE DEF m
    <3>3. q * m = q * k /\ m \in Nat
      BY <3>1, <3>2 DEF m
    <3>4. m * q = k * q
      BY <3>3
    <3>5. m = k
      BY <3>3, <3>4, TimesStrict
    <3> QED
      BY <3>5 DEF m
  <2>9. j = 1
    <3> SUFFICES ASSUME j # 1 PROVE FALSE
      OBVIOUS
    <3>1. 2 * g <= j * g
      BY TimesMonotone
    <3> QED
      BY <2>3, <2>8, <3>1
  <2> QED
    BY <2>4, <2>6, <2>9
<1>3. Same(a, a)
  BY Order
<1> QED
  BY <1>2, <1>3

---------------------------------------------------------------------------------
(* Scores in ascending order *)

LEMMA SmallerSet ==
  ASSUME NEW S, IsFiniteSet(S), NEW T, T \subseteq S, NEW x \in S \ T
  PROVE  Cardinality(T) < Cardinality(S)
<1>1. T \in SUBSET S /\ T # S
  OBVIOUS
<1>2. Cardinality(T) <= Cardinality(S) /\ Cardinality(T) # Cardinality(S)
  BY <1>1, FS_Subset
<1>3. Cardinality(T) \in Nat /\ Cardinality(S) \in Nat
  BY CountIsNat, FS_CardinalityType
<1> QED
  BY <1>2, <1>3

(* Of finitely many numbers one is least. *)
LEMMA LeastOf ==
  ASSUME NEW S, IsFiniteSet(S), S # {}, NEW f, \A x \in S : IsNumber(f[x])
  PROVE  \E x \in S : \A y \in S : Leq(f[x], f[y])
<1> DEFINE under(x) == {y \in S : Less(f[y], f[x])}
           ranks == {Cardinality(under(x)) : x \in S}
<1>1. \A x \in S : IsFiniteSet(under(x)) /\ Cardinality(under(x)) \in Nat
  <2> SUFFICES ASSUME NEW x \in S PROVE IsFiniteSet(under(x)) /\ Cardinality(under(x)) \in Nat
    OBVIOUS
  <2>1. under(x) \subseteq S
    OBVIOUS
  <2> HIDE DEF under
  <2> QED
    BY <2>1, CountIsNat
<1>2. PICK r \in ranks : \A q \in ranks : r <= q
  <2>1. ranks \in SUBSET Nat /\ ranks # {}
    <3> HIDE DEF under
    <3> QED
      BY <1>1
  <2> HIDE DEF ranks
  <2> QED
    BY <2>1, LeastExists
<1>3. PICK x \in S : r = Cardinality(under(x))
  OBVIOUS
<1>4. ASSUME NEW y \in S PROVE Leq(f[x], f[y])
  <2> SUFFICES ASSUME ~Leq(f[x], f[y]) PROVE FALSE
    OBVIOUS
  <2>1. Less(f[y], f[x]) /\ ~Less(f[y], f[y])
    BY Order
  <2>2. \A z \in S : Less(f[z], f[y]) => Less(f[z], f[x])
    <3> SUFFICES ASSUME NEW z \in S, Less(f[z], f[y]), Leq(f[x], f[z]) PROVE FALSE
      BY Order
    <3>1. Leq(f[z], f[y])
      BY Order
    <3>2. Leq(f[x], f[y])
      BY <3>1, LeqChain
    <3> QED
      BY <3>2
  <2>3. under(y) \subseteq under(x) /\ y \in under(x) \ under(y)
    BY <2>1, <2>2
  <2>4. Cardinality(under(y)) \in ranks
    OBVIOUS
  <2>5. /\ Cardinality(under(x)) \in Nat /\ Cardinality(under(y)) \in Nat
        /\ IsFiniteSet(under(x))
    BY <1>1
  <2>6. Cardinality(under(x)) <= Cardinality(under(y))
    BY <1>2, <1>3, <2>4
  <2> HIDE DEF under
  <2>7. Cardinality(under(y)) < Cardinality(under(x))
    BY <2>3, <2>5, SmallerSet
  <2> QED
    BY <2>5, <2>6, <2>7
<1> QED
  BY <1>4

LEMMA GreatestOf ==
  ASSUME NEW S, IsFiniteSet(S), S # {}, NEW f, \A x \in S : IsNumber(f[x])
  PROVE  \E x \in S : \A y \in S : Leq(f[y], f[x])
<1> DEFINE g == [x \in S |-> Negated(f[x])]
<1>1. ASSUME NEW x \in S
      PROVE  g[x] = <<-f[x][1], f[x][2]>> /\ IsNumber(g[x])
  BY DEF IsNumber, Negated
<1>2. PICK x \in S : \A y \in S : Leq(g[x], g[y])
  <2>1. \A x \in S : IsNumber(g[x])
    BY <1>1
  <2> HIDE DEF g
  <2> QED
    BY <2>1, LeastOf
<1>3. ASSUME NEW y \in S PROVE Leq(f[y], f[x])
  <2> HIDE DEF g
  <2>1. (-f[x][1]) * f[y][2] <= (-f[y][1]) * f[x][2]
    BY <1>1, <1>2 DEF Leq
  <2>2. /\ f[x][1] \in Int /\ f[y][1] \in Int /\ f[x][2] \in Int /\ f[y][2] \in Int
    BY DEF IsNumber
  <2>3. f[y][1] * f[x][2] <= f[x][1] * f[y][2]
    BY <2>1, <2>2
  <2> QED
    BY <2>3 DEF Leq
<1> QED
  BY <1>3

IsBag(bag) == IsFiniteSet(bag) /\ \A x \in bag : IsNumber(x[2])
Lower(bag, a)  == {y \in bag : Less(y[2], a)}
Within(bag, a) == {y \in bag : Leq(y[2], a)}

(* In a bag, some score has fewer than k below it and k at least no higher. *)
LEMMA RankExists ==
  ASSUME NEW bag, IsBag(bag), NEW k \in 1..Cardinality(bag)
  PROVE  \E x \in bag : Cardinality(Lower(bag, x[2])) < k /\ k <= Cardinality(Within(bag, x[2]))
<1> DEFINE n == Cardinality(bag)
           f == [x \in bag |-> x[2]]
           T == {x \in bag : k <= Cardinality(Within(bag, x[2]))}
<1>1. IsFiniteSet(bag) /\ n \in Nat /\ k \in Nat /\ 1 <= k /\ k <= n
  BY FS_CardinalityType DEF IsBag
<1>2. \A x \in bag : f[x] = x[2] /\ IsNumber(f[x]) /\ IsNumber(x[2])
  BY DEF IsBag
<1>3. bag # {}
  BY <1>1, FS_EmptySet
<1>4. \A a : /\ IsFiniteSet(Lower(bag, a)) /\ Cardinality(Lower(bag, a)) \in Nat
             /\ IsFiniteSet(Within(bag, a)) /\ Cardinality(Within(bag, a)) \in Nat
  <2>1. \A a : Lower(bag, a) \subseteq bag /\ Within(bag, a) \subseteq bag
    BY DEF Lower, Within
  <2> QED
    BY <1>1, <2>1, CountIsNat
<1> HIDE DEF f
<1>5. T # {}
  <2>1. PICK x \in bag : \A y \in bag : Leq(f[y], f[x])
    BY <1>1, <1>2, <1>3, GreatestOf
  <2>2. Within(bag, x[2]) = bag
    BY <1>2, <2>1 DEF Within
  <2> QED
    BY <1>1, <2>2
<1>6. PICK x \in T : \A y \in T : Leq(f[x], f[y])
  <2>1. T \subseteq bag /\ IsFiniteSet(T)
    <3>1. T \subseteq bag
      OBVIOUS
    <3> HIDE DEF T
    <3> QED
      BY <1>1, <3>1, CountIsNat
  <2> HIDE DEF T
  <2> QED
    BY <1>2, <1>5, <2>1, LeastOf
<1>7. Cardinality(Lower(bag, x[2])) < k
  <2> SUFFICES ASSUME k <= Cardinality(Lower(bag, x[2])) PROVE FALSE
    BY <1>1, <1>4
  <2> DEFINE L == Lower(bag, x[2])
  <2>1. L # {} /\ L \subseteq bag /\ IsFiniteSet(L)
    <3>1. L \subseteq bag
      BY DEF Lower
    <3>2. Cardinality(L) # 0
      BY <1>1, <1>4
    <3> QED
      BY <1>4, <3>1, <3>2, FS_EmptySet
  <2>2. PICK y \in L : \A z \in L : Leq(f[z], f[y])
    <3> HIDE DEF L
    <3> QED
      BY <1>2, <2>1, GreatestOf
  <2>3. y \in bag /\ Less(y[2], x[2])
    BY DEF Lower
  <2>4. L \subseteq Within(bag, y[2])
    <3> SUFFICES ASSUME NEW z \in L PROVE z \in Within(bag, y[2])
      OBVIOUS
    <3>1. z \in bag /\ Leq(z[2], y[2])
      BY <1>2, <2>1, <2>2, <2>3
    <3> QED
      BY <3>1 DEF Within
  <2>5. Cardinality(L) <= Cardinality(Within(bag, y[2]))
    BY <1>4, <2>4, FS_Subset
  <2>6. y \in T
    <3> HIDE DEF L
    <3>1. Cardinality(L) \in Nat /\ k <= Cardinality(L)
      BY <1>4 DEF L
    <3> QED
      BY <1>1, <1>4, <2>3, <2>5, <3>1
  <2>7. Leq(x[2], y[2])
    BY <1>2, <1>6, <2>3, <2>6
  <2> QED
    BY <1>2, <2>3, <2>7, Order
<1> QED
  BY <1>6, <1>7

(* So the k-th score of a bag is one of its scores, and has that rank. *)
LEMMA InAscendingOrder ==
  ASSUME NEW bag, IsBag(bag), NEW k \in 1..Cardinality(bag)
  PROVE  /\ \E x \in bag : Ascending(bag)[k] = x[2]
         /\ Cardinality(Lower(bag, Ascending(bag)[k])) < k
         /\ k <= Cardinality(Within(bag, Ascending(bag)[k]))
<1> DEFINE HasRank(x) == Cardinality(Lower(bag, x[2])) < k /\ k <= Cardinality(Within(bag, x[2]))
           x == CHOOSE y \in bag : HasRank(y)
<1>1. Ascending(bag)[k] = x[2]
  BY DEF Ascending, Lower, Within
<1>2. \E y \in bag : HasRank(y)
  BY RankExists
<1>3. x \in bag /\ HasRank(x)
  <2> HIDE DEF HasRank
  <2> QED
    BY <1>2
<1> QED
  BY <1>1, <1>3

LEMMA AscendingLength ==
  ASSUME NEW bag, IsBag(bag)
  PROVE  /\ Cardinality(bag) \in Nat
         /\ DOMAIN Ascending(bag) = 1..Cardinality(bag)
         /\ Len(Ascending(bag)) = Cardinality(bag)
<1>1. Cardinality(bag) \in Nat
  BY FS_CardinalityType DEF IsBag
<1>2. DOMAIN Ascending(bag) = 1..Cardinality(bag)
  BY DEF Ascending
<1> DEFINE s == Ascending(bag)  n == Cardinality(bag)
<1>3. s = [k \in 1..n |-> s[k]]
  BY DEF Ascending
<1> HIDE DEF s, n
<1>4. Len(s) = n
  <2> DEFINE S == {s[k] : k \in 1..n}
  <2>1. s \in [1..n -> S]
    BY <1>3
  <2>2. s \in Seq(S) /\ DOMAIN s = 1..n /\ n \in Nat
    BY <1>1, <2>1, SeqDef DEF n
  <2> HIDE DEF S
  <2> QED
    BY <2>2, LenProperties
<1> QED
  BY <1>1, <1>2, <1>4 DEF s, n

(***********************************************************************************)
(* Scored rows and their thresholds                                                 *)
(***********************************************************************************)

(* Rows with a score each. *)
IsScored(rs) ==
  /\ IsFiniteSet(DOMAIN rs) /\ DOMAIN rs # {}
  /\ \A i \in DOMAIN rs : IsNumber(rs[i].score)

\* Each of some rates once, from the lowest to the highest.
LEMMA SortedRates ==
  ASSUME NEW U, IsFiniteSet(U), \A a \in U : IsNumber(a),
         \A a, b \in U : Same(a, b) => a = b
  PROVE  /\ Len(Sorted(U)) \in Nat /\ DOMAIN Sorted(U) = 1..Len(Sorted(U))
         /\ \A k \in DOMAIN Sorted(U) : Sorted(U)[k] \in U
         /\ \A a \in U : \E k \in DOMAIN Sorted(U) : Sorted(U)[k] = a
         /\ \A j, k \in DOMAIN Sorted(U) : j < k => Less(Sorted(U)[j], Sorted(U)[k])
<1> DEFINE bag == {<<a, a>> : a \in U}
           s == Ascending(bag)   n == Cardinality(bag)
           rank(a) == Cardinality(Within(bag, a))
<1>1. IsBag(bag)
  <2> DEFINE f == [a \in U |-> <<a, a>>]
  <2>1. f \in Surjection(U, bag)
    BY DEF Surjection
  <2>2. IsFiniteSet(bag)
    BY <2>1, FS_Surjection
  <2> QED
    BY <2>2 DEF IsBag
<1>2. Sorted(U) = s /\ n \in Nat /\ DOMAIN s = 1..n /\ Len(s) = n
  <2>1. Sorted(U) = s
    BY DEF Sorted
  <2> HIDE DEF bag
  <2> QED
    BY <1>1, <2>1, AscendingLength
<1>3. \A a : IsFiniteSet(Within(bag, a)) /\ rank(a) \in Nat /\ IsFiniteSet(Lower(bag, a)) /\ Cardinality(Lower(bag, a)) \in Nat
  <2>1. \A a : Lower(bag, a) \subseteq bag /\ Within(bag, a) \subseteq bag
    BY DEF Lower, Within
  <2> QED
    BY <1>1, <2>1, CountIsNat DEF IsBag
<1>4. ASSUME NEW a \in U, NEW b \in U
      PROVE  /\ Less(a, b) => rank(a) < rank(b)
             /\ <<b, b>> \in Within(bag, b)
  <2>1. <<b, b>> \in Within(bag, b)
    BY Order DEF Within
  <2>2. ASSUME Less(a, b) PROVE rank(a) < rank(b)
    <3>1. <<b, b>> \notin Within(bag, a)
      BY <2>2, Order DEF Within
    <3>2. Within(bag, a) \subseteq Within(bag, b)
      <4> SUFFICES ASSUME NEW c \in U, Leq(c, a) PROVE Leq(c, b)
        BY DEF Within
      <4>1. Leq(a, b)
        BY <2>2, Order
      <4> QED
        BY <4>1, LeqChain
    <3> HIDE DEF bag
    <3> QED
      BY <1>3, <2>1, <3>1, <3>2, SmallerSet
  <2> QED
    BY <2>1, <2>2
<1>5. ASSUME NEW a \in U
      PROVE  rank(a) = Cardinality(Lower(bag, a)) + 1
  <2>1. Within(bag, a) \ {<<a, a>>} = Lower(bag, a)
    <3>1. ASSUME NEW b \in U, b # a
          PROVE  Leq(b, a) <=> Less(b, a)
      BY <3>1, Order
    <3>2. ~Less(a, a)
      BY Order
    <3> QED
      BY <3>1, <3>2 DEF Within, Lower
  <2>2. <<a, a>> \in Within(bag, a)
    BY <1>4
  <2> HIDE DEF bag
  <2> DEFINE W == Within(bag, a)  x == <<a, a>>
  <2>3. IsFiniteSet(W) /\ x \in W /\ rank(a) = Cardinality(W) /\ W \ {x} = Lower(bag, a)
    BY <1>3, <2>1, <2>2
  <2> HIDE DEF W, x
  <2>4. Cardinality(W \ {x}) = Cardinality(W) - 1
    BY <2>3, FS_RemoveElement
  <2> QED
    BY <1>3, <2>3, <2>4
<1>6. ASSUME NEW k \in 1..n
      PROVE  s[k] \in U /\ rank(s[k]) = k
  <2>1. /\ \E x \in bag : s[k] = x[2]
        /\ Cardinality(Lower(bag, s[k])) < k
        /\ k <= Cardinality(Within(bag, s[k]))
    <3> HIDE DEF bag
    <3> QED
      BY <1>1, InAscendingOrder
  <2>2. s[k] \in U
    BY <2>1
  <2>3. rank(s[k]) = Cardinality(Lower(bag, s[k])) + 1
    BY <1>5, <2>2
  <2> HIDE DEF bag
  <2> QED
    BY <1>2, <1>3, <2>1, <2>2, <2>3
<1>7. ASSUME NEW a \in U PROVE \E k \in 1..n : s[k] = a
  <2> DEFINE k == rank(a)
  <2>1. k \in 1..n
    <3>1. Within(bag, a) \in SUBSET bag
      BY DEF Within
    <3> HIDE DEF bag
    <3>2. k <= n
      BY <1>1, <3>1, FS_Subset DEF IsBag
    <3>3. 1 <= k
      BY <1>3, <1>5
    <3> QED
      BY <1>2, <1>3, <3>2, <3>3
  <2>2. s[k] \in U /\ rank(s[k]) = k
    BY <1>6, <2>1
  <2> HIDE DEF s, rank
  <2>3. ~Less(a, s[k]) /\ ~Less(s[k], a)
    <3>1. /\ Less(a, s[k]) => rank(a) < rank(s[k])
          /\ Less(s[k], a) => rank(s[k]) < rank(a)
      BY <1>4, <2>2
    <3> QED
      BY <1>2, <2>1, <2>2, <3>1
  <2>4. Same(a, s[k])
    BY <2>2, <2>3, Order
  <2> QED
    BY <2>1, <2>2, <2>4
<1>8. ASSUME NEW j \in 1..n, NEW k \in 1..n, j < k PROVE Less(s[j], s[k])
  <2>1. s[j] \in U /\ s[k] \in U /\ rank(s[j]) = j /\ rank(s[k]) = k
    BY <1>6
  <2> HIDE DEF s, rank
  <2>2. ~Less(s[k], s[j])
    <3>1. Less(s[k], s[j]) => rank(s[k]) < rank(s[j])
      BY <1>4, <2>1
    <3> QED
      BY <1>8, <2>1, <3>1
  <2>3. s[j] # s[k]
    BY <1>8, <2>1
  <2> QED
    BY <2>1, <2>2, <2>3, Order
<1> HIDE DEF s, n
<1> QED
  BY <1>2, <1>6, <1>7, <1>8

LEMMA RoundedInteger ==
  ASSUME NEW k \in Int
  PROVE  Rounded(<<k, 1>>) = k
  BY DEF Rounded

(* As many pairs of a row and its score as rows. *)
LEMMA PairsOfScores ==
  ASSUME NEW rs, IsScored(rs), NEW D \in SUBSET DOMAIN rs
  PROVE  LET P == {<<i, rs[i].score>> : i \in D}
         IN IsFiniteSet(P) /\ Cardinality(P) = Cardinality(D)
<1> DEFINE P == {<<i, rs[i].score>> : i \in D}
           f == [i \in D |-> <<i, rs[i].score>>]
           g == [x \in P |-> x[1]]
<1>1. f \in Surjection(D, P)
  BY DEF Surjection
<1>5. g \in Surjection(P, D)
  <2>1. g \in [P -> D]
    OBVIOUS
  <2>2. \A i \in D : <<i, rs[i].score>> \in P /\ g[<<i, rs[i].score>>] = i
    OBVIOUS
  <2> HIDE DEF g, P
  <2> QED
    BY <2>1, <2>2 DEF Surjection
<1>2. IsFiniteSet(D)
  BY FS_Subset DEF IsScored
<1> HIDE DEF P, f, g
<1>3. IsFiniteSet(P) /\ Cardinality(P) <= Cardinality(D) /\ Cardinality(D) <= Cardinality(P)
  BY <1>1, <1>2, <1>5, FS_Surjection
<1>4. Cardinality(P) \in Nat /\ Cardinality(D) \in Nat
  BY <1>2, <1>3, FS_CardinalityType
<1> QED
  BY <1>3, <1>4 DEF P

LEMMA ScoresAreABag ==
  ASSUME NEW rs, IsScored(rs)
  PROVE  /\ IsBag(ScoresOf(rs)) /\ ScoresOf(rs) # {}
         /\ Cardinality(ScoresOf(rs)) = Cardinality(DOMAIN rs)
         /\ Cardinality(DOMAIN rs) \in Nat \ {0}
<1>1. IsFiniteSet(ScoresOf(rs)) /\ Cardinality(ScoresOf(rs)) = Cardinality(DOMAIN rs)
  BY PairsOfScores DEF ScoresOf
<1>2. Cardinality(DOMAIN rs) \in Nat \ {0}
  BY FS_CardinalityType, FS_EmptySet DEF IsScored
<1>3. ScoresOf(rs) # {} /\ \A x \in ScoresOf(rs) : IsNumber(x[2])
  <2>1. PICK i \in DOMAIN rs : TRUE
    BY DEF IsScored
  <2>2. <<i, rs[i].score>> \in ScoresOf(rs)
    BY DEF ScoresOf
  <2>3. \A x \in ScoresOf(rs) : \E j \in DOMAIN rs : x = <<j, rs[j].score>>
    BY DEF ScoresOf
  <2>4. \A x \in ScoresOf(rs) : IsNumber(x[2])
    BY <2>3 DEF IsScored
  <2> QED
    BY <2>2, <2>4
<1> QED
  BY <1>1, <1>2, <1>3 DEF IsBag

(* The threshold below every score and the one above. *)
LEMMA EndsOf ==
  ASSUME NEW rs, IsScored(rs)
  PROVE  /\ IsNumber(Lowest(rs)) /\ \A i \in DOMAIN rs : Leq(Lowest(rs), rs[i].score)
         /\ IsNumber(Topmost(rs)) /\ \A i \in DOMAIN rs : Leq(rs[i].score, Topmost(rs))
<1> DEFINE bag == ScoresOf(rs)  s == Ascending(bag)  n == Cardinality(bag)
<1>1. IsBag(bag) /\ bag # {} /\ n \in Nat \ {0}
  BY ScoresAreABag
<1>2. Len(s) = n
  BY <1>1, AscendingLength
<1>3. \A i \in DOMAIN rs : <<i, rs[i].score>> \in bag
  BY DEF ScoresOf
<1>4. \A k \in 1..n : IsNumber(s[k])
  BY <1>1, InAscendingOrder DEF IsBag
<1>5. Lowest(rs) = s[1]
  <2>1. Times(Zero, <<n - 1, 1>>) = <<0, 1>>
    BY <1>1 DEF Times, Zero
  <2>2. Rounded(Times(Zero, <<n - 1, 1>>)) = 0
    BY <2>1, RoundedInteger
  <2> HIDE DEF bag, n
  <2>3. quantile(bag, Zero) = s[1 + Rounded(Times(Zero, <<n - 1, 1>>))]
    BY <1>1, <1>2 DEF quantile
  <2> QED
    BY <2>2, <2>3 DEF Lowest, bag
<1>6. Topmost(rs) = s[n]
  <2>1. Times(One, <<n - 1, 1>>) = <<n - 1, 1>>
    BY <1>1 DEF Times, One
  <2>2. Rounded(Times(One, <<n - 1, 1>>)) = n - 1
    BY <1>1, <2>1, RoundedInteger
  <2> HIDE DEF bag, n
  <2>3. quantile(bag, One) = s[1 + Rounded(Times(One, <<n - 1, 1>>))]
    BY <1>1, <1>2 DEF quantile
  <2>4. 1 + (n - 1) = n
    BY <1>1
  <2> QED
    BY <2>2, <2>3, <2>4 DEF Topmost, bag
<1> HIDE DEF bag
<1>7. Lower(bag, s[1]) = {}
  <2>1. 1 \in 1..n
    BY <1>1
  <2>2. Cardinality(Lower(bag, s[1])) < 1
    BY <1>1, <2>1, InAscendingOrder
  <2>3. Lower(bag, s[1]) \subseteq bag
    BY DEF Lower
  <2>4. IsFiniteSet(Lower(bag, s[1])) /\ Cardinality(Lower(bag, s[1])) \in Nat
    BY <1>1, <2>3, CountIsNat DEF IsBag
  <2>5. Cardinality(Lower(bag, s[1])) = 0
    BY <2>2, <2>4
  <2> QED
    BY <2>4, <2>5, FS_EmptySet
<1>8. Within(bag, s[n]) = bag
  <2>1. n \in 1..n
    BY <1>1
  <2>2. n <= Cardinality(Within(bag, s[n]))
    BY <1>1, <2>1, InAscendingOrder
  <2>3. Within(bag, s[n]) \in SUBSET bag
    BY DEF Within
  <2>4. Cardinality(Within(bag, s[n])) <= n /\ Cardinality(Within(bag, s[n])) \in Nat
    BY <1>1, <2>3, FS_Subset, FS_CardinalityType DEF IsBag
  <2>5. Cardinality(Within(bag, s[n])) = n
    BY <1>1, <2>2, <2>4
  <2> QED
    BY <1>1, <2>3, <2>5, FS_Subset DEF IsBag
<1>9. ASSUME NEW i \in DOMAIN rs
      PROVE  Leq(s[1], rs[i].score) /\ Leq(rs[i].score, s[n])
  <2> DEFINE x == <<i, rs[i].score>>
  <2>1. x \in bag /\ IsNumber(x[2]) /\ x[2] = rs[i].score /\ IsNumber(s[1])
    BY <1>1, <1>3, <1>4 DEF IsBag
  <2>2. ~Less(x[2], s[1])
    BY <1>7, <2>1 DEF Lower
  <2>3. Leq(x[2], s[n])
    BY <1>8, <2>1 DEF Within
  <2> QED
    BY <2>1, <2>2, <2>3, Order
<1> QED
  BY <1>1, <1>4, <1>5, <1>6, <1>9

LEMMA AllowedRows ==
  ASSUME NEW rs, IsScored(rs), NEW tau
  PROVE  /\ Allowed(rs, tau) \subseteq DOMAIN rs /\ IsFiniteSet(Allowed(rs, tau))
         /\ Cardinality(Allowed(rs, tau)) \in Nat
         /\ IsFiniteSet(BadAllowed(rs, tau)) /\ Cardinality(BadAllowed(rs, tau)) \in Nat
         /\ Cardinality(Deferred(rs, tau)) = Cardinality(DOMAIN rs) - Cardinality(Allowed(rs, tau))
<1>1. Allowed(rs, tau) \subseteq DOMAIN rs /\ BadAllowed(rs, tau) \subseteq DOMAIN rs
  BY DEF Allowed, BadAllowed
<1>2. Allowed(rs, tau) \cap DOMAIN rs = Allowed(rs, tau)
  BY <1>1
<1>3. Cardinality(Deferred(rs, tau)) = Cardinality(DOMAIN rs) - Cardinality(Allowed(rs, tau))
  <2>1. DOMAIN rs \cap Allowed(rs, tau) = Allowed(rs, tau)
    BY <1>1
  <2> QED
    BY <2>1, FS_Difference DEF Deferred, IsScored
<1> QED
  BY <1>1, <1>3, CountIsNat DEF IsScored

(* Thresholds allow more or fewer of the same rows. *)
LEMMA Nested ==
  ASSUME NEW rs, IsScored(rs), NEW a, IsNumber(a), NEW b, IsNumber(b)
  PROVE  /\ Leq(a, b) => Allowed(rs, a) \subseteq Allowed(rs, b)
         /\ Cardinality(Allowed(rs, a)) = Cardinality(Allowed(rs, b)) => Allowed(rs, a) = Allowed(rs, b)
<1>1. ASSUME NEW c, IsNumber(c), NEW d, IsNumber(d), Leq(c, d)
      PROVE  Allowed(rs, c) \subseteq Allowed(rs, d)
  <2> SUFFICES ASSUME NEW i \in DOMAIN rs, Leq(rs[i].score, c) PROVE Leq(rs[i].score, d)
    BY DEF Allowed
  <2> QED
    BY <1>1, LeqChain DEF IsScored
<1>2. Leq(a, b) \/ Leq(b, a)
  BY Order
<1>3. ASSUME Cardinality(Allowed(rs, a)) = Cardinality(Allowed(rs, b))
      PROVE  Allowed(rs, a) = Allowed(rs, b)
  <2>1. Allowed(rs, a) \in SUBSET Allowed(rs, b) \/ Allowed(rs, b) \in SUBSET Allowed(rs, a)
    BY <1>1, <1>2
  <2>2. IsFiniteSet(Allowed(rs, a)) /\ IsFiniteSet(Allowed(rs, b))
    BY AllowedRows
  <2> QED
    BY <1>3, <2>1, <2>2, FS_Subset
<1> QED
  BY <1>1, <1>3

(* The ends allow nothing and everything. *)
LEMMA BelowAndAbove ==
  ASSUME NEW rs, IsScored(rs)
  PROVE  /\ IsNumber(BelowAll(rs)) /\ Allowed(rs, BelowAll(rs)) = {}
         /\ IsNumber(AboveAll(rs)) /\ Allowed(rs, AboveAll(rs)) = DOMAIN rs
<1>1. ASSUME NEW a, IsNumber(a)
      PROVE  /\ IsNumber(Minus(a, Epsilon)) /\ Less(Minus(a, Epsilon), a)
             /\ IsNumber(Plus(a, Epsilon)) /\ Less(a, Plus(a, Epsilon))
  <2> DEFINE a1 == a[1]  a2 == a[2]  e1 == Epsilon[1]  e2 == Epsilon[2]
  <2>1. a1 \in Int /\ a2 \in Nat \ {0} /\ e1 \in Nat \ {0} /\ e2 \in Nat \ {0}
    BY <1>1, EpsilonAssumption DEF IsNumber
  <2>2. /\ Minus(a, Epsilon) = <<a1 * e2 - e1 * a2, a2 * e2>>
        /\ Plus(a, Epsilon) = <<a1 * e2 + e1 * a2, a2 * e2>>
    BY DEF Minus, Plus
  <2> HIDE DEF a1, a2, e1, e2
  <2>3. a2 * e2 \in Nat \ {0} /\ a1 * e2 \in Int /\ e1 * a2 \in Nat \ {0}
    <3>1. a2 * e2 \in Nat /\ a1 * e2 \in Int /\ e1 * a2 \in Nat
      BY <2>1
    <3>2. a2 * e2 # 0 /\ e1 * a2 # 0
      BY <2>1
    <3> QED
      BY <3>1, <3>2
  <2>4. (a1 * e2) * a2 = a1 * (a2 * e2)
    BY <2>1
  <2>5. /\ (a1 * e2 - e1 * a2) * a2 < (a1 * e2) * a2
        /\ (a1 * e2) * a2 < (a1 * e2 + e1 * a2) * a2
    <3> DEFINE x == a1 * e2  y == e1 * a2
    <3>1. x \in Int /\ x - y \in Int /\ x + y \in Int /\ x - y < x /\ x < x + y
      BY <2>3
    <3> HIDE DEF x, y
    <3>2. (x - y) * a2 < x * a2 /\ x * a2 < (x + y) * a2
      BY <2>1, <3>1, TimesStrict
    <3> QED
      BY <3>2 DEF x, y
  <2> QED
    BY <2>1, <2>2, <2>3, <2>4, <2>5 DEF IsNumber, Less, a1, a2
<1>2. /\ IsNumber(Lowest(rs)) /\ \A i \in DOMAIN rs : Leq(Lowest(rs), rs[i].score)
      /\ IsNumber(Topmost(rs)) /\ \A i \in DOMAIN rs : Leq(rs[i].score, Topmost(rs))
  BY EndsOf
<1>3. /\ IsNumber(BelowAll(rs)) /\ Less(BelowAll(rs), Lowest(rs))
  <2> DEFINE a == Minus(Lowest(rs), Epsilon)
  <2>1. IsNumber(a) /\ Less(a, Lowest(rs))
    BY <1>1, <1>2
  <2> HIDE DEF a
  <2>2. IsNumber(Reduced(a)) /\ Same(Reduced(a), a)
    BY <2>1, ReducedIsSame
  <2>3. ~Leq(Lowest(rs), Reduced(a))
    BY <1>2, <2>1, <2>2, Order, LeqChain
  <2>4. Less(Reduced(a), Lowest(rs))
    BY <1>2, <2>2, <2>3, Order
  <2> QED
    BY <2>2, <2>4 DEF a, BelowAll
<1>4. /\ IsNumber(AboveAll(rs)) /\ Less(Topmost(rs), AboveAll(rs))
  <2> DEFINE a == Plus(Topmost(rs), Epsilon)
  <2>1. IsNumber(a) /\ Less(Topmost(rs), a)
    BY <1>1, <1>2
  <2> HIDE DEF a
  <2>2. IsNumber(Reduced(a)) /\ Same(Reduced(a), a)
    BY <2>1, ReducedIsSame
  <2>3. ~Leq(Reduced(a), Topmost(rs))
    BY <1>2, <2>1, <2>2, Order, LeqChain
  <2>4. Less(Topmost(rs), Reduced(a))
    BY <1>2, <2>2, <2>3, Order
  <2> QED
    BY <2>2, <2>4 DEF a, AboveAll
<1>5. ASSUME NEW i \in DOMAIN rs
      PROVE  ~Leq(rs[i].score, BelowAll(rs)) /\ Leq(rs[i].score, AboveAll(rs))
  <2>1. IsNumber(rs[i].score) /\ Leq(Lowest(rs), rs[i].score) /\ Leq(rs[i].score, Topmost(rs))
    BY <1>2 DEF IsScored
  <2>2. ~Leq(rs[i].score, BelowAll(rs))
    <3> SUFFICES ASSUME Leq(rs[i].score, BelowAll(rs)) PROVE FALSE
      OBVIOUS
    <3>1. Leq(Lowest(rs), BelowAll(rs))
      BY <1>2, <1>3, <2>1, LeqChain
    <3> QED
      BY <1>2, <1>3, <3>1, Order
  <2>3. Leq(Topmost(rs), AboveAll(rs))
    BY <1>2, <1>4, Order
  <2> QED
    BY <1>2, <1>4, <2>1, <2>2, <2>3, LeqChain
<1> QED
  BY <1>3, <1>4, <1>5 DEF Allowed

(* The distinct scores, each once. *)
LEMMA ScoresOnce ==
  ASSUME NEW rs, IsScored(rs)
  PROVE  /\ IsFiniteSet(UniqueScores(rs)) /\ \A a \in UniqueScores(rs) : IsNumber(a)
         /\ \A a, b \in UniqueScores(rs) : Same(a, b) => a = b
         /\ \A i \in DOMAIN rs : Reduced(rs[i].score) \in UniqueScores(rs)
         /\ \A a \in UniqueScores(rs) : \E i \in DOMAIN rs : Same(rs[i].score, a)
<1> DEFINE U == UniqueScores(rs)
           f == [i \in DOMAIN rs |-> Reduced(rs[i].score)]
<1>1. f \in Surjection(DOMAIN rs, U)
  BY DEF Surjection, UniqueScores
<1>2. IsFiniteSet(U)
  BY <1>1, FS_Surjection DEF IsScored
<1>3. \A i \in DOMAIN rs : IsNumber(rs[i].score) /\ Reduced(rs[i].score) \in U
  BY DEF UniqueScores, IsScored
<1>4. \A a \in U : \E i \in DOMAIN rs : a = Reduced(rs[i].score)
  BY DEF UniqueScores
<1> HIDE DEF U
<1>5. ASSUME NEW a \in U
      PROVE  IsNumber(a) /\ \E i \in DOMAIN rs : Same(rs[i].score, a)
  <2>1. PICK i \in DOMAIN rs : a = Reduced(rs[i].score)
    BY <1>4
  <2>2. IsNumber(a) /\ Same(a, rs[i].score)
    BY <1>3, <2>1, ReducedIsSame
  <2>3. Same(rs[i].score, a)
    BY <1>3, <2>2, Order
  <2> QED
    BY <2>2, <2>3
<1>6. ASSUME NEW a \in U, NEW b \in U, Same(a, b) PROVE a = b
  <2>1. PICK i \in DOMAIN rs : a = Reduced(rs[i].score)
    BY <1>4
  <2>2. PICK j \in DOMAIN rs : b = Reduced(rs[j].score)
    BY <1>4
  <2> DEFINE x == rs[i].score  y == rs[j].score
  <2>3. IsNumber(x) /\ IsNumber(y) /\ a = Reduced(x) /\ b = Reduced(y)
    BY <1>3, <2>1, <2>2
  <2> HIDE DEF x, y
  <2>4. IsNumber(a) /\ IsNumber(b) /\ Same(a, x) /\ Same(b, y)
    BY <2>3, ReducedIsSame
  <2>5. Leq(x, a) /\ Leq(a, x) /\ Leq(a, b) /\ Leq(b, a) /\ Leq(b, y) /\ Leq(y, b)
    BY <1>6, <2>3, <2>4, Order
  <2>6. Leq(x, b) /\ Leq(b, x)
    BY <2>3, <2>4, <2>5, LeqChain
  <2>7. Leq(x, y) /\ Leq(y, x)
    BY <2>3, <2>4, <2>5, <2>6, LeqChain
  <2>8. Same(x, y)
    BY <2>3, <2>7, Order
  <2> QED
    BY <2>3, <2>8, ReducedIsUnique
<1> QED
  BY <1>2, <1>3, <1>5, <1>6 DEF U

(* Those of S that f is least of. *)
LeastIn(S, f) == {x \in S : \A y \in S : Leq(f[x], f[y])}

(* The least of S are alike, and below the rest. *)
LEMMA LeastIsBelow ==
  ASSUME NEW S, IsFiniteSet(S), S # {}, NEW f, \A x \in S : IsNumber(f[x])
  PROVE  /\ LeastIn(S, f) # {} /\ LeastIn(S, f) \subseteq S /\ IsFiniteSet(LeastIn(S, f))
         /\ \A x, y \in LeastIn(S, f) : Same(f[x], f[y])
         /\ \A x \in LeastIn(S, f), y \in S \ LeastIn(S, f) : Less(f[x], f[y])
<1>1. LeastIn(S, f) # {}
  BY LeastOf DEF LeastIn
<1>2. LeastIn(S, f) \subseteq S /\ IsFiniteSet(LeastIn(S, f))
  <2>1. LeastIn(S, f) \subseteq S
    BY DEF LeastIn
  <2> QED
    BY <2>1, CountIsNat
<1>3. ASSUME NEW x \in LeastIn(S, f), NEW y \in LeastIn(S, f) PROVE Same(f[x], f[y])
  BY Order DEF LeastIn
<1>4. ASSUME NEW x \in LeastIn(S, f), NEW y \in S \ LeastIn(S, f) PROVE Less(f[x], f[y])
  <2>1. PICK z \in S : ~Leq(f[y], f[z])
    BY DEF LeastIn
  <2>2. x \in S /\ Leq(f[x], f[z])
    BY <2>1 DEF LeastIn
  <2>3. ~Leq(f[y], f[x])
    BY <2>1, <2>2, LeqChain
  <2> QED
    BY <2>2, <2>3, Order
<1> QED
  BY <1>1, <1>2, <1>3, <1>4

(* Keys of three rates are compared in order. *)
LEMMA KeysCompared ==
  ASSUME NEW a, NEW b, NEW c, NEW d, NEW e, NEW f
  PROVE  KeyLess(<<a, b, c>>, <<d, e, f>>) <=>
           \/ Less(a, d)
           \/ Same(a, d) /\ Less(b, e)
           \/ Same(a, d) /\ Same(b, e) /\ Less(c, f)
<1> DEFINE x == <<a, b, c>>  y == <<d, e, f>>
           At(i) == Less(x[i], y[i]) /\ \A j \in 1..(i - 1) : Same(x[j], y[j])
<1>1. KeyLess(x, y) <=> \E i \in 1..3 : At(i)
  BY DEF KeyLess
<1>2. 1..0 = {} /\ 1..1 = {1} /\ 1..2 = {1, 2} /\ 1..3 = {1, 2, 3}
  OBVIOUS
<1>3. x[1] = a /\ x[2] = b /\ x[3] = c /\ y[1] = d /\ y[2] = e /\ y[3] = f
  OBVIOUS
<1> HIDE DEF x, y
<1>4. At(1) <=> Less(a, d)
  BY <1>2, <1>3
<1>5. At(2) <=> Same(a, d) /\ Less(b, e)
  BY <1>2, <1>3
<1>6. At(3) <=> Same(a, d) /\ Same(b, e) /\ Less(c, f)
  BY <1>2, <1>3
<1> HIDE DEF At
<1>7. KeyLess(x, y) <=> At(1) \/ At(2) \/ At(3)
  BY <1>1, <1>2
<1> QED
  BY <1>4, <1>5, <1>6, <1>7 DEF x, y

(* The key of a threshold that allows n rows, k of them bad. *)
KeyOf(k, n, tau) == SelectionKey(n, RateOr(k, n, None), tau)
IsChoice(k, n, tau) == k \in Nat /\ n \in Nat /\ IsNumber(tau)

LEMMA KeyParts ==
  ASSUME NEW k, NEW n, NEW tau, IsChoice(k, n, tau)
  PROVE  LET risk == IF n = 0 THEN <<-1, 1>> ELSE <<k, n>>
         IN /\ KeyOf(k, n, tau) = <<<<-n, 1>>, risk, tau>>
            /\ IsNumber(<<-n, 1>>) /\ IsNumber(risk) /\ IsNumber(tau)
<1>1. k \in Nat /\ n \in Nat /\ IsNumber(tau)
  BY DEF IsChoice
<1>2. <<k, n>> # << >>
  OBVIOUS
<1> QED
  BY <1>1, <1>2 DEF KeyOf, SelectionKey, RateOr, None, IsNumber

(* Some have the least keys, and of those all have the same. *)
LEMMA LeastKeys ==
  ASSUME NEW S, IsFiniteSet(S), S # {}, NEW K, NEW N, NEW T,
         \A x \in S : IsChoice(K[x], N[x], T[x])
  PROVE  \E L \in SUBSET S :
           /\ L # {}
           /\ \A x \in L, y \in S :
                /\ ~KeyLess(KeyOf(K[y], N[y], T[y]), KeyOf(K[x], N[x], T[x]))
                /\ y \notin L => KeyLess(KeyOf(K[x], N[x], T[x]), KeyOf(K[y], N[y], T[y]))
<1> DEFINE f1 == [x \in S |-> <<-N[x], 1>>]
           f2 == [x \in S |-> IF N[x] = 0 THEN <<-1, 1>> ELSE <<K[x], N[x]>>]
           f3 == [x \in S |-> T[x]]
           key(x) == KeyOf(K[x], N[x], T[x])
           L1 == LeastIn(S, f1)  L2 == LeastIn(L1, f2)  L3 == LeastIn(L2, f3)
<1>1. ASSUME NEW x \in S
      PROVE  /\ IsNumber(f1[x]) /\ IsNumber(f2[x]) /\ IsNumber(f3[x])
             /\ key(x) = <<f1[x], f2[x], f3[x]>>
  BY KeyParts
<1> HIDE DEF f1, f2, f3, key
<1>2. /\ L1 # {} /\ L1 \subseteq S /\ IsFiniteSet(L1)
      /\ \A x, y \in L1 : Same(f1[x], f1[y])
      /\ \A x \in L1, y \in S \ L1 : Less(f1[x], f1[y])
  BY <1>1, LeastIsBelow
<1> HIDE DEF L1
<1>3. /\ L2 # {} /\ L2 \subseteq L1 /\ IsFiniteSet(L2)
      /\ \A x, y \in L2 : Same(f2[x], f2[y])
      /\ \A x \in L2, y \in L1 \ L2 : Less(f2[x], f2[y])
  <2>1. \A x \in L1 : IsNumber(f2[x])
    BY <1>1, <1>2
  <2> QED
    BY <1>2, <2>1, LeastIsBelow
<1> HIDE DEF L2
<1>4. /\ L3 # {} /\ L3 \subseteq L2
      /\ \A x, y \in L3 : Same(f3[x], f3[y])
      /\ \A x \in L3, y \in L2 \ L3 : Less(f3[x], f3[y])
  <2>1. \A x \in L2 : IsNumber(f3[x])
    BY <1>1, <1>2, <1>3
  <2> QED
    BY <1>3, <2>1, LeastIsBelow
<1> HIDE DEF L3
<1>5. ASSUME NEW x \in L3, NEW y \in S
      PROVE  /\ ~KeyLess(key(y), key(x))
             /\ y \notin L3 => KeyLess(key(x), key(y))
  <2>1. x \in S /\ x \in L1 /\ x \in L2
    BY <1>2, <1>3, <1>4
  <2>2. /\ IsNumber(f1[x]) /\ IsNumber(f2[x]) /\ IsNumber(f3[x])
        /\ IsNumber(f1[y]) /\ IsNumber(f2[y]) /\ IsNumber(f3[y])
        /\ key(x) = <<f1[x], f2[x], f3[x]>> /\ key(y) = <<f1[y], f2[y], f3[y]>>
    BY <1>1, <2>1
  <2>3. /\ KeyLess(key(x), key(y)) <=>
             \/ Less(f1[x], f1[y])
             \/ Same(f1[x], f1[y]) /\ Less(f2[x], f2[y])
             \/ Same(f1[x], f1[y]) /\ Same(f2[x], f2[y]) /\ Less(f3[x], f3[y])
        /\ KeyLess(key(y), key(x)) <=>
             \/ Less(f1[y], f1[x])
             \/ Same(f1[y], f1[x]) /\ Less(f2[y], f2[x])
             \/ Same(f1[y], f1[x]) /\ Same(f2[y], f2[x]) /\ Less(f3[y], f3[x])
    BY <2>2, KeysCompared
  <2>4. /\ Less(f1[x], f1[y]) => ~Less(f1[y], f1[x]) /\ ~Same(f1[y], f1[x])
        /\ Less(f2[x], f2[y]) => ~Less(f2[y], f2[x]) /\ ~Same(f2[y], f2[x])
        /\ Less(f3[x], f3[y]) => ~Less(f3[y], f3[x])
        /\ Same(f1[x], f1[y]) => ~Less(f1[y], f1[x])
        /\ Same(f2[x], f2[y]) => ~Less(f2[y], f2[x])
        /\ Same(f3[x], f3[y]) => ~Less(f3[y], f3[x])
    BY <2>2, Order
  <2>5. CASE y \notin L1
    <3>1. Less(f1[x], f1[y])
      BY <1>2, <2>1, <2>5
    <3> QED
      BY <2>3, <2>4, <3>1
  <2>6. CASE y \in L1 \ L2
    <3>1. Same(f1[x], f1[y]) /\ Less(f2[x], f2[y])
      BY <1>2, <1>3, <2>1, <2>6
    <3> QED
      BY <2>3, <2>4, <3>1
  <2>7. CASE y \in L2 \ L3
    <3>1. Same(f1[x], f1[y]) /\ Same(f2[x], f2[y]) /\ Less(f3[x], f3[y])
      BY <1>2, <1>3, <1>4, <2>1, <2>7
    <3> QED
      BY <2>3, <2>4, <3>1
  <2>8. CASE y \in L3
    <3>1. Same(f1[x], f1[y]) /\ Same(f2[x], f2[y]) /\ Same(f3[x], f3[y])
      BY <1>2, <1>3, <1>4, <2>1, <2>8
    <3> QED
      BY <2>3, <2>4, <2>8, <3>1
  <2> QED
    BY <2>5, <2>6, <2>7, <2>8
<1>6. L3 \in SUBSET S /\ L3 # {}
  BY <1>2, <1>3, <1>4
<1> QED
  BY <1>5, <1>6 DEF key

(* No key below another's: no fewer rows allowed. *)
LEMMA LeastKeyHasMost ==
  ASSUME NEW k, NEW n, NEW a, IsChoice(k, n, a), NEW l, NEW m, NEW b, IsChoice(l, m, b),
         ~KeyLess(KeyOf(l, m, b), KeyOf(k, n, a))
  PROVE  m <= n
<1> SUFFICES ASSUME ~(m <= n) PROVE FALSE
  OBVIOUS
<1>1. Less(<<-m, 1>>, <<-n, 1>>)
  BY DEF IsChoice, Less
<1> DEFINE r == IF n = 0 THEN <<-1, 1>> ELSE <<k, n>>
           s == IF m = 0 THEN <<-1, 1>> ELSE <<l, m>>
<1>2. KeyOf(k, n, a) = <<<<-n, 1>>, r, a>> /\ KeyOf(l, m, b) = <<<<-m, 1>>, s, b>>
  BY KeyParts
<1> HIDE DEF r, s
<1> QED
  BY <1>1, <1>2, KeysCompared

Passing(rs, thresholds, alpha, conservative) ==
  {tau \in thresholds :
     Meets(Cardinality(BadAllowed(rs, tau)), Cardinality(Allowed(rs, tau)), alpha, conservative)}

(* tau passes, and none of the thresholds that pass allows more rows. *)
IsBest(rs, thresholds, alpha, conservative, tau) ==
  /\ tau \in Passing(rs, thresholds, alpha, conservative)
  /\ \A other \in Passing(rs, thresholds, alpha, conservative) :
       Cardinality(Allowed(rs, other)) <= Cardinality(Allowed(rs, tau))

LEMMA CandidatesOf ==
  ASSUME NEW rs, IsScored(rs)
  PROVE  /\ candidate_thresholds(rs) = {BelowAll(rs), AboveAll(rs)} \cup UniqueScores(rs)
         /\ IsFiniteSet(candidate_thresholds(rs))
         /\ \A tau \in candidate_thresholds(rs) : IsNumber(tau)
         /\ \A tau \in candidate_thresholds(rs) :
              IsChoice(Cardinality(BadAllowed(rs, tau)), Cardinality(Allowed(rs, tau)), tau)
<1>1. candidate_thresholds(rs) = {BelowAll(rs), AboveAll(rs)} \cup UniqueScores(rs)
  BY DEF candidate_thresholds, IsScored
<1>2. IsFiniteSet({BelowAll(rs), AboveAll(rs)} \cup UniqueScores(rs))
  <2>1. {BelowAll(rs), AboveAll(rs)} \cup UniqueScores(rs)
          = (UniqueScores(rs) \cup {BelowAll(rs)}) \cup {AboveAll(rs)}
    OBVIOUS
  <2> QED
    BY <2>1, ScoresOnce, FS_AddElement
<1>3. \A tau \in candidate_thresholds(rs) : IsNumber(tau)
  BY <1>1, ScoresOnce, BelowAndAbove
<1> QED
  BY <1>1, <1>2, <1>3, AllowedRows DEF IsChoice

\* Where nothing is allowed there is nothing to hold against the threshold.
LEMMA BelowAllPasses ==
  ASSUME NEW rs, IsScored(rs), NEW thresholds, BelowAll(rs) \in thresholds, NEW alpha, NEW conservative
  PROVE  BelowAll(rs) \in Passing(rs, thresholds, alpha, conservative)
<1>1. Cardinality(Allowed(rs, BelowAll(rs))) = 0
  BY BelowAndAbove, FS_EmptySet
<1> QED
  BY <1>1 DEF Passing, Meets

(* The exhaustive selection allows the most of the thresholds that pass. *)
LEMMA SelectedIsBest ==
  ASSUME NEW rs, IsScored(rs), NEW alpha, NEW conservative
  PROVE  IsBest(rs, candidate_thresholds(rs), alpha, conservative,
                select_threshold(rs, alpha, conservative).tau)
<1> DEFINE all == candidate_thresholds(rs)
           S == Passing(rs, all, alpha, conservative)
           K == [tau \in S |-> Cardinality(BadAllowed(rs, tau))]
           N == [tau \in S |-> Cardinality(Allowed(rs, tau))]
           T == [tau \in S |-> tau]
           Key(tau) == SelectionKey(Cardinality(Allowed(rs, tau)), allowed_bad_rate_or_none(rs, tau), tau)
           best == CHOOSE tau \in S : \A other \in S : ~KeyLess(Key(other), Key(tau))
<1>1. select_threshold(rs, alpha, conservative).tau = best
  <2>1. DOMAIN rs # {}
    BY DEF IsScored
  <2>2. select_threshold(rs, alpha, conservative)
          = Chosen(best, Cardinality(Allowed(rs, best)), allowed_bad_rate_or_none(rs, best))
    BY <2>1, Zenon DEF select_threshold, Passing
  <2> HIDE DEF best
  <2> QED
    BY <2>2 DEF Chosen
<1>2. S \subseteq all /\ IsFiniteSet(S) /\ S # {}
  <2>1. S \subseteq all
    BY DEF Passing
  <2>2. BelowAll(rs) \in S
    BY CandidatesOf, BelowAllPasses
  <2> HIDE DEF S
  <2> QED
    BY <2>1, <2>2, CandidatesOf, CountIsNat
<1>3. ASSUME NEW tau \in S
      PROVE  IsChoice(K[tau], N[tau], T[tau]) /\ Key(tau) = KeyOf(K[tau], N[tau], T[tau])
  <2>1. tau \in all
    BY <1>2
  <2>2. K[tau] = Cardinality(BadAllowed(rs, tau)) /\ N[tau] = Cardinality(Allowed(rs, tau)) /\ T[tau] = tau
    OBVIOUS
  <2> HIDE DEF K, N, T
  <2> QED
    BY <2>1, <2>2, CandidatesOf DEF KeyOf, allowed_bad_rate_or_none
<1> HIDE DEF Key
<1>4. \E tau \in S : \A other \in S : ~KeyLess(Key(other), Key(tau))
  <2> HIDE DEF S, K, N, T
  <2>1. PICK L \in SUBSET S :
          /\ L # {}
          /\ \A x \in L, y \in S :
               /\ ~KeyLess(KeyOf(K[y], N[y], T[y]), KeyOf(K[x], N[x], T[x]))
               /\ y \notin L => KeyLess(KeyOf(K[x], N[x], T[x]), KeyOf(K[y], N[y], T[y]))
    BY <1>2, <1>3, LeastKeys
  <2>2. PICK x \in L : x \in S
    BY <2>1
  <2>3. \A y \in S : ~KeyLess(Key(y), Key(x))
    BY <1>3, <2>1, <2>2
  <2> QED
    BY <2>2, <2>3
<1>5. best \in S /\ \A other \in S : ~KeyLess(Key(other), Key(best))
  <2> HIDE DEF S
  <2> QED
    BY <1>4
<1> HIDE DEF best
<1>6. ASSUME NEW other \in S
      PROVE  Cardinality(Allowed(rs, other)) <= Cardinality(Allowed(rs, best))
  <2>1. N[other] = Cardinality(Allowed(rs, other)) /\ N[best] = Cardinality(Allowed(rs, best))
    BY <1>5
  <2> HIDE DEF S, K, N, T
  <2>2. ~KeyLess(KeyOf(K[other], N[other], T[other]), KeyOf(K[best], N[best], T[best]))
    BY <1>3, <1>5
  <2>3. IsChoice(K[other], N[other], T[other]) /\ IsChoice(K[best], N[best], T[best])
    BY <1>3, <1>5
  <2> QED
    BY <2>1, <2>2, <2>3, LeastKeyHasMost
<1> QED
  BY <1>1, <1>5, <1>6 DEF IsBest

(* The rows of the k-th score, and those up to it. *)
RowsAt(rs, tau) == {i \in DOMAIN rs : Same(rs[i].score, tau)}
UpToRank(rs, k) == IF k = 0 THEN {} ELSE Allowed(rs, Sorted(UniqueScores(rs))[k])

(* One score more allows the rows that have it. *)
LEMMA NextRank ==
  ASSUME NEW rs, IsScored(rs), NEW k \in 1..Len(Sorted(UniqueScores(rs)))
  PROVE  LET at == RowsAt(rs, Sorted(UniqueScores(rs))[k])
         IN /\ UpToRank(rs, k) = UpToRank(rs, k - 1) \cup at
            /\ UpToRank(rs, k - 1) \cap at = {}
<1> DEFINE U == UniqueScores(rs)  s == Sorted(U)  m == Len(s)
           at == RowsAt(rs, s[k])
<1>1. /\ m \in Nat /\ DOMAIN s = 1..m /\ k \in 1..m
      /\ \A j \in 1..m : s[j] \in U
      /\ \A a \in U : \E j \in 1..m : s[j] = a
      /\ \A i, j \in 1..m : i < j => Less(s[i], s[j])
  BY ScoresOnce, SortedRates
<1>2. /\ \A a \in U : IsNumber(a)
      /\ \A i \in DOMAIN rs : IsNumber(rs[i].score) /\ \E a \in U : Same(rs[i].score, a)
  <2>1. ASSUME NEW i \in DOMAIN rs
        PROVE  IsNumber(rs[i].score) /\ \E a \in U : Same(rs[i].score, a)
    <3>1. IsNumber(rs[i].score) /\ Reduced(rs[i].score) \in U
      BY ScoresOnce DEF IsScored
    <3>2. Same(rs[i].score, Reduced(rs[i].score))
      BY <3>1, ReducedIsSame, Order
    <3> QED
      BY <3>1, <3>2
  <2> QED
    BY <2>1, ScoresOnce
<1> HIDE DEF s, U, m
<1>3. ASSUME NEW i \in DOMAIN rs, NEW j \in 1..m, Same(rs[i].score, s[j]), NEW l \in 1..m
      PROVE  /\ Leq(rs[i].score, s[l]) <=> j <= l
             /\ Same(rs[i].score, s[l]) <=> j = l
  <2> DEFINE x == rs[i].score  y == s[j]  z == s[l]
  <2>1. /\ IsNumber(x) /\ IsNumber(y) /\ IsNumber(z) /\ Same(x, y)
        /\ j < l => Less(y, z)
        /\ l < j => Less(z, y)
        /\ j = l => y = z
    BY <1>1, <1>2, <1>3
  <2> HIDE DEF x, y, z
  <2>2. Leq(x, y) /\ Leq(y, x)
    BY <2>1, Order
  <2>3. ASSUME j < l PROVE Leq(x, z) /\ ~Same(x, z)
    <3>1. Leq(y, z) /\ ~Leq(z, y)
      BY <2>1, <2>3, Order
    <3>2. Leq(x, z)
      BY <2>1, <2>2, <3>1, LeqChain
    <3>3. ~Leq(z, x)
      BY <2>1, <2>2, <3>1, LeqChain
    <3> QED
      BY <2>1, <3>2, <3>3, Order
  <2>4. ASSUME l < j PROVE ~Leq(x, z) /\ ~Same(x, z)
    <3>1. ~Leq(y, z)
      BY <2>1, <2>4, Order
    <3>2. ~Leq(x, z)
      BY <2>1, <2>2, <3>1, LeqChain
    <3> QED
      BY <2>1, <3>2, Order
  <2>5. j = l => Leq(x, z) /\ Same(x, z)
    BY <2>1, <2>2
  <2>6. j \in Int /\ l \in Int
    OBVIOUS
  <2> QED
    BY <2>3, <2>4, <2>5, <2>6 DEF x, z
<1>4. ASSUME NEW i \in DOMAIN rs
      PROVE  \E j \in 1..m :
               /\ i \in UpToRank(rs, k) <=> j <= k
               /\ i \in UpToRank(rs, k - 1) <=> j <= k - 1
               /\ i \in at <=> j = k
  <2>1. PICK j \in 1..m : Same(rs[i].score, s[j])
    BY <1>1, <1>2
  <2>2. i \in UpToRank(rs, k) <=> j <= k
    <3>1. UpToRank(rs, k) = Allowed(rs, s[k])
      BY <1>1 DEF UpToRank, s, U
    <3> QED
      BY <1>1, <1>3, <2>1, <3>1 DEF Allowed
  <2>3. i \in UpToRank(rs, k - 1) <=> j <= k - 1
    <3>1. CASE k = 1
      BY <1>1, <3>1 DEF UpToRank
    <3>2. CASE k # 1
      <4>1. k - 1 \in 1..m /\ k - 1 # 0
        BY <1>1, <3>2
      <4>2. UpToRank(rs, k - 1) = Allowed(rs, s[k - 1])
        BY <4>1 DEF UpToRank, s, U
      <4> QED
        BY <1>3, <2>1, <4>1, <4>2 DEF Allowed
    <3> QED
      BY <3>1, <3>2
  <2>4. i \in at <=> j = k
    BY <1>1, <1>3, <2>1 DEF RowsAt
  <2> QED
    BY <2>2, <2>3, <2>4
<1>5. UpToRank(rs, k) \subseteq DOMAIN rs /\ UpToRank(rs, k - 1) \subseteq DOMAIN rs /\ at \subseteq DOMAIN rs
  BY DEF UpToRank, Allowed, RowsAt
<1> HIDE DEF at
<1>6. /\ UpToRank(rs, k) = UpToRank(rs, k - 1) \cup at
      /\ UpToRank(rs, k - 1) \cap at = {}
  <2>1. ASSUME NEW i \in DOMAIN rs
        PROVE  /\ i \in UpToRank(rs, k) <=> (i \in UpToRank(rs, k - 1) \/ i \in at)
               /\ ~(i \in UpToRank(rs, k - 1) /\ i \in at)
    <3>1. PICK j \in 1..m :
               /\ i \in UpToRank(rs, k) <=> j <= k
               /\ i \in UpToRank(rs, k - 1) <=> j <= k - 1
               /\ i \in at <=> j = k
      BY <1>4
    <3>2. j \in Int /\ k \in Int
      BY <1>1
    <3> QED
      BY <3>1, <3>2
  <2> QED
    BY <1>5, <2>1
<1> QED
  BY <1>6 DEF at, s, U

CountsAt(rs, k) ==
  [tau |-> IF k = 0 THEN BelowAll(rs) ELSE Sorted(UniqueScores(rs))[k],
   n   |-> Cardinality(UpToRank(rs, k)),
   bad |-> Cardinality(UpToRank(rs, k) \cap Positives(rs))]

(* One step of the counting, from the counts f. *)
Continued(rs, f) ==
  LET scores == Sorted(UniqueScores(rs))
      At(k) == {i \in DOMAIN rs : Same(rs[i].score, scores[k])}
  IN [k \in 0..Len(scores) |->
        IF k = 0 THEN [tau |-> BelowAll(rs), n |-> 0, bad |-> 0]
        ELSE [tau |-> scores[k],
              n |-> f[k - 1].n + Cardinality(At(k)),
              bad |-> f[k - 1].bad + Cardinality(At(k) \cap Positives(rs))]]

LEMMA ContinuedAt ==
  ASSUME NEW rs, IsScored(rs), NEW f, NEW k \in 1..Len(Sorted(UniqueScores(rs))),
         f[k - 1] = CountsAt(rs, k - 1)
  PROVE  Continued(rs, f)[k] = CountsAt(rs, k)
<1> DEFINE s == Sorted(UniqueScores(rs))  at == RowsAt(rs, s[k])
           before == UpToRank(rs, k - 1)  after == UpToRank(rs, k)
           P == Positives(rs)
<1>1. after = before \cup at /\ before \cap at = {}
  BY NextRank
<1>2. k \in Nat /\ k # 0 /\ k \in 0..Len(s)
  <2>1. Len(s) \in Nat
    BY ScoresOnce, SortedRates
  <2> QED
    BY <2>1
<1>3. Continued(rs, f)[k] =
        [tau |-> s[k], n |-> f[k - 1].n + Cardinality(at), bad |-> f[k - 1].bad + Cardinality(at \cap P)]
  BY <1>2 DEF Continued, RowsAt
<1>4. f[k - 1].n = Cardinality(before) /\ f[k - 1].bad = Cardinality(before \cap P)
  BY DEF CountsAt
<1>5. IsFiniteSet(before) /\ IsFiniteSet(at)
  <2>1. before \subseteq DOMAIN rs /\ at \subseteq DOMAIN rs
    BY DEF UpToRank, Allowed, RowsAt
  <2> QED
    BY <2>1, CountIsNat DEF IsScored
<1>6. CountsAt(rs, k) = [tau |-> s[k], n |-> Cardinality(after), bad |-> Cardinality(after \cap P)]
  BY <1>2 DEF CountsAt
<1> HIDE DEF s, at, before, after, P
<1>7. Cardinality(after) = Cardinality(before) + Cardinality(at)
  <2>1. Cardinality(before \cap at) = 0
    BY <1>1, FS_EmptySet
  <2>2. Cardinality(before) \in Nat /\ Cardinality(at) \in Nat
    BY <1>5, FS_CardinalityType
  <2>3. Cardinality(before \cup at) = Cardinality(before) + Cardinality(at) - Cardinality(before \cap at)
    BY ONLY <1>5, FS_Union, Zenon
  <2> QED
    BY ONLY <1>1, <2>1, <2>2, <2>3
<1>8. Cardinality(after \cap P) = Cardinality(before \cap P) + Cardinality(at \cap P)
  <2> DEFINE b == before \cap P  a == at \cap P
  <2>1. after \cap P = b \cup a /\ b \cap a = {} /\ b \subseteq before /\ a \subseteq at
    BY <1>1
  <2> HIDE DEF a, b
  <2>2. IsFiniteSet(b) /\ IsFiniteSet(a) /\ Cardinality(b) \in Nat /\ Cardinality(a) \in Nat
    BY <1>5, <2>1, CountIsNat
  <2>3. Cardinality(b \cap a) = 0
    BY <2>1, FS_EmptySet
  <2>4. Cardinality(b \cup a) = Cardinality(b) + Cardinality(a) - Cardinality(b \cap a)
    BY ONLY <2>2, FS_Union, Zenon
  <2>5. Cardinality(b \cup a) = Cardinality(b) + Cardinality(a)
    BY ONLY <2>2, <2>3, <2>4
  <2> QED
    BY <2>1, <2>5 DEF a, b
<1> QED
  BY <1>3, <1>4, <1>6, <1>7, <1>8

LEMMA CountsStart ==
  ASSUME NEW rs, NEW f, NEW m \in Nat, m = Len(Sorted(UniqueScores(rs)))
  PROVE  /\ DOMAIN Continued(rs, f) = 0..m
         /\ Continued(rs, f)[0] = CountsAt(rs, 0)
<1>1. DOMAIN Continued(rs, f) = 0..m
  BY Zenon DEF Continued
<1>2. Continued(rs, f)[0] = [tau |-> BelowAll(rs), n |-> 0, bad |-> 0]
  <2>1. 0 \in 0..Len(Sorted(UniqueScores(rs)))
    OBVIOUS
  <2> QED
    BY ONLY <2>1 DEF Continued
<1>3. CountsAt(rs, 0) = [tau |-> BelowAll(rs), n |-> 0, bad |-> 0]
  <2>1. UpToRank(rs, 0) = {}
    BY ONLY DEF UpToRank
  <2>2. UpToRank(rs, 0) \cap Positives(rs) = {}
    BY ONLY <2>1
  <2>3. Cardinality(UpToRank(rs, 0)) = 0 /\ Cardinality(UpToRank(rs, 0) \cap Positives(rs)) = 0
    BY ONLY <2>1, <2>2, FS_EmptySet
  <2> QED
    BY ONLY <2>3 DEF CountsAt
<1> QED
  BY <1>1, <1>2, <1>3

\* The running counts come to the rows that each threshold allows.
LEMMA RunningCounts ==
  ASSUME NEW rs, IsScored(rs)
  PROVE  /\ DOMAIN running_counts(rs) = 0..Len(Sorted(UniqueScores(rs)))
         /\ \A k \in DOMAIN running_counts(rs) : running_counts(rs)[k] = CountsAt(rs, k)
<1> DEFINE m == Len(Sorted(UniqueScores(rs)))
           counts == running_counts(rs)
           f == [k \in 0..m |-> CountsAt(rs, k)]
           Wrong == {k \in 0..m : counts[k] # CountsAt(rs, k)}
<1>1. m \in Nat
  BY ScoresOnce, SortedRates
<1>2. f = Continued(rs, f)
  <2>1. \A k \in 1..m : k - 1 \in 0..m
    BY <1>1
  <2>2. \A k \in 1..m : f[k - 1] = CountsAt(rs, k - 1)
    BY <2>1
  <2>3. \A k \in 0..m : f[k] = CountsAt(rs, k)
    OBVIOUS
  <2>4. f = [k \in 0..m |-> f[k]]
    OBVIOUS
  <2> DEFINE g == Continued(rs, f)
  <2>5. g = [k \in 0..m |-> g[k]]
    BY DEF Continued
  <2> HIDE DEF f
  <2>6. \A k \in 1..m : g[k] = CountsAt(rs, k)
    BY <2>2, ContinuedAt
  <2>7. g[0] = CountsAt(rs, 0)
    BY <1>1, CountsStart
  <2>8. \A k \in 0..m : g[k] = f[k]
    <3> SUFFICES ASSUME NEW k \in 0..m PROVE g[k] = f[k]
      OBVIOUS
    <3>1. k = 0 \/ k \in 1..m
      BY <1>1
    <3> HIDE DEF g
    <3> QED
      BY <2>3, <2>6, <2>7, <3>1
  <2> HIDE DEF g
  <2>9. f = g
    BY <2>4, <2>5, <2>8
  <2> QED
    BY <2>9 DEF g
<1>3. counts = Continued(rs, counts)
  <2> HIDE DEF f
  <2> QED
    BY <1>2, Zenon DEF running_counts, Continued
<1> HIDE DEF counts, f
<1>4. DOMAIN counts = 0..m /\ counts[0] = CountsAt(rs, 0)
  BY <1>1, <1>3, CountsStart
<1>5. \A k \in 1..m : counts[k - 1] = CountsAt(rs, k - 1) => counts[k] = CountsAt(rs, k)
  BY <1>3, ContinuedAt
<1>6. Wrong = {}
  <2> SUFFICES ASSUME Wrong # {} PROVE FALSE
    OBVIOUS
  <2> HIDE DEF m
  <2>1. PICK k \in Wrong : \A j \in Wrong : k <= j
    <3>1. Wrong \in SUBSET Nat
      BY <1>1
    <3> HIDE DEF Wrong
    <3> QED
      BY <3>1, LeastExists
  <2>2. k # 0 /\ k \in 1..m /\ k - 1 \in 0..m
    BY <1>1, <1>4
  <2>3. k - 1 \notin Wrong
    BY <2>1, <2>2
  <2> QED
    BY <1>5, <2>2, <2>3
<1> QED
  BY <1>4, <1>6 DEF counts

LEMMA LesserKeyHasMost ==
  ASSUME NEW k, NEW n, NEW a, IsChoice(k, n, a), NEW l, NEW m, NEW b, IsChoice(l, m, b),
         KeyLess(KeyOf(k, n, a), KeyOf(l, m, b))
  PROVE  m <= n
<1> DEFINE r == IF n = 0 THEN <<-1, 1>> ELSE <<k, n>>
           s == IF m = 0 THEN <<-1, 1>> ELSE <<l, m>>
<1>1. KeyOf(k, n, a) = <<<<-n, 1>>, r, a>> /\ KeyOf(l, m, b) = <<<<-m, 1>>, s, b>>
  BY KeyParts
<1> HIDE DEF r, s
<1>2. Less(<<-n, 1>>, <<-m, 1>>) \/ Same(<<-n, 1>>, <<-m, 1>>)
  BY <1>1, KeysCompared
<1> QED
  BY <1>2 DEF IsChoice, Less, Same

\* Each running count is of a threshold, and each threshold has one.
LEMMA CountsOfThresholds ==
  ASSUME NEW rs, IsScored(rs)
  PROVE  LET counts == running_counts(rs)
             thresholds == {BelowAll(rs)} \cup UniqueScores(rs)
         IN /\ \E m \in Nat : DOMAIN counts = 0..m
            /\ \A k \in DOMAIN counts :
                 /\ counts[k].tau \in thresholds
                 /\ counts[k].n = Cardinality(Allowed(rs, counts[k].tau))
                 /\ counts[k].bad = Cardinality(BadAllowed(rs, counts[k].tau))
                 /\ IsChoice(counts[k].bad, counts[k].n, counts[k].tau)
            /\ \A tau \in thresholds : \E k \in DOMAIN counts : counts[k].tau = tau
<1> DEFINE counts == running_counts(rs)
           thresholds == {BelowAll(rs)} \cup UniqueScores(rs)
           s == Sorted(UniqueScores(rs))  m == Len(s)
<1>1. DOMAIN counts = 0..m /\ m \in Nat
  BY RunningCounts, ScoresOnce, SortedRates
<1>2. ASSUME NEW k \in 0..m
      PROVE  /\ counts[k].tau = IF k = 0 THEN BelowAll(rs) ELSE s[k]
             /\ counts[k].n = Cardinality(UpToRank(rs, k))
             /\ counts[k].bad = Cardinality(UpToRank(rs, k) \cap Positives(rs))
  BY <1>1, RunningCounts DEF CountsAt
<1>3. (\A j \in 1..m : s[j] \in UniqueScores(rs)) /\ (\A a \in UniqueScores(rs) : \E j \in 1..m : s[j] = a)
  BY ScoresOnce, SortedRates
<1>4. UpToRank(rs, 0) = Allowed(rs, BelowAll(rs))
  BY BelowAndAbove DEF UpToRank
<1>5. \A k \in 1..m : UpToRank(rs, k) = Allowed(rs, s[k])
  BY DEF UpToRank
<1>6. \A k \in 0..m : k = 0 \/ (k \in 1..m /\ k # 0)
  BY <1>1
<1>7. ASSUME NEW tau \in thresholds PROVE IsNumber(tau)
  BY ScoresOnce, BelowAndAbove
<1> HIDE DEF counts, s, m
<1>8. ASSUME NEW k \in 0..m
      PROVE  counts[k].tau \in thresholds /\ UpToRank(rs, k) = Allowed(rs, counts[k].tau)
  BY <1>2, <1>3, <1>4, <1>5, <1>6
<1>9. ASSUME NEW k \in 0..m
      PROVE  /\ counts[k].n = Cardinality(Allowed(rs, counts[k].tau))
             /\ counts[k].bad = Cardinality(BadAllowed(rs, counts[k].tau))
  BY <1>2, <1>8 DEF BadAllowed
<1>10. ASSUME NEW k \in 0..m PROVE IsChoice(counts[k].bad, counts[k].n, counts[k].tau)
  BY <1>7, <1>8, <1>9, AllowedRows DEF IsChoice
<1>11. ASSUME NEW tau \in thresholds PROVE \E k \in 0..m : counts[k].tau = tau
  <2>1. CASE tau = BelowAll(rs)
    <3>1. 0 \in 0..m
      BY <1>1
    <3>2. counts[0].tau = BelowAll(rs)
      BY <1>2, <3>1
    <3> QED
      BY <2>1, <3>1, <3>2
  <2>2. CASE tau \in UniqueScores(rs)
    <3>1. PICK j \in 1..m : s[j] = tau
      BY <1>3, <2>2
    <3>2. j \in 0..m /\ j # 0
      BY <1>1
    <3> QED
      BY <1>2, <3>1, <3>2
  <2> QED
    BY <2>1, <2>2
<1> HIDE DEF thresholds
<1>12. /\ \E x \in Nat : DOMAIN counts = 0..x
       /\ \A k \in DOMAIN counts :
            /\ counts[k].tau \in thresholds
            /\ counts[k].n = Cardinality(Allowed(rs, counts[k].tau))
            /\ counts[k].bad = Cardinality(BadAllowed(rs, counts[k].tau))
            /\ IsChoice(counts[k].bad, counts[k].n, counts[k].tau)
       /\ \A tau \in thresholds : \E k \in DOMAIN counts : counts[k].tau = tau
  BY <1>1, <1>8, <1>9, <1>10, <1>11
<1> QED
  BY ONLY <1>12 DEF counts, thresholds

(* The selection by running counts does, of the scores and the end below them. *)
LEMMA FastIsBest ==
  ASSUME NEW rs, IsScored(rs), NEW alpha, NEW conservative
  PROVE  IsBest(rs, {BelowAll(rs)} \cup UniqueScores(rs), alpha, conservative,
                select_threshold_fast(rs, alpha, conservative).tau)
<1> DEFINE thresholds == {BelowAll(rs)} \cup UniqueScores(rs)
           counts == running_counts(rs)
           F == {k \in DOMAIN counts : Meets(counts[k].bad, counts[k].n, alpha, conservative)}
           Key(c) == SelectionKey(c.n, RateOr(c.bad, c.n, None), c.tau)
           First(i) == \A j \in F \ {i} :
                         \/ KeyLess(Key(counts[i]), Key(counts[j]))
                         \/ ~KeyLess(Key(counts[j]), Key(counts[i])) /\ i < j
           first == CHOOSE i \in F : First(i)
           K == [k \in F |-> counts[k].bad]
           N == [k \in F |-> counts[k].n]
           T == [k \in F |-> counts[k].tau]
<1>1. select_threshold_fast(rs, alpha, conservative).tau = counts[first].tau
  <2>1. DOMAIN rs # {}
    BY DEF IsScored
  <2> DEFINE best == counts[first]
  <2>2. select_threshold_fast(rs, alpha, conservative)
          = Chosen(best.tau, best.n, RateOr(best.bad, best.n, None))
    BY <2>1, Zenon DEF select_threshold_fast, FirstLeast
  <2> HIDE DEF best
  <2>3. select_threshold_fast(rs, alpha, conservative).tau = best.tau
    BY <2>2 DEF Chosen
  <2> QED
    BY <2>3 DEF best
<1>2. /\ \E m \in Nat : DOMAIN counts = 0..m
      /\ \A k \in DOMAIN counts :
           /\ counts[k].tau \in thresholds
           /\ counts[k].n = Cardinality(Allowed(rs, counts[k].tau))
           /\ counts[k].bad = Cardinality(BadAllowed(rs, counts[k].tau))
           /\ IsChoice(counts[k].bad, counts[k].n, counts[k].tau)
      /\ \A tau \in thresholds : \E k \in DOMAIN counts : counts[k].tau = tau
  BY CountsOfThresholds
<1>3. BelowAll(rs) \in thresholds
  OBVIOUS
<1> HIDE DEF counts, thresholds
<1>4. \A k \in DOMAIN counts : k \in F <=> counts[k].tau \in Passing(rs, thresholds, alpha, conservative)
  BY <1>2 DEF Passing
<1>5. F # {} /\ IsFiniteSet(F) /\ F \subseteq Nat
  <2>1. PICK m \in Nat : DOMAIN counts = 0..m
    BY <1>2
  <2>2. IsFiniteSet(0..m) /\ 0..m \subseteq Nat
    BY FS_Interval
  <2>3. F \subseteq 0..m
    BY <2>1
  <2>4. PICK k \in DOMAIN counts : counts[k].tau = BelowAll(rs)
    BY <1>2, <1>3
  <2>5. k \in F
    BY <1>3, <1>4, <2>4, BelowAllPasses
  <2> HIDE DEF F
  <2> QED
    BY <2>2, <2>3, <2>5, FS_Subset
<1>6. ASSUME NEW k \in F
      PROVE  /\ IsChoice(K[k], N[k], T[k]) /\ Key(counts[k]) = KeyOf(K[k], N[k], T[k])
             /\ N[k] = Cardinality(Allowed(rs, counts[k].tau))
  BY <1>2 DEF KeyOf
<1> HIDE DEF Key, F, K, N, T
<1>7. \E i \in F : First(i)
  <2>1. PICK L \in SUBSET F :
          /\ L # {}
          /\ \A x \in L, y \in F :
               /\ ~KeyLess(KeyOf(K[y], N[y], T[y]), KeyOf(K[x], N[x], T[x]))
               /\ y \notin L => KeyLess(KeyOf(K[x], N[x], T[x]), KeyOf(K[y], N[y], T[y]))
    BY <1>5, <1>6, LeastKeys
  <2>2. PICK i \in L : \A j \in L : i <= j
    <3>1. L \in SUBSET Nat
      BY <1>5
    <3> QED
      BY <2>1, <3>1, LeastExists
  <2>3. i \in F /\ i \in Nat
    BY <1>5
  <2>4. ASSUME NEW j \in F \ {i}
        PROVE  \/ KeyLess(Key(counts[i]), Key(counts[j]))
               \/ ~KeyLess(Key(counts[j]), Key(counts[i])) /\ i < j
    <3>1. CASE j \in L
      <4>1. i < j
        BY <1>5, <2>2, <2>3, <3>1
      <4> QED
        BY <1>6, <2>1, <2>3, <4>1
    <3>2. CASE j \notin L
      BY <1>6, <2>1, <2>3, <3>2
    <3> QED
      BY <3>1, <3>2
  <2> QED
    BY <2>3, <2>4
<1>8. first \in F /\ First(first)
  BY <1>7
<1> HIDE DEF first
<1>9. ASSUME NEW j \in F PROVE N[j] <= N[first]
  <2>1. CASE j = first
    BY <1>6, <1>8, <2>1 DEF IsChoice
  <2>2. CASE j # first
    <3>1. \/ KeyLess(KeyOf(K[first], N[first], T[first]), KeyOf(K[j], N[j], T[j]))
          \/ ~KeyLess(KeyOf(K[j], N[j], T[j]), KeyOf(K[first], N[first], T[first]))
      BY <1>6, <1>8, <2>2
    <3>2. IsChoice(K[first], N[first], T[first]) /\ IsChoice(K[j], N[j], T[j])
      BY <1>6, <1>8
    <3> QED
      BY <3>1, <3>2, LesserKeyHasMost, LeastKeyHasMost
  <2> QED
    BY <2>1, <2>2
<1>10. F \subseteq DOMAIN counts
  BY DEF F
<1>11. counts[first].tau \in Passing(rs, thresholds, alpha, conservative)
  BY <1>4, <1>8, <1>10
<1>12. ASSUME NEW other \in Passing(rs, thresholds, alpha, conservative)
       PROVE  Cardinality(Allowed(rs, other)) <= Cardinality(Allowed(rs, counts[first].tau))
  <2>1. PICK j \in DOMAIN counts : counts[j].tau = other
    BY <1>2 DEF Passing
  <2>2. j \in F
    BY <1>4, <2>1
  <2> QED
    BY <1>6, <1>8, <1>9, <2>1, <2>2
<1>13. IsBest(rs, thresholds, alpha, conservative, counts[first].tau)
  BY <1>11, <1>12 DEF IsBest
<1> QED
  BY <1>1, <1>13 DEF thresholds

\* The highest score allows every row, as the threshold above all does.
LEMMA TopScoreAllowsAll ==
  ASSUME NEW rs, IsScored(rs)
  PROVE  \E top \in UniqueScores(rs) : Allowed(rs, top) = Allowed(rs, AboveAll(rs))
<1> DEFINE U == UniqueScores(rs)  f == [a \in U |-> a]
<1>1. IsFiniteSet(U) /\ (\A a \in U : IsNumber(a)) /\ U # {}
  <2>1. \E i \in DOMAIN rs : TRUE
    BY DEF IsScored
  <2> QED
    BY <2>1, ScoresOnce DEF UniqueScores
<1>2. \A i \in DOMAIN rs : /\ IsNumber(rs[i].score) /\ Reduced(rs[i].score) \in U
                           /\ Same(Reduced(rs[i].score), rs[i].score) /\ IsNumber(Reduced(rs[i].score))
  BY ReducedIsSame DEF UniqueScores, IsScored
<1> HIDE DEF U
<1>3. PICK top \in U : \A a \in U : Leq(f[a], f[top])
  <2>1. \A a \in U : IsNumber(f[a])
    BY <1>1
  <2> HIDE DEF f
  <2> QED
    BY <1>1, <2>1, GreatestOf
<1>4. ASSUME NEW i \in DOMAIN rs PROVE Leq(rs[i].score, top)
  <2>1. Leq(Reduced(rs[i].score), top)
    BY <1>2, <1>3
  <2>2. Leq(rs[i].score, Reduced(rs[i].score))
    BY <1>2, Order
  <2> QED
    BY <1>1, <1>2, <2>1, <2>2, LeqChain
<1>5. Allowed(rs, top) = DOMAIN rs
  BY <1>4 DEF Allowed
<1> QED
  BY <1>5, BelowAndAbove DEF U

(* The two selections allow the same rows. *)
LEMMA SameDecisions ==
  ASSUME NEW rs, IsScored(rs), NEW alpha, NEW conservative
  PROVE  Allowed(rs, select_threshold_fast(rs, alpha, conservative).tau)
           = Allowed(rs, select_threshold(rs, alpha, conservative).tau)
<1> DEFINE fast == select_threshold_fast(rs, alpha, conservative).tau
           slow == select_threshold(rs, alpha, conservative).tau
           fewer == {BelowAll(rs)} \cup UniqueScores(rs)
           all == candidate_thresholds(rs)
           Some(tau) == tau \in Passing(rs, fewer, alpha, conservative)
           Every(tau) == tau \in Passing(rs, all, alpha, conservative)
           n(tau) == Cardinality(Allowed(rs, tau))
<1>1. IsBest(rs, fewer, alpha, conservative, fast) /\ IsBest(rs, all, alpha, conservative, slow)
  BY FastIsBest, SelectedIsBest
<1>2. all = fewer \cup {AboveAll(rs)} /\ \A tau \in all : IsNumber(tau)
  BY CandidatesOf
<1>3. PICK top \in fewer : Allowed(rs, top) = Allowed(rs, AboveAll(rs))
  BY TopScoreAllowsAll
<1> HIDE DEF fast, slow, fewer, all
<1>4. /\ Some(fast) /\ \A other : Some(other) => n(other) <= n(fast)
      /\ Every(slow) /\ \A other : Every(other) => n(other) <= n(slow)
  BY <1>1 DEF IsBest
<1>5. fast \in fewer /\ slow \in all /\ fast \in all
  BY <1>2, <1>4 DEF Passing
<1>6. Every(fast)
  BY <1>4, <1>5 DEF Passing
<1>7. \E tau : Some(tau) /\ Allowed(rs, tau) = Allowed(rs, slow)
  <2>1. CASE slow \in fewer
    BY <1>4, <2>1 DEF Passing
  <2>2. CASE slow = AboveAll(rs)
    <3>1. Allowed(rs, top) = Allowed(rs, slow) /\ BadAllowed(rs, top) = BadAllowed(rs, slow)
      BY <1>3, <2>2 DEF BadAllowed
    <3>2. Some(top)
      BY <1>4, <3>1 DEF Passing
    <3> QED
      BY <3>1, <3>2
  <2> QED
    BY <1>2, <1>5, <2>1, <2>2
<1> HIDE DEF Some, Every
<1>8. n(fast) <= n(slow) /\ n(slow) <= n(fast)
  BY <1>4, <1>6, <1>7
<1>9. n(fast) \in Nat /\ n(slow) \in Nat
  BY AllowedRows
<1> HIDE DEF n
<1>10. n(fast) = n(slow)
  BY <1>8, <1>9
<1>11. Allowed(rs, fast) = Allowed(rs, slow)
  BY <1>2, <1>5, <1>10, Nested DEF n
<1> QED
  BY <1>11 DEF fast, slow

(* decision_metrics of the rows that are allowed. *)
MetricsOf(rs, A, tau, alpha) ==
  LET deferred == DOMAIN rs \ A
      caught == deferred \cap Positives(rs)
      bad == A \cap Positives(rs)
      risk == RateOr(Cardinality(bad), Cardinality(A), None)
      precision == Rate(Cardinality(caught), Cardinality(deferred))
      recall == Rate(Cardinality(caught), Cardinality(Positives(rs)))
  IN [tau |-> tau, total_rows |-> Cardinality(DOMAIN rs),
      positives |-> Cardinality(Positives(rs)),
      allowed_count |-> Cardinality(A), deferred_count |-> Cardinality(deferred),
      bad_allowed |-> Cardinality(bad),
      allowed_bad_rate |-> risk,
      risk_gap |-> IF risk = None THEN None ELSE Minus(risk, alpha),
      risk_violation |-> risk # None /\ Less(alpha, risk),
      deferral_rate |-> Rate(Cardinality(deferred), Cardinality(DOMAIN rs)),
      false_deferral_rate |-> Rate(Cardinality(deferred \ Positives(rs)), Cardinality(Negatives(rs))),
      true_deferral_rate |-> recall,
      useful_allowed_rate |-> Rate(Cardinality(A \ Positives(rs)), Cardinality(Negatives(rs))),
      defer_precision |-> precision, defer_f1 |-> F1(precision, recall),
      trajectories_with_at_least_one_defer |-> Cardinality({rs[i].trajectory : i \in deferred}),
      average_deferrals_per_trajectory |->
        Rate(Cardinality(deferred), Cardinality({rs[i].trajectory : i \in DOMAIN rs}))]

\* What the metrics say of a threshold is what it allows, and its name.
LEMMA MetricsAreOfTheAllowed ==
  ASSUME NEW rs, NEW s, NEW t, NEW alpha, Allowed(rs, s) = Allowed(rs, t)
  PROVE  SameBut(decision_metrics(rs, s, alpha), decision_metrics(rs, t, alpha))
<1>1. ASSUME NEW tau
      PROVE  decision_metrics(rs, tau, alpha) = MetricsOf(rs, Allowed(rs, tau), tau, alpha)
  BY ONLY Zenon DEF decision_metrics, MetricsOf, Deferred, BadAllowed, allowed_bad_rate_or_none,
                    deferral_rate, false_deferral_rate
<1>2. ASSUME NEW A, NEW a, NEW b
      PROVE  [MetricsOf(rs, A, a, alpha) EXCEPT !.tau = b] = MetricsOf(rs, A, b, alpha)
  <2> DEFINE deferred == DOMAIN rs \ A
             caught == deferred \cap Positives(rs)
             bad == A \cap Positives(rs)
             risk == RateOr(Cardinality(bad), Cardinality(A), None)
             precision == Rate(Cardinality(caught), Cardinality(deferred))
             recall == Rate(Cardinality(caught), Cardinality(Positives(rs)))
             f1 == Cardinality(DOMAIN rs)
             f2 == Cardinality(Positives(rs))
             f3 == Cardinality(A)
             f4 == Cardinality(deferred)
             f5 == Cardinality(bad)
             f6 == risk
             f7 == IF risk = None THEN None ELSE Minus(risk, alpha)
             f8 == risk # None /\ Less(alpha, risk)
             f9 == Rate(Cardinality(deferred), Cardinality(DOMAIN rs))
             f10 == Rate(Cardinality(deferred \ Positives(rs)), Cardinality(Negatives(rs)))
             f11 == recall
             f12 == Rate(Cardinality(A \ Positives(rs)), Cardinality(Negatives(rs)))
             f13 == precision
             f14 == F1(precision, recall)
             f15 == Cardinality({rs[i].trajectory : i \in deferred})
             f16 == Rate(Cardinality(deferred), Cardinality({rs[i].trajectory : i \in DOMAIN rs}))
             Record(c) == [tau |-> c, total_rows |-> f1, positives |-> f2,
                           allowed_count |-> f3, deferred_count |-> f4, bad_allowed |-> f5,
                           allowed_bad_rate |-> f6, risk_gap |-> f7, risk_violation |-> f8,
                           deferral_rate |-> f9, false_deferral_rate |-> f10,
                           true_deferral_rate |-> f11, useful_allowed_rate |-> f12,
                           defer_precision |-> f13, defer_f1 |-> f14,
                           trajectories_with_at_least_one_defer |-> f15,
                           average_deferrals_per_trajectory |-> f16]
  <2>1. \A c : MetricsOf(rs, A, c, alpha) = Record(c)
    BY ONLY Zenon DEF MetricsOf
  <2> HIDE DEF f1, f2, f3, f4, f5, f6, f7, f8, f9, f10, f11, f12, f13, f14, f15, f16
  <2>2. [Record(a) EXCEPT !.tau = b] = Record(b)
    BY ONLY SMT
  <2> HIDE DEF Record
  <2> QED
    BY ONLY <2>1, <2>2
<1>3. decision_metrics(rs, t, alpha).tau = t
  BY ONLY Zenon DEF decision_metrics
<1> QED
  BY ONLY <1>1, <1>2, <1>3, Allowed(rs, s) = Allowed(rs, t) DEF SameBut

\* Counting as the threshold moves decides the rows as counting them afresh does.
LEMMA RunsDecideAlike ==
  ASSUME IsScored(rows), NEW alphas
  PROVE  LET strict == run_strict_alpha(Scores, alphas)
             repeated == run_repeated_strict_alpha(<<Scores>>, alphas)[1]
         IN \A c \in DOMAIN strict :
              SameBut(repeated[c]["calibration"].metrics, strict[c]["calibration"].metrics)
<1> DEFINE strict == run_strict_alpha(Scores, alphas)
           repeated == run_repeated_strict_alpha(<<Scores>>, alphas)[1]
           choices == Held(Scores) \X alphas \X BOOLEAN
           Strict(c) == select_threshold_for_alpha(c[1], Scores[c[1]]["calibration"], c[2], c[3])
           Repeated(c) == repeated_select_threshold(c[1], Scores[c[1]]["calibration"], c[2], c[3])
<1>1. strict = [c \in choices |-> OnBoth(Scores[c[1]], Strict(c), c[2])]
  BY ONLY Zenon DEF run_strict_alpha, run_thresholding
<1>2. repeated = [c \in choices |-> OnBoth(Scores[c[1]], Repeated(c), c[2])]
  <2>1. DOMAIN <<Scores>> = {1} /\ <<Scores>>[1] = Scores
    OBVIOUS
  <2> DEFINE seeds == <<Scores>>
  <2>2. DOMAIN seeds = {1} /\ seeds[1] = Scores
    BY <2>1
  <2> HIDE DEF seeds
  <2>3. run_repeated_strict_alpha(seeds, alphas)[1]
          = [c \in Held(seeds[1]) \X alphas \X BOOLEAN |->
               OnBoth(seeds[1][c[1]],
                      repeated_select_threshold(c[1], seeds[1][c[1]]["calibration"], c[2], c[3]), c[2])]
    BY ONLY <2>2, Zenon DEF run_repeated_strict_alpha
  <2>4. run_repeated_strict_alpha(seeds, alphas)[1] = [c \in choices |-> OnBoth(Scores[c[1]], Repeated(c), c[2])]
    BY ONLY <2>2, <2>3, Zenon
  <2> QED
    BY ONLY <2>4 DEF seeds
<1>3. ASSUME NEW c \in choices
      PROVE  SameBut(repeated[c]["calibration"].metrics, strict[c]["calibration"].metrics)
  <2>1. c[1] \in {"learned", "always_allow"}
    BY DEF Held, Scores
  <2>2. Scores[c[1]]["calibration"] = rows
    BY <2>1 DEF Scores
  <2>3. ASSUME NEW tau, NEW alpha
        PROVE  OnBoth(Scores[c[1]], tau, alpha)["calibration"].metrics = decision_metrics(rows, tau, alpha)
    <3>1. OnBoth(Scores[c[1]], tau, alpha)["calibration"] = evaluate_rows(rows, tau, alpha)
      BY ONLY <2>2 DEF OnBoth
    <3>2. evaluate_rows(rows, tau, alpha).metrics = decision_metrics(rows, tau, alpha)
      BY ONLY Zenon DEF evaluate_rows
    <3> QED
      BY ONLY <3>1, <3>2
  <2>4. Allowed(rows, Repeated(c)) = Allowed(rows, Strict(c))
    <3> DEFINE fixed == fixed_policy_threshold(c[1], rows)
    <3>1. /\ Strict(c) = IF fixed # None THEN fixed ELSE select_threshold(rows, c[2], c[3]).tau
          /\ Repeated(c) = IF fixed # None THEN fixed ELSE select_threshold_fast(rows, c[2], c[3]).tau
      BY ONLY <2>2, Zenon DEF select_threshold_for_alpha, repeated_select_threshold
    <3> HIDE DEF fixed, Strict, Repeated
    <3>2. Allowed(rows, select_threshold_fast(rows, c[2], c[3]).tau)
            = Allowed(rows, select_threshold(rows, c[2], c[3]).tau)
      BY SameDecisions
    <3> QED
      BY ONLY <3>1, <3>2
  <2> HIDE DEF strict, repeated, Strict, Repeated, choices
  <2>5. strict[c] = OnBoth(Scores[c[1]], Strict(c), c[2]) /\ repeated[c] = OnBoth(Scores[c[1]], Repeated(c), c[2])
    BY ONLY <1>1, <1>2, c \in choices
  <2>6. /\ strict[c]["calibration"].metrics = decision_metrics(rows, Strict(c), c[2])
        /\ repeated[c]["calibration"].metrics = decision_metrics(rows, Repeated(c), c[2])
    BY ONLY <2>3, <2>5
  <2> QED
    BY ONLY <2>4, <2>6, MetricsAreOfTheAllowed
<1>4. DOMAIN strict = choices
  <2> HIDE DEF strict, choices, Strict
  <2> QED
    BY ONLY <1>1
<1>5. \A c \in DOMAIN strict :
        SameBut(repeated[c]["calibration"].metrics, strict[c]["calibration"].metrics)
  BY ONLY <1>3, <1>4
<1> QED
  BY ONLY <1>5

\* The exhaustive choice meets its target, and what allows more rows does not.
LEMMA ChoiceMeetsTarget ==
  ASSUME NEW rs, IsScored(rs), NEW alpha, NEW conservative
  PROVE  LET Bad(tau) == Cardinality(BadAllowed(rs, tau))
             Count(tau) == Cardinality(Allowed(rs, tau))
             chosen == select_threshold(rs, alpha, conservative)
         IN /\ Meets(Bad(chosen.tau), Count(chosen.tau), alpha, conservative)
            /\ \A tau \in UniqueScores(rs) :
                 Count(tau) > Count(chosen.tau) => ~Meets(Bad(tau), Count(tau), alpha, conservative)
<1> DEFINE best == select_threshold(rs, alpha, conservative).tau
           all == candidate_thresholds(rs)
<1>1. IsBest(rs, all, alpha, conservative, best)
  BY SelectedIsBest
<1>2. UniqueScores(rs) \subseteq all
  BY CandidatesOf
<1> HIDE DEF best, all
<1>3. Meets(Cardinality(BadAllowed(rs, best)), Cardinality(Allowed(rs, best)), alpha, conservative)
  BY <1>1 DEF IsBest, Passing
<1>4. ASSUME NEW tau \in UniqueScores(rs), Cardinality(Allowed(rs, tau)) > Cardinality(Allowed(rs, best)),
             Meets(Cardinality(BadAllowed(rs, tau)), Cardinality(Allowed(rs, tau)), alpha, conservative)
      PROVE  FALSE
  <2>1. Cardinality(Allowed(rs, tau)) <= Cardinality(Allowed(rs, best))
    BY <1>1, <1>2, <1>4 DEF IsBest, Passing
  <2>2. Cardinality(Allowed(rs, tau)) \in Nat /\ Cardinality(Allowed(rs, best)) \in Nat
    BY AllowedRows
  <2> QED
    BY ONLY <1>4, <2>1, <2>2
<1> QED
  BY <1>3, <1>4 DEF best

LEMMA RoundedNat ==
  ASSUME NEW n \in Nat, NEW d \in Nat \ {0}
  PROVE  Rounded(<<n, d>>) \in Nat
<1> DEFINE low == n \div d
<1>1. low \in Nat
  OBVIOUS
<1>2. Rounded(<<n, d>>) = low \/ Rounded(<<n, d>>) = low + 1
  <2> DEFINE a == <<n, d>>
  <2>1. a[1] \div a[2] = low
    OBVIOUS
  <2> HIDE DEF a, low
  <2> QED
    BY <2>1 DEF Rounded, a
<1> QED
  BY <1>1, <1>2

LEMMA LesserOf ==
  ASSUME NEW a \in Nat, NEW b \in Nat
  PROVE  Min({a, b}) \in Nat /\ Min({a, b}) <= a /\ Min({a, b}) <= b
<1>1. {a, b} \in SUBSET Nat /\ {a, b} # {}
  OBVIOUS
<1> QED
  BY <1>1, MinOf

\* No more rows are deferred than the budget, rounded, whatever the ties.
LEMMA BudgetIsKept ==
  ASSUME NEW rs, IsScored(rs), NEW p \in Nat, NEW q \in Nat \ {0}
  PROVE  Cardinality(Deferred(rs, threshold_for_deferral_budget(rs, <<p, q>>)))
           <= Rounded(Times(<<Cardinality(DOMAIN rs), 1>>, <<p, q>>))
<1> DEFINE bag == ScoresOf(rs)
           ordered == Ascending(bag)
           n == Cardinality(DOMAIN rs)
           r == Rounded(Times(<<n, 1>>, <<p, q>>))
           d == Min({n, Max({0, r})})
           tau == threshold_for_deferral_budget(rs, <<p, q>>)
           deferred == Cardinality(Deferred(rs, tau))
<1>1. IsBag(bag) /\ n \in Nat \ {0} /\ Len(ordered) = n /\ Cardinality(bag) = n
  BY ScoresAreABag, AscendingLength
<1>2. r \in Nat
  <2>1. Times(<<n, 1>>, <<p, q>>) = <<n * p, q>>
    BY <1>1 DEF Times
  <2>2. n * p \in Nat
    BY <1>1
  <2> QED
    BY <2>1, <2>2, RoundedNat
<1>3. tau = IF d = 0 THEN AboveAll(rs) ELSE IF d = n THEN BelowAll(rs) ELSE ordered[n - d]
  <2> DEFINE m == Len(ordered)
             e == Min({m, Max({0, Rounded(Times(<<m, 1>>, <<p, q>>))})})
  <2>1. tau = CASE m = 0 -> Infinite
                [] m > 0 /\ e = 0 -> AboveAll(rs)
                [] m > 0 /\ e = m -> BelowAll(rs)
                [] OTHER -> ordered[m - e]
    BY ONLY Zenon DEF threshold_for_deferral_budget
  <2>2. m = n /\ e = d
    BY <1>1
  <2> HIDE DEF m, e, d, tau, ordered, n
  <2>3. tau = CASE n = 0 -> Infinite
                [] n > 0 /\ d = 0 -> AboveAll(rs)
                [] n > 0 /\ d = n -> BelowAll(rs)
                [] OTHER -> ordered[n - d]
    BY ONLY <2>1, <2>2
  <2>4. n # 0 /\ n > 0
    BY <1>1
  <2> QED
    BY ONLY <2>3, <2>4, <1>1
<1> HIDE DEF r
<1>4. d \in Nat /\ d <= n /\ d <= r
  <2>1. Max({0, r}) = r
    BY <1>2, MaxOf
  <2> HIDE DEF n
  <2> QED
    BY <1>1, <1>2, <2>1, LesserOf
<1> HIDE DEF d, tau, n, ordered, bag
<1>5. deferred = n - Cardinality(Allowed(rs, tau)) /\ Cardinality(Allowed(rs, tau)) \in Nat
  BY AllowedRows DEF n
<1> HIDE DEF deferred
<1>6. CASE d = 0
  <2>1. Allowed(rs, tau) = DOMAIN rs
    BY <1>3, <1>6, BelowAndAbove
  <2>2. deferred = 0
    BY <1>1, <1>5, <2>1 DEF n
  <2> QED
    BY <1>2, <2>2 DEF deferred, tau, r, n
<1>7. CASE d = n
  <2>1. deferred <= n
    BY <1>1, <1>5
  <2>2. deferred <= r
    BY <1>1, <1>2, <1>4, <1>5, <1>7, <2>1
  <2> QED
    BY <2>2 DEF deferred, tau, r, n
<1>8. CASE d # 0 /\ d # n
  <2> DEFINE A == Allowed(rs, tau)
             P == {<<i, rs[i].score>> : i \in A}
  <2>1. n - d \in 1..n /\ tau = ordered[n - d]
    BY <1>1, <1>3, <1>4, <1>8
  <2>2. n - d <= Cardinality(Within(bag, tau))
    BY <1>1, <2>1, InAscendingOrder DEF ordered
  <2>3. Within(bag, tau) = P
    BY DEF Within, bag, ScoresOf, Allowed
  <2>4. Cardinality(P) = Cardinality(A)
    <3>1. A \in SUBSET DOMAIN rs
      BY DEF Allowed
    <3> QED
      BY <3>1, PairsOfScores
  <2> HIDE DEF A, P
  <2>5. n - d <= Cardinality(A)
    BY <2>2, <2>3, <2>4
  <2>6. deferred <= r
    BY <1>1, <1>2, <1>4, <1>5, <2>5 DEF A
  <2> QED
    BY <2>6 DEF deferred, tau, r, n
<1> QED
  BY <1>6, <1>7, <1>8

(* The rows are numbered, and scored with the scores given. *)
ScoresTyped ==
  part = "rows" =>
    \E n \in Nat : /\ DOMAIN rows = 1..n
                   /\ rows # Nothing => n > 0
                   /\ \A i \in 1..n : rows[i].score \in RowScores

\* Decision rows are numbered from 1, each with a score.
THEOREM ScoredWorlds == Spec => []ScoresTyped
<1>1. Init => ScoresTyped
  <2> SUFFICES ASSUME Init, part = "rows" PROVE ScoresTyped
    BY DEF ScoresTyped
  <2>1. rows = << >> /\ DOMAIN rows = 1..0 /\ rows = Nothing
    BY DEF Init, Nothing
  <2> QED
    BY <2>1 DEF ScoresTyped
<1>2. ScoresTyped /\ [Next]_vars => ScoresTyped'
  <2> SUFFICES ASSUME ScoresTyped, [Next]_vars PROVE ScoresTyped'
    OBVIOUS
  <2>1. CASE AddRow
    <3>1. PICK n \in Nat : /\ DOMAIN rows = 1..n
                           /\ \A i \in 1..n : rows[i].score \in RowScores
      BY <2>1 DEF AddRow, ScoresTyped
    <3>2. Cardinality(DOMAIN rows) = n
      BY <3>1, FS_Interval
    <3> DEFINE m == Cardinality(DOMAIN rows)
               New(t, target, score) ==
                 DecisionRow(t, 1 + Cardinality(DOMAIN RowsOfTrajectory(rows, t)), target, score)
    <3>9. \E score \in RowScores : \E t, target :
            rows' = [i \in 1..(m + 1) |-> IF i <= m THEN rows[i] ELSE New(t, target, score)]
      BY ONLY <2>1, Zenon DEF AddRow
    <3> HIDE DEF New
    <3>3. PICK score \in RowScores : \E t, target :
            rows' = [i \in 1..(n + 1) |-> IF i <= n THEN rows[i] ELSE New(t, target, score)]
      BY ONLY <3>9, <3>2
    <3>4. DOMAIN rows' = 1..(n + 1) /\ n + 1 \in Nat /\ n + 1 > 0
      BY <3>3
    <3>5. ASSUME NEW i \in 1..(n + 1) PROVE rows'[i].score \in RowScores
      <4>1. CASE i <= n
        BY <3>1, <3>3, <4>1
      <4>2. CASE ~(i <= n)
        BY <3>3, <4>2 DEF DecisionRow, New
      <4> QED
        BY <4>1, <4>2
    <3> QED
      BY <3>4, <3>5 DEF ScoresTyped
  <2>2. CASE ~AddRow
    <3>1. rows' = rows /\ part' = part
      BY <2>2, Zenon DEF Next, Turn, Label, AddTimedRow, AddLine, vars
    <3> QED
      BY <3>1 DEF ScoresTyped
  <2> QED
    BY <2>1, <2>2
<1> QED
  BY <1>1, <1>2, PTL DEF Spec

\* Selections keep their target: counting as the threshold moves decides as counting
\* afresh does; the choice meets the target with the most rows allowed; and a budget
\* of deferrals is never exceeded.
THEOREM SelectionsKeepTargets == Spec => []SelectionsKeepTheirTarget
<1>1. ScoresTyped => SelectionsKeepTheirTarget
  <2> SUFFICES ASSUME ScoresTyped, part = "rows", rows # Nothing PROVE SelectionsKeepTheirTarget
    BY DEF SelectionsKeepTheirTarget
  <2>1. IsScored(rows)
    <3>1. PICK n \in Nat : DOMAIN rows = 1..n /\ n > 0 /\ \A i \in 1..n : rows[i].score \in RowScores
      BY DEF ScoresTyped
    <3>2. RowScores \subseteq Nat \X (Nat \ {0})
      BY WorldsAssumption DEF WorldsAssumption
    <3>3. \A i \in 1..n : IsNumber(rows[i].score)
      BY <3>1, <3>2 DEF IsNumber
    <3>4. IsFiniteSet(1..n) /\ 1 \in 1..n
      BY <3>1, FS_Interval
    <3> QED
      BY <3>1, <3>3, <3>4 DEF IsScored
  <2>2. \A b \in Budgets : \E p \in Nat, q \in Nat \ {0} : b = <<p, q>>
    BY DEF Budgets
  <2>3. ASSUME NEW b \in Budgets
        PROVE  Cardinality(Deferred(rows, threshold_for_deferral_budget(rows, b)))
                 <= Rounded(Times(<<Cardinality(DOMAIN rows), 1>>, b))
    BY <2>1, <2>2, BudgetIsKept
  <2> QED
    BY <2>1, <2>3, RunsDecideAlike, ChoiceMeetsTarget, Zenon DEF SelectionsKeepTheirTarget
<1> QED
  BY <1>1, ScoredWorlds, PTL

(***********************************************************************************)
(* Reports                                                                          *)
(***********************************************************************************)
(* Lines of tokens. *)
IsText(text) == IsSequence(text) /\ \A l \in DOMAIN text : IsSequence(text[l])

(* The lines up to each, one after another. *)
Linked(text, g) ==
  g = [i \in 1..Len(text) |-> IF i = 1 THEN text[i] ELSE g[i - 1] \o text[i]]

LEMMA LinkedExists ==
  ASSUME NEW text, IsText(text)
  PROVE  \E g : Linked(text, g)
<1> DEFINE n == Len(text)
           Up(m, g) == g = [i \in 1..m |-> IF i = 1 THEN text[i] ELSE g[i - 1] \o text[i]]
           Wrong == {m \in 0..n : ~ \E g : Up(m, g)}
<1>1. n \in Nat
  BY SequenceIsNumbered DEF IsText
<1> HIDE DEF n
<1>2. \E g : Up(0, g)
  <2> DEFINE e == [i \in 1..0 |-> text[i]]
  <2>1. e = [i \in 1..0 |-> IF i = 1 THEN text[i] ELSE e[i - 1] \o text[i]]
    OBVIOUS
  <2> HIDE DEF e
  <2>2. Up(0, e)
    BY <2>1
  <2> QED
    BY <2>2
<1>3. ASSUME NEW m \in 1..n, NEW g, Up(m - 1, g) PROVE \E h : Up(m, h)
  <2> DEFINE h == [i \in 1..m |-> IF i = m THEN (IF m = 1 THEN text[m] ELSE g[m - 1] \o text[m])
                                  ELSE g[i]]
  <2>1. ASSUME NEW i \in 1..m
        PROVE  h[i] = IF i = 1 THEN text[i] ELSE h[i - 1] \o text[i]
    <3>1. CASE i = m
      <4>1. m # 1 => m - 1 \in 1..m /\ m - 1 # m
        BY <1>1
      <4> QED
        BY <3>1, <4>1
    <3>2. CASE i # m
      <4>1. i \in 1..(m - 1) /\ (i # 1 => i - 1 \in 1..m /\ i - 1 # m)
        BY <1>1, <3>2
      <4>2. g[i] = IF i = 1 THEN text[i] ELSE g[i - 1] \o text[i]
        BY <1>3, <4>1
      <4> QED
        BY <3>2, <4>1, <4>2
    <3> QED
      BY <3>1, <3>2
  <2>2. h = [i \in 1..m |-> h[i]]
    OBVIOUS
  <2> HIDE DEF h
  <2>3. h = [i \in 1..m |-> IF i = 1 THEN text[i] ELSE h[i - 1] \o text[i]]
    BY <2>1, <2>2
  <2>4. Up(m, h)
    BY <2>3
  <2> QED
    BY <2>4
<1> HIDE DEF Up
<1>4. Wrong = {}
  <2> SUFFICES ASSUME Wrong # {} PROVE FALSE
    OBVIOUS
  <2>1. PICK m \in Wrong : \A j \in Wrong : m <= j
    <3>1. Wrong \in SUBSET Nat
      BY <1>1
    <3> HIDE DEF Wrong
    <3> QED
      BY <3>1, LeastExists
  <2>2. m \in 0..n /\ m # 0
    BY <1>2
  <2>3. m \in 1..n /\ m - 1 \in 0..n
    BY <1>1, <2>2
  <2>4. m - 1 \notin Wrong
    BY <2>1, <2>3
  <2>5. PICK g : Up(m - 1, g)
    BY <2>3, <2>4
  <2>6. \E h : Up(m, h)
    BY <1>3, <2>3, <2>5
  <2> QED
    BY <2>6
<1>5. \E g : Up(n, g)
  <2>1. n \in 0..n
    BY <1>1
  <2> QED
    BY <1>4, <2>1
<1> QED
  BY <1>5 DEF Linked, Up, n

LEMMA FlattenedBy ==
  ASSUME NEW text, IsText(text), text # << >>
  PROVE  /\ Len(text) \in Nat \ {0}
         /\ \E g : /\ FlattenSeq(text) = g[Len(text)]
                   /\ \A i \in 1..Len(text) : g[i] = IF i = 1 THEN text[1] ELSE g[i - 1] \o text[i]
<1> DEFINE n == Len(text)
           g == CHOOSE f : f = [i \in 1..n |-> IF i = 1 THEN text[i] ELSE f[i - 1] \o text[i]]
<1>1. n \in Nat \ {0}
  <2>1. text \in Seq(ToSet(text))
    BY DEF IsText, IsSequence
  <2> QED
    BY <2>1, EmptySeq
<1>2. FlattenSeq(text) = g[n]
  <2>1. n # 0
    BY <1>1
  <2> QED
    BY ONLY <2>1, Zenon DEF FlattenSeq
<1>3. g = [i \in 1..n |-> IF i = 1 THEN text[i] ELSE g[i - 1] \o text[i]]
  <2>1. \E f : f = [i \in 1..n |-> IF i = 1 THEN text[i] ELSE f[i - 1] \o text[i]]
    BY LinkedExists, Zenon DEF Linked
  <2> HIDE DEF n
  <2> QED
    BY ONLY <2>1, Zenon
<1> HIDE DEF g, n
<1>4. \A i \in 1..n : g[i] = IF i = 1 THEN text[1] ELSE g[i - 1] \o text[i]
  BY ONLY <1>3
<1> QED
  BY <1>1, <1>2, <1>4 DEF n

\* A report's tokens are those of its lines.
LEMMA FlattenedTokens ==
  ASSUME NEW text, IsText(text)
  PROVE  /\ IsSequence(FlattenSeq(text))
         /\ ToSet(FlattenSeq(text)) = UNION {ToSet(text[l]) : l \in DOMAIN text}
<1>1. CASE text = << >>
  <2>1. FlattenSeq(text) = << >>
    BY <1>1 DEF FlattenSeq
  <2>2. UNION {ToSet(text[l]) : l \in DOMAIN text} = {}
    BY <1>1
  <2> QED
    BY <2>1, <2>2, ShortSequences
<1>2. CASE text # << >>
  <2> DEFINE n == Len(text)
  <2>1. n \in Nat \ {0} /\ DOMAIN text = 1..n /\ \A l \in 1..n : IsSequence(text[l])
    BY <1>2, FlattenedBy, SequenceIsNumbered DEF IsText
  <2>2. PICK g : /\ FlattenSeq(text) = g[n]
                 /\ \A i \in 1..n : g[i] = IF i = 1 THEN text[1] ELSE g[i - 1] \o text[i]
    BY <1>2, FlattenedBy
  <2> DEFINE U(i) == UNION {ToSet(text[l]) : l \in 1..i}
             Right(i) == IsSequence(g[i]) /\ ToSet(g[i]) = U(i)
             Wrong == {i \in 1..n : ~Right(i)}
  <2> HIDE DEF n
  <2>3. Right(1)
    <3>1. 1 \in 1..n /\ 1..1 = {1}
      BY <2>1
    <3>2. U(1) = ToSet(text[1])
      BY <3>1
    <3> HIDE DEF U
    <3> QED
      BY <2>1, <2>2, <3>1, <3>2
  <2>4. ASSUME NEW i \in 2..n, Right(i - 1) PROVE Right(i)
    <3>1. i \in 1..n /\ i # 1 /\ 1..i = (1..(i - 1)) \cup {i}
      BY <2>1
    <3>2. U(i) = U(i - 1) \cup ToSet(text[i])
      BY <3>1
    <3> HIDE DEF U
    <3>3. g[i] = g[i - 1] \o text[i]
      BY <2>2, <3>1
    <3>4. IsSequence(text[i])
      BY <2>1, <3>1
    <3> QED
      BY <2>4, <3>2, <3>3, <3>4, Joined
  <2> HIDE DEF Right
  <2>5. Wrong = {}
    <3> SUFFICES ASSUME Wrong # {} PROVE FALSE
      OBVIOUS
    <3>1. PICK i \in Wrong : \A j \in Wrong : i <= j
      <4>1. Wrong \in SUBSET Nat
        BY <2>1
      <4> HIDE DEF Wrong
      <4> QED
        BY <4>1, LeastExists
    <3>2. i \in 1..n /\ i # 1 /\ ~Right(i)
      BY <2>3
    <3>3. i \in 2..n /\ i - 1 \in 1..n
      BY <2>1, <3>2
    <3>4. Right(i - 1)
      BY <3>1, <3>3
    <3> QED
      BY <2>4, <3>2, <3>3, <3>4
  <2>6. Right(n)
    <3>1. n \in 1..n
      BY <2>1
    <3> QED
      BY <2>5, <3>1
  <2> QED
    BY <2>1, <2>2, <2>6 DEF Right
<1> QED
  BY <1>1, <1>2

LEMMA AppendedLine ==
  ASSUME NEW text, IsText(text), NEW line, IsSequence(line)
  PROVE  LET longer == Append(text, line)
         IN /\ IsText(longer) /\ longer # << >>
            /\ Len(longer) = Len(text) + 1 /\ DOMAIN longer = 1..(Len(text) + 1)
            /\ longer[Len(text) + 1] = line
            /\ \A l \in DOMAIN text : longer[l] = text[l]
<1> DEFINE longer == Append(text, line)  S == ToSet(text) \cup {line}
<1>1. text \in Seq(S) /\ line \in S
  BY DEF IsText, IsSequence
<1>2. /\ Len(text) \in Nat /\ DOMAIN text = 1..Len(text)
      /\ Len(longer) = Len(text) + 1 /\ longer \in Seq(S)
      /\ longer[Len(text) + 1] = line
      /\ \A l \in 1..Len(text) : longer[l] = text[l]
  BY <1>1, AppendProperties
<1>3. DOMAIN longer = 1..(Len(text) + 1) /\ longer # << >>
  BY <1>2
<1>4. IsSequence(longer)
  BY Prolonged DEF IsText
<1>5. \A l \in DOMAIN longer : l \in DOMAIN text \/ l = Len(text) + 1
  BY <1>2, <1>3
<1> HIDE DEF longer
<1>6. IsText(longer)
  BY <1>2, <1>4, <1>5 DEF IsText
<1> QED
  BY <1>2, <1>3, <1>6 DEF longer

\* One more line goes after the tokens there were.
LEMMA FlattenedAppend ==
  ASSUME NEW text, IsText(text), text # << >>, NEW line, IsSequence(line)
  PROVE  FlattenSeq(Append(text, line)) = FlattenSeq(text) \o line
<1> DEFINE n == Len(text)  longer == Append(text, line)
<1>1. /\ n \in Nat \ {0} /\ DOMAIN text = 1..n
      /\ IsText(longer) /\ longer # << >> /\ Len(longer) = n + 1
      /\ longer[n + 1] = line /\ \A l \in 1..n : longer[l] = text[l]
  <2>1. n \in Nat \ {0}
    BY FlattenedBy
  <2>2. DOMAIN text = 1..n
    BY SequenceIsNumbered DEF IsText
  <2> QED
    BY <2>1, <2>2, AppendedLine
<1>2. PICK g : /\ FlattenSeq(text) = g[n]
               /\ \A i \in 1..n : g[i] = IF i = 1 THEN text[1] ELSE g[i - 1] \o text[i]
  BY FlattenedBy
<1> HIDE DEF longer
<1>3. PICK h : /\ FlattenSeq(longer) = h[n + 1]
               /\ \A i \in 1..(n + 1) : h[i] = IF i = 1 THEN longer[1] ELSE h[i - 1] \o longer[i]
  BY <1>1, FlattenedBy
<1> DEFINE Wrong == {i \in 1..n : h[i] # g[i]}
<1> HIDE DEF n
<1>4. Wrong = {}
  <2> SUFFICES ASSUME Wrong # {} PROVE FALSE
    OBVIOUS
  <2>1. PICK i \in Wrong : \A j \in Wrong : i <= j
    <3>1. Wrong \in SUBSET Nat
      BY <1>1
    <3> HIDE DEF Wrong
    <3> QED
      BY <3>1, LeastExists
  <2>2. i \in 1..n /\ i \in 1..(n + 1) /\ longer[i] = text[i] /\ h[i] # g[i]
    BY <1>1
  <2>3. CASE i = 1
    BY <1>2, <1>3, <2>2, <2>3
  <2>4. CASE i # 1
    <3>1. i - 1 \in 1..n /\ i - 1 \notin Wrong
      BY <1>1, <2>1, <2>2, <2>4
    <3>2. h[i - 1] = g[i - 1]
      BY <3>1
    <3> QED
      BY <1>2, <1>3, <2>2, <2>4, <3>2
  <2> QED
    BY <2>3, <2>4
<1>5. h[n] = g[n] /\ h[n + 1] = h[n] \o line
  <2>1. n \in 1..n /\ n + 1 \in 1..(n + 1) /\ n + 1 # 1 /\ (n + 1) - 1 = n
    BY <1>1
  <2> QED
    BY <1>1, <1>3, <1>4, <2>1
<1> QED
  BY <1>2, <1>3, <1>5 DEF longer

(* What is said of a stretch of tokens. *)
LEMMA InStretch ==
  ASSUME NEW line, IsSequence(line), NEW a \in 1..Len(line), NEW b \in a..Len(line), NEW Q
  PROVE  SomeOf(SubSeq(line, a, b), Q) <=> \E q \in Q : \E j \in a..b : Holds(line[j], q)
<1> DEFINE s == SubSeq(line, a, b)
<1>1. Len(line) \in Nat /\ line \in Seq(ToSet(line))
  BY SequenceIsNumbered DEF IsSequence
<1>2. DOMAIN s = 1..(b - a + 1) /\ \A i \in 1..(b - a + 1) : s[i] = line[a + i - 1]
  BY <1>1, SubSeqProperties
<1> HIDE DEF s
<1>3. \A j \in a..b : (j - a + 1) \in 1..(b - a + 1) /\ s[j - a + 1] = line[j]
  BY <1>1, <1>2
<1>4. \A i \in 1..(b - a + 1) : (a + i - 1) \in a..b /\ s[i] = line[a + i - 1]
  BY <1>1, <1>2
<1>5. ASSUME NEW q PROVE (\E i \in DOMAIN s : Holds(s[i], q)) <=> \E j \in a..b : Holds(line[j], q)
  BY <1>2, <1>3, <1>4
<1>6. SomeOf(s, Q) <=> \E q \in Q : \E i \in DOMAIN s : Holds(s[i], q)
  BY DEF SomeOf, Says, Occurrences
<1> QED
  BY <1>5, <1>6 DEF s

LEMMA Windows ==
  ASSUME NEW line, IsSequence(line), NEW i \in DOMAIN line, NEW Q
  PROVE  /\ SomeOf(Before(line, i), Q) <=>
              \E q \in Q : \E j \in DOMAIN line : j \in {i - 1, i} /\ Holds(line[j], q)
         /\ SomeOf(Around(line, i), Q) <=>
              \E q \in Q : \E j \in DOMAIN line : j \in {i - 1, i, i + 1} /\ Holds(line[j], q)
<1> DEFINE n == Len(line)  a == Max({1, i - 1})  b == Min({n, i + 1})
<1>1. n \in Nat /\ DOMAIN line = 1..n /\ i \in 1..n
  BY SequenceIsNumbered
<1>2. a = IF i = 1 THEN 1 ELSE i - 1
  BY <1>1, MaxOf
<1>3. b = IF i = n THEN n ELSE i + 1
  <2> HIDE DEF n
  <2>1. {n, i + 1} \in SUBSET Nat /\ {n, i + 1} # {}
    BY <1>1
  <2>2. b \in {n, i + 1} /\ b <= n /\ b <= i + 1
    BY <2>1, MinOf
  <2> HIDE DEF b
  <2> QED
    BY <1>1, <2>2
<1> HIDE DEF a, b, n
<1>4. a \in 1..n /\ i \in a..n /\ b \in a..n
  BY <1>1, <1>2, <1>3
<1>5. \A j : (j \in a..i <=> j \in 1..n /\ j \in {i - 1, i})
  BY <1>1, <1>2
<1>6. \A j : (j \in a..b <=> j \in 1..n /\ j \in {i - 1, i, i + 1})
  BY <1>1, <1>2, <1>3
<1>7. SomeOf(Before(line, i), Q) <=> \E q \in Q : \E j \in a..i : Holds(line[j], q)
  BY <1>4, InStretch DEF Before, a, n
<1>8. SomeOf(Around(line, i), Q) <=> \E q \in Q : \E j \in a..b : Holds(line[j], q)
  BY <1>4, InStretch DEF Around, a, b, n
<1> QED
  BY <1>1, <1>5, <1>6, <1>7, <1>8

LEMMA JoinedAt ==
  ASSUME NEW s, IsSequence(s), NEW x
  PROVE  LET longer == s \o <<x>>
         IN /\ IsSequence(longer)
            /\ DOMAIN longer = DOMAIN s \cup {Len(s) + 1} /\ Len(s) + 1 \notin DOMAIN s
            /\ longer[Len(s) + 1] = x /\ \A i \in DOMAIN s : longer[i] = s[i]
<1> DEFINE longer == s \o <<x>>  S == ToSet(s) \cup {x}
<1>1. s \in Seq(S) /\ <<x>> \in Seq(S) /\ Len(<<x>>) = 1 /\ <<x>>[1] = x
  BY DEF IsSequence
<1>2. Len(s) \in Nat /\ DOMAIN s = 1..Len(s)
  BY SequenceIsNumbered
<1>3. /\ longer \in Seq(S) /\ Len(longer) = Len(s) + 1
      /\ \A i \in 1..(Len(s) + 1) : longer[i] = IF i <= Len(s) THEN s[i] ELSE <<x>>[i - Len(s)]
  BY <1>1, ConcatProperties
<1>4. DOMAIN longer = 1..(Len(s) + 1)
  BY <1>3
<1>5. IsSequence(longer)
  BY Joined, ShortSequences
<1> HIDE DEF longer
<1>6. longer[Len(s) + 1] = x
  <2>1. Len(s) + 1 \in 1..(Len(s) + 1) /\ ~(Len(s) + 1 <= Len(s)) /\ (Len(s) + 1) - Len(s) = 1
    BY <1>2
  <2> QED
    BY <1>1, <1>3, <2>1
<1>7. \A i \in DOMAIN s : longer[i] = s[i]
  BY <1>2, <1>3
<1>8. DOMAIN longer = DOMAIN s \cup {Len(s) + 1} /\ Len(s) + 1 \notin DOMAIN s
  BY <1>2, <1>4
<1> QED
  BY <1>5, <1>6, <1>7, <1>8 DEF longer

(* What the checkers have in common: the statements they require deny what they hold, *)
(* and where a line is read as a whole, some disclaimer excuses what one may hold.    *)
Denial == {"causal prevention", "conformal guarantee"}
IsFair(c) ==
  /\ c.scope \in {"before", "around", "report", "line", "first"}
  /\ c.required \subseteq Disclaimers \cup {Source}
  /\ c.forbidden \subseteq Forbidden
  /\ \A d \in IF c.scope = "line" THEN c.required ELSE Disclaimers, p \in c.forbidden :
       Holds(d, p) => d \in c.excuse[p]
  /\ c.scope = "line" => \A p \in c.forbidden \cap Denial : c.excuse[p] \cap Disclaimers # {}

LEMMA TokensHold ==
  /\ \A d \in Disclaimers \cup {Source, "future work", "prose"}, p \in Forbidden :
       Holds(d, p) => d \in {NoCausal, NoConformal} /\ p \in Denial
  /\ \A d \in Disclaimers \cup {Source, "future work", "prose"} : ~Holds(d, "publication draft")
  /\ \A p \in Forbidden : Holds(NoCausal, p) => p \in {"causal prevention"}
  /\ \A p \in Forbidden : Holds(NoConformal, p) => p \in {"conformal guarantee"}
  /\ \A t : Holds(t, t)
  BY DEF Holds, Disclaimers, Source, NoCausal, NoConformal, NoProduction, Forbidden, Denial

(* What to look at of a checker. *)
DeniesAll(c) ==
  /\ c.scope \in {"before", "around", "report", "line", "first"}
  /\ c.required \subseteq Disclaimers \cup {Source}
  /\ c.forbidden \subseteq Forbidden
  /\ "causal prevention" \in c.forbidden => NoCausal \in c.excuse["causal prevention"]
  /\ "conformal guarantee" \in c.forbidden =>
       IF c.scope = "line" /\ NoConformal \notin c.required
       THEN c.excuse["conformal guarantee"] \cap Disclaimers # {}
       ELSE NoConformal \in c.excuse["conformal guarantee"]

LEMMA FairIf == ASSUME NEW c, DeniesAll(c) PROVE IsFair(c)
<1> USE DEF DeniesAll
<1>1. NoCausal \in Disclaimers /\ NoConformal \in Disclaimers
  BY DEF Disclaimers
<1>2. ASSUME NEW d \in IF c.scope = "line" THEN c.required ELSE Disclaimers, NEW p \in c.forbidden, Holds(d, p)
      PROVE  d \in c.excuse[p]
  <2>1. d \in Disclaimers \cup {Source} /\ p \in Forbidden
    OBVIOUS
  <2>2. d \in {NoCausal, NoConformal}
    BY <1>2, <2>1, TokensHold
  <2>3. CASE d = NoCausal
    <3>1. p = "causal prevention"
      BY <1>2, <2>1, <2>3, TokensHold
    <3> QED
      BY <2>3, <3>1
  <2>4. CASE d = NoConformal
    <3>1. p = "conformal guarantee"
      BY <1>2, <2>1, <2>4, TokensHold
    <3>2. ~(c.scope = "line" /\ NoConformal \notin c.required)
      BY <1>2, <2>4
    <3> QED
      BY <2>4, <3>1, <3>2
  <2> QED
    BY <2>2, <2>3, <2>4
<1>3. ASSUME NEW p \in c.forbidden \cap Denial PROVE c.excuse[p] \cap Disclaimers # {}
  BY <1>1 DEF Denial
<1> QED
  BY <1>2, <1>3 DEF IsFair

LEMMA EachIs ==
  ASSUME NEW S, NEW D
  PROVE  DOMAIN Each(S, D) = S /\ \A p \in S : Each(S, D)[p] = D
  BY DEF Each

\* But for that of batch 9i, the checkers are fair.
LEMMA CheckersAreFair == \A c \in Checkers \ {check_batch9i} : IsFair(c)
<1>0. NoCausal # NoConformal /\ NoConformal # NoProduction
  BY DEF NoCausal, NoConformal, NoProduction
<1>1. IsFair(check_method_claim_boundaries)
  <2> DEFINE c == check_method_claim_boundaries
             e == Each({"production guarantee", "conformal guarantee"}, Disclaimers)
  <2>1. /\ DOMAIN e \subseteq Forbidden
        /\ "causal prevention" \notin DOMAIN e
        /\ e["conformal guarantee"] = Disclaimers
    BY ONLY SMT DEF Each, Forbidden
  <2>2. c.scope = "before" /\ c.excuse = e /\ c.forbidden = DOMAIN e /\ c.required = {NoCausal, Source}
    <3>1. \E stated, closed, exits : c = Checker("before", e, {NoCausal, Source}, stated, closed, exits)
      BY ONLY Zenon DEF check_method_claim_boundaries
    <3> HIDE DEF c, e
    <3> QED
      BY ONLY <3>1 DEF Checker
  <2> HIDE DEF c, e
  <2>3. DeniesAll(c)
    BY ONLY <1>0, <2>1, <2>2 DEF DeniesAll, Disclaimers
  <2>4. IsFair(c)
    BY ONLY <2>3, FairIf
  <2> QED
    BY ONLY <2>4 DEF c
<1>2. IsFair(check_batch9h)
  <2> DEFINE c == check_batch9h
             e == Each(Forbidden \ {"theorem"}, Disclaimers)
  <2>1. /\ DOMAIN e \subseteq Forbidden
        /\ e["causal prevention"] = Disclaimers
        /\ e["conformal guarantee"] = Disclaimers
    <3>1. "causal prevention" \in Forbidden \ {"theorem"} /\ "conformal guarantee" \in Forbidden \ {"theorem"}
      BY ONLY SMT DEF Forbidden
    <3>2. Forbidden \ {"theorem"} \subseteq Forbidden
      OBVIOUS
    <3> HIDE DEF Forbidden
    <3> QED
      BY ONLY <3>1, <3>2, EachIs
  <2>2. c.scope = "before" /\ c.excuse = e /\ c.forbidden = DOMAIN e /\ c.required = {NoCausal, NoProduction, Source}
    <3>1. \E stated, closed, exits : c = Checker("before", e, {NoCausal, NoProduction, Source}, stated, closed, exits)
      BY ONLY Zenon DEF check_batch9h
    <3> HIDE DEF c, e
    <3> QED
      BY ONLY <3>1 DEF Checker
  <2> HIDE DEF c, e
  <2>3. DeniesAll(c)
    BY ONLY <1>0, <2>1, <2>2 DEF DeniesAll, Disclaimers
  <2>4. IsFair(c)
    BY ONLY <2>3, FairIf
  <2> QED
    BY ONLY <2>4 DEF c
<1>3. IsFair(check_internal_evidence_package)
  <2> DEFINE c == check_internal_evidence_package
             e == Each(Forbidden \ {"theorem"}, Disclaimers)
  <2>1. /\ DOMAIN e \subseteq Forbidden
        /\ e["causal prevention"] = Disclaimers
        /\ e["conformal guarantee"] = Disclaimers
    <3>1. "causal prevention" \in Forbidden \ {"theorem"} /\ "conformal guarantee" \in Forbidden \ {"theorem"}
      BY ONLY SMT DEF Forbidden
    <3>2. Forbidden \ {"theorem"} \subseteq Forbidden
      OBVIOUS
    <3> HIDE DEF Forbidden
    <3> QED
      BY ONLY <3>1, <3>2, EachIs
  <2>2. c.scope = "first" /\ c.excuse = e /\ c.forbidden = DOMAIN e /\ c.required = Disclaimers \cup {Source}
    <3>1. \E stated, closed, exits : c = Checker("first", e, Disclaimers \cup {Source}, stated, closed, exits)
      BY ONLY Zenon DEF check_internal_evidence_package
    <3> HIDE DEF c, e
    <3> QED
      BY ONLY <3>1 DEF Checker
  <2> HIDE DEF c, e
  <2>3. DeniesAll(c)
    BY ONLY <1>0, <2>1, <2>2 DEF DeniesAll, Disclaimers
  <2>4. IsFair(c)
    BY ONLY <2>3, FairIf
  <2> QED
    BY ONLY <2>4 DEF c
<1>4. IsFair(check_batch9j)
  <2> DEFINE c == check_batch9j
             e == Always ++ Each({"theorem"}, {}) ++ Each({"conformal guarantee", "causal prevention"}, {"future work", NoConformal, NoCausal})
  <2>1. /\ DOMAIN e \subseteq Forbidden
        /\ e["causal prevention"] = {"future work", NoConformal, NoCausal}
        /\ e["conformal guarantee"] = {"future work", NoConformal, NoCausal}
    BY ONLY SMT DEF Each, Always, ++, Forbidden
  <2>2. c.scope = "around" /\ c.excuse = e /\ c.forbidden = DOMAIN e /\ c.required = Disclaimers \cup {Source}
    <3>1. \E stated, closed, exits : c = Checker("around", e, Disclaimers \cup {Source}, stated, closed, exits)
      BY ONLY Zenon DEF check_batch9j
    <3> HIDE DEF c, e
    <3> QED
      BY ONLY <3>1 DEF Checker
  <2> HIDE DEF c, e
  <2>3. DeniesAll(c)
    BY ONLY <1>0, <2>1, <2>2 DEF DeniesAll, Disclaimers
  <2>4. IsFair(c)
    BY ONLY <2>3, FairIf
  <2> QED
    BY ONLY <2>4 DEF c
<1>5. IsFair(check_batch9k)
  <2> DEFINE c == check_batch9k
             e == Always ++ OwnDenial ++ Each({"theorem"}, {})
  <2>1. /\ DOMAIN e \subseteq Forbidden
        /\ e["causal prevention"] = {NoCausal}
        /\ e["conformal guarantee"] = {NoConformal}
    BY ONLY SMT DEF Each, Always, ++, OwnDenial, Forbidden
  <2>2. c.scope = "report" /\ c.excuse = e /\ c.forbidden = DOMAIN e /\ c.required = Disclaimers \cup {Source}
    <3>1. \E stated, closed, exits : c = Checker("report", e, Disclaimers \cup {Source}, stated, closed, exits)
      BY ONLY Zenon DEF check_batch9k, FileChecker
    <3> HIDE DEF c, e
    <3> QED
      BY ONLY <3>1 DEF Checker
  <2> HIDE DEF c, e
  <2>3. DeniesAll(c)
    BY ONLY <1>0, <2>1, <2>2 DEF DeniesAll, Disclaimers
  <2>4. IsFair(c)
    BY ONLY <2>3, FairIf
  <2> QED
    BY ONLY <2>4 DEF c
<1>6. IsFair(check_batchT1)
  <2> DEFINE c == check_batchT1
             e == Always ++ Each({"causal prevention"}, {NoCausal}) ++ Each({"conformal guarantee"}, {NoProduction}) ++ Each({"theorem"}, {"future work"})
  <2>1. /\ DOMAIN e \subseteq Forbidden
        /\ e["causal prevention"] = {NoCausal}
        /\ e["conformal guarantee"] = {NoProduction}
    BY ONLY SMT DEF Each, Always, ++, Forbidden
  <2>2. c.scope = "line" /\ c.excuse = e /\ c.forbidden = DOMAIN e /\ c.required = {NoCausal, NoProduction}
    <3>1. \E stated, closed, exits : c = Checker("line", e, {NoCausal, NoProduction}, stated, closed, exits)
      BY ONLY Zenon DEF check_batchT1, LineChecker
    <3> HIDE DEF c, e
    <3> QED
      BY ONLY <3>1 DEF Checker
  <2> HIDE DEF c, e
  <2>3. DeniesAll(c)
    BY ONLY <1>0, <2>1, <2>2 DEF DeniesAll, Disclaimers
  <2>4. IsFair(c)
    BY ONLY <2>3, FairIf
  <2> QED
    BY ONLY <2>4 DEF c
<1>7. IsFair(check_batchT2)
  <2> DEFINE c == check_batchT2
             e == Always ++ OwnDenial
  <2>1. /\ DOMAIN e \subseteq Forbidden
        /\ e["causal prevention"] = {NoCausal}
        /\ e["conformal guarantee"] = {NoConformal}
    BY ONLY SMT DEF Each, Always, ++, OwnDenial, Forbidden
  <2>2. c.scope = "line" /\ c.excuse = e /\ c.forbidden = DOMAIN e /\ c.required = Disclaimers
    <3>1. \E stated, closed, exits : c = Checker("line", e, Disclaimers, stated, closed, exits)
      BY ONLY Zenon DEF check_batchT2, LineChecker
    <3> HIDE DEF c, e
    <3> QED
      BY ONLY <3>1 DEF Checker
  <2> HIDE DEF c, e
  <2>3. DeniesAll(c)
    BY ONLY <1>0, <2>1, <2>2 DEF DeniesAll, Disclaimers
  <2>4. IsFair(c)
    BY ONLY <2>3, FairIf
  <2> QED
    BY ONLY <2>4 DEF c
<1>8. IsFair(check_batchT15)
  <2> DEFINE c == check_batchT15
             e == Always ++ OwnDenial ++ Each({"theorem"}, {"future work"})
  <2>1. /\ DOMAIN e \subseteq Forbidden
        /\ e["causal prevention"] = {NoCausal}
        /\ e["conformal guarantee"] = {NoConformal}
    BY ONLY SMT DEF Each, Always, ++, OwnDenial, Forbidden
  <2>2. c.scope = "line" /\ c.excuse = e /\ c.forbidden = DOMAIN e /\ c.required = Disclaimers
    <3>1. \E stated, closed, exits : c = Checker("line", e, Disclaimers, stated, closed, exits)
      BY ONLY Zenon DEF check_batchT15, LineChecker
    <3> HIDE DEF c, e
    <3> QED
      BY ONLY <3>1 DEF Checker
  <2> HIDE DEF c, e
  <2>3. DeniesAll(c)
    BY ONLY <1>0, <2>1, <2>2 DEF DeniesAll, Disclaimers
  <2>4. IsFair(c)
    BY ONLY <2>3, FairIf
  <2> QED
    BY ONLY <2>4 DEF c
<1> QED
  BY <1>1, <1>2, <1>3, <1>4, <1>5, <1>6, <1>7, <1>8, Zenon DEF Checkers

TokensOf(text) == UNION {ToSet(text[l]) : l \in DOMAIN text}

LEMMA SomeIs ==
  ASSUME NEW line, NEW Q
  PROVE  SomeOf(line, Q) <=> \E q \in Q : \E i \in DOMAIN line : Holds(line[i], q)
  BY DEF SomeOf, Says, Occurrences

LEMMA TextSaysIs ==
  ASSUME NEW text, IsText(text), NEW p
  PROVE  TextSays(text, p) <=> \E t \in TokensOf(text) : Holds(t, p)
<1> DEFINE flat == FlattenSeq(text)
<1>1. IsSequence(flat) /\ ToSet(flat) = TokensOf(text)
  BY FlattenedTokens DEF TokensOf
<1> HIDE DEF flat
<1>2. /\ \A k \in DOMAIN flat : flat[k] \in TokensOf(text)
      /\ \A t \in TokensOf(text) : \E k \in DOMAIN flat : t = flat[k]
  BY <1>1, SequenceIsNumbered
<1>3. TextSays(text, p) <=> \E i \in DOMAIN flat : Holds(flat[i], p)
  BY DEF TextSays, Says, Occurrences, flat
<1> QED
  BY <1>2, <1>3

\* A token that is itself an excuse excuses what it holds.
LEMMA OwnExcuse ==
  ASSUME NEW line, IsSequence(line), NEW i \in DOMAIN line, NEW Q, line[i] \in Q
  PROVE  SomeOf(line, Q) /\ SomeOf(Before(line, i), Q) /\ SomeOf(Around(line, i), Q)
<1>1. Holds(line[i], line[i])
  BY TokensHold
<1>2. SomeOf(line, Q)
  BY <1>1, SomeIs
<1>3. SomeOf(Before(line, i), Q)
  BY <1>1, Windows
<1>4. SomeOf(Around(line, i), Q)
  BY <1>1, Windows
<1> QED
  BY <1>2, <1>3, <1>4

\* The first of the places that hold a phrase is one of them.
LEMMA FirstOccurrence ==
  ASSUME NEW line, IsSequence(line), NEW p, Says(line, p)
  PROVE  LET i == Min(Occurrences(line, p)) IN i \in DOMAIN line /\ Holds(line[i], p)
<1>1. Occurrences(line, p) \in SUBSET Nat /\ Occurrences(line, p) # {}
  BY SequenceIsNumbered DEF Occurrences, Says
<1>2. Min(Occurrences(line, p)) \in Occurrences(line, p)
  BY <1>1, MinOf
<1> QED
  BY <1>2 DEF Occurrences

\* What a checker with an excuse for every token it looks at can find.
ExcusesAll(c, tokens) == \A t \in tokens, p \in c.forbidden : Holds(t, p) => t \in c.excuse[p]

LEMMA NothingFound ==
  ASSUME NEW c, NEW text, IsText(text), ExcusesAll(c, TokensOf(text)),
         c.scope \in {"before", "around", "report", "line", "first"}
  PROVE  Hits(c, text) = {}
<1> DEFINE flat == FlattenSeq(text)
<1>1. IsSequence(flat) /\ ToSet(flat) = TokensOf(text)
  BY FlattenedTokens DEF TokensOf
<1>2. \A l \in DOMAIN text : IsSequence(text[l]) /\ ToSet(text[l]) \subseteq TokensOf(text)
  BY DEF IsText, TokensOf
<1>3. ASSUME NEW line, IsSequence(line), ToSet(line) \subseteq TokensOf(text),
             NEW p \in c.forbidden, NEW i \in DOMAIN line, Holds(line[i], p)
      PROVE  /\ SomeOf(line, c.excuse[p])
             /\ SomeOf(Before(line, i), c.excuse[p])
             /\ SomeOf(Around(line, i), c.excuse[p])
  <2>1. line[i] \in TokensOf(text)
    BY <1>3, SequenceIsNumbered
  <2>2. line[i] \in c.excuse[p]
    BY <1>3, <2>1 DEF ExcusesAll
  <2> QED
    BY <1>3, <2>2, OwnExcuse
<1> HIDE DEF flat
<1>4. phrase_hits(c, text) = {}
  BY <1>1, <1>3 DEF phrase_hits, Occurrences, flat
<1>5. conditional_hit(c, text) = {}
  BY <1>1, <1>3 DEF conditional_hit, Occurrences, flat
<1>6. check_text(c, text) = {}
  BY <1>1, <1>3 DEF check_text, TextSays, Says, Occurrences, flat
<1>7. line_hits(c, text) = {}
  BY <1>2, <1>3 DEF line_hits, allowed, Says, Occurrences
<1>8. forbidden_hits(c, text) = {}
  <2>1. ASSUME NEW p \in c.forbidden, NEW l \in DOMAIN text, Says(text[l], p)
        PROVE  SomeOf(Around(text[l], Min(Occurrences(text[l], p))), c.excuse[p])
    BY <1>2, <1>3, <2>1, FirstOccurrence
  <2> QED
    BY <2>1 DEF forbidden_hits
<1> QED
  BY <1>4, <1>5, <1>6, <1>7, <1>8 DEF Hits

\* A full report and lines of one token after it.
IsGrown(text) ==
  /\ IsText(text) /\ Len(text) >= 3
  /\ \A l \in 1..3 : text[l] = FullReport[l]
  /\ \A l \in DOMAIN text : l > 3 => \E t \in Tokens : text[l] = <<t>>

LEMMA FullReportIs ==
  /\ Len(FullReport) = 3 /\ DOMAIN FullReport = 1..3 /\ IsGrown(FullReport)
  /\ FullReport[1] = <<Source>> /\ FullReport[3] = <<"prose">>
  /\ IsSequence(FullReport[2]) /\ ToSet(FullReport[2]) = Disclaimers
<1>1. /\ Len(FullReport) = 3 /\ DOMAIN FullReport = 1..3
      /\ FullReport[1] = <<Source>> /\ FullReport[3] = <<"prose">>
      /\ FullReport[2] = <<NoCausal, NoConformal, NoProduction>>
  BY DEF FullReport
<1>2. \A s : s = <<NoCausal, NoConformal, NoProduction>> =>
        DOMAIN s = 1..3 /\ s \in Seq(Disclaimers) /\ ToSet(s) = Disclaimers
  <2> SUFFICES ASSUME NEW s, s = <<NoCausal, NoConformal, NoProduction>>
               PROVE  DOMAIN s = 1..3 /\ s \in Seq(Disclaimers) /\ ToSet(s) = Disclaimers
    OBVIOUS
  <2>1. /\ DOMAIN s = 1..3 /\ 1..3 = {1, 2, 3}
        /\ s[1] = NoCausal /\ s[2] = NoConformal /\ s[3] = NoProduction
    OBVIOUS
  <2>2. ToSet(s) = Disclaimers
    BY <2>1 DEF ToSet, Disclaimers
  <2>3. s \in Seq(Disclaimers)
    BY DEF Disclaimers
  <2> QED
    BY <2>1, <2>2, <2>3
<1>3. IsSequence(FullReport[2]) /\ ToSet(FullReport[2]) = Disclaimers
  BY <1>1, <1>2 DEF IsSequence
<1>4. IsSequence(FullReport[1]) /\ IsSequence(FullReport[3])
  BY <1>1, ShortSequences
<1>5. IsSequence(FullReport)
  <2>1. ToSet(FullReport) = {FullReport[l] : l \in 1..3}
    BY <1>1 DEF ToSet
  <2>2. FullReport \in Seq({FullReport[l] : l \in 1..3})
    <3>1. ASSUME NEW s, NEW a, NEW b, NEW c, s = <<a, b, c>>
          PROVE  s \in Seq({s[l] : l \in 1..3})
      BY <3>1
    <3>2. \E a, b, c : FullReport = <<a, b, c>>
      BY Zenon DEF FullReport
    <3> QED
      BY ONLY <3>1, <3>2, Zenon
  <2> QED
    BY <2>1, <2>2 DEF IsSequence
<1>6. IsText(FullReport)
  <2>1. \A l \in 1..3 : l = 1 \/ l = 2 \/ l = 3
    OBVIOUS
  <2>2. DOMAIN FullReport = 1..3
    BY <1>1
  <2>3. \A l \in DOMAIN FullReport : IsSequence(FullReport[l])
    BY ONLY <1>3, <1>4, <2>1, <2>2
  <2> QED
    BY ONLY <1>5, <2>3 DEF IsText
<1>7. IsGrown(FullReport)
  <2>1. DOMAIN FullReport = 1..3 /\ Len(FullReport) = 3
    BY <1>1
  <2> QED
    BY ONLY <1>6, <2>1 DEF IsGrown
<1> QED
  BY ONLY <1>1, <1>3, <1>7

\* It is neither missing nor a document, and it states whatever is required.
LEMMA GrownReports ==
  ASSUME NEW text, IsGrown(text)
  PROVE  /\ text \notin {Absent, Document} /\ text # << >>
         /\ \A c \in Disclaimers \cup {Source} : TextSays(text, c)
<1>1. Len(text) >= 3 /\ DOMAIN text = 1..Len(text) /\ Len(text) \in Nat
  BY SequenceIsNumbered DEF IsGrown, IsText
<1>2. Len(Absent) = 1 /\ Len(Document) = 1 /\ Len(<< >>) = 0
  BY DEF Absent, Document
<1>3. text \notin {Absent, Document} /\ text # << >>
  <2>1. ~(1 >= 3) /\ ~(0 >= 3)
    OBVIOUS
  <2>2. text # Absent /\ text # Document /\ text # << >>
    BY ONLY <1>1, <1>2, <2>1, Zenon
  <2> QED
    BY <2>2
<1>4. 1 \in DOMAIN text /\ 2 \in DOMAIN text
  BY <1>1
<1>5. text[1] = <<Source>> /\ ToSet(text[2]) = Disclaimers
  BY FullReportIs DEF IsGrown
<1>6. Disclaimers \cup {Source} \subseteq TokensOf(text)
  BY <1>4, <1>5, ShortSequences DEF TokensOf
<1>7. ASSUME NEW c \in Disclaimers \cup {Source} PROVE TextSays(text, c)
  <2>1. Holds(c, c)
    BY TokensHold
  <2> QED
    BY <1>6, <2>1, TextSaysIs DEF IsGrown
<1> QED
  BY <1>3, <1>7

\* The tokens of a report whose added lines a checker requires or does not mind.
DeniesIn(c, text) == \A l \in DOMAIN text : l > Len(FullReport) => text[l][1] \in c.required \cup Harmless

LEMMA DenyingLines ==
  ASSUME NEW c, c.required \subseteq Disclaimers \cup {Source}, NEW text, IsGrown(text), DeniesIn(c, text),
         NEW l \in DOMAIN text
  PROVE  /\ l = 2 => ToSet(text[l]) = Disclaimers
         /\ l # 2 => ToSet(text[l]) \subseteq c.required \cup Harmless
<1>1. DOMAIN text = 1..Len(text) /\ Len(text) \in Nat
  BY SequenceIsNumbered DEF IsGrown, IsText
<1>2. CASE l > 3
  <2>1. PICK t : text[l] = <<t>>
    BY <1>2 DEF IsGrown
  <2>2. text[l][1] = t /\ ToSet(text[l]) = {t}
    BY <2>1, ShortSequences
  <2>3. t \in c.required \cup Harmless
    BY <1>2, <2>2, FullReportIs DEF DeniesIn
  <2> QED
    BY <1>2, <2>2, <2>3
<1>3. CASE ~(l > 3)
  <2>1. l \in 1..3 /\ (l = 1 \/ l = 2 \/ l = 3)
    BY <1>1, <1>3
  <2>2. text[l] = FullReport[l]
    BY <2>1 DEF IsGrown
  <2>3. ToSet(<<Source>>) = {Source} /\ ToSet(<<"prose">>) = {"prose"}
    BY ShortSequences
  <2> QED
    BY <2>1, <2>2, <2>3, FullReportIs DEF Harmless
<1> QED
  BY <1>2, <1>3

\* In such a report a fair checker finds nothing.
LEMMA DenialsFound ==
  ASSUME NEW c, IsFair(c), NEW text, IsGrown(text), DeniesIn(c, text)
  PROVE  Hits(c, text) = {} /\ ~TextSays(text, "publication draft")
<1>0. /\ c.scope \in {"before", "around", "report", "line", "first"}
      /\ c.required \subseteq Disclaimers \cup {Source} /\ c.forbidden \subseteq Forbidden
      /\ \A d \in IF c.scope = "line" THEN c.required ELSE Disclaimers, p \in c.forbidden :
           Holds(d, p) => d \in c.excuse[p]
      /\ c.scope = "line" => \A p \in c.forbidden \cap Denial : c.excuse[p] \cap Disclaimers # {}
  BY DEF IsFair
<1>1. \A l \in DOMAIN text :
        /\ l = 2 => ToSet(text[l]) = Disclaimers
        /\ l # 2 => ToSet(text[l]) \subseteq c.required \cup Harmless
  BY <1>0, DenyingLines
<1>2. TokensOf(text) \subseteq Disclaimers \cup {Source, "future work", "prose"}
  BY <1>0, <1>1 DEF TokensOf, Harmless
<1>3. ~TextSays(text, "publication draft")
  BY <1>2, TextSaysIs, TokensHold DEF IsGrown
<1>4. \A t \in TokensOf(text), p \in c.forbidden : Holds(t, p) => t \in {NoCausal, NoConformal} /\ p \in Denial
  BY <1>0, <1>2, TokensHold
<1>5. {NoCausal, NoConformal} \subseteq Disclaimers /\ {NoCausal, NoConformal} \cap Harmless = {}
  BY DEF Disclaimers, Harmless, NoCausal, NoConformal, Source
<1>6. CASE c.scope # "line"
  <2>1. ExcusesAll(c, TokensOf(text))
    BY <1>0, <1>4, <1>5, <1>6 DEF ExcusesAll
  <2> QED
    BY <1>0, <1>3, <2>1, NothingFound DEF IsGrown
<1>7. CASE c.scope = "line"
  <2>1. ASSUME NEW p \in c.forbidden, NEW l \in DOMAIN text, Says(text[l], p)
        PROVE  SomeOf(text[l], c.excuse[p])
    <3>1. IsSequence(text[l])
      BY DEF IsGrown, IsText
    <3>2. PICK i \in DOMAIN text[l] : Holds(text[l][i], p)
      BY <2>1 DEF Says, Occurrences
    <3>3. text[l][i] \in ToSet(text[l]) /\ text[l][i] \in TokensOf(text)
      BY <3>1, <3>2, SequenceIsNumbered DEF TokensOf
    <3>4. text[l][i] \in {NoCausal, NoConformal} /\ p \in Denial
      BY <1>4, <3>2, <3>3
    <3>5. \E k \in DOMAIN text[l] : text[l][k] \in c.excuse[p]
      <4>1. CASE l # 2
        <5>1. text[l][i] \in c.required
          BY <1>1, <1>5, <3>3, <3>4, <4>1
        <5> QED
          BY <1>0, <1>7, <3>2, <5>1
      <4>2. CASE l = 2
        <5>1. PICK d \in Disclaimers : d \in c.excuse[p]
          BY <1>0, <1>7, <3>4
        <5>2. d \in ToSet(text[l])
          BY <1>1, <4>2
        <5> QED
          BY <3>1, <5>1, <5>2, SequenceIsNumbered
      <4> QED
        BY <4>1, <4>2
    <3> QED
      BY <3>1, <3>5, OwnExcuse
  <2>2. line_hits(c, text) = {}
    BY <2>1 DEF line_hits, allowed
  <2> QED
    BY <1>3, <1>7, <2>2 DEF Hits
<1> QED
  BY <1>6, <1>7

LEMMA AddedTokens ==
  ASSUME NEW text, IsText(text), NEW t
  PROVE  IsText(Append(text, <<t>>)) /\ TokensOf(Append(text, <<t>>)) = TokensOf(text) \cup {t}
<1> DEFINE longer == Append(text, <<t>>)
<1>1. /\ IsText(longer) /\ DOMAIN longer = 1..(Len(text) + 1) /\ longer[Len(text) + 1] = <<t>>
      /\ \A l \in DOMAIN text : longer[l] = text[l]
  BY AppendedLine, ShortSequences
<1>2. DOMAIN text = 1..Len(text) /\ Len(text) \in Nat
  BY SequenceIsNumbered DEF IsText
<1>3. DOMAIN longer = DOMAIN text \cup {Len(text) + 1}
  BY <1>1, <1>2
<1>4. ToSet(longer[Len(text) + 1]) = {t}
  BY <1>1, ShortSequences
<1> HIDE DEF longer
<1>5. TokensOf(longer) = TokensOf(text) \cup {t}
  BY <1>1, <1>3, <1>4 DEF TokensOf
<1> QED
  BY <1>1, <1>5 DEF longer

\* The windows of a longer line hold what they held, and the last of them the new token.
LEMMA WiderWindows ==
  ASSUME NEW line, IsSequence(line), NEW t, NEW Q
  PROVE  LET longer == line \o <<t>>
         IN /\ SomeOf(line, Q) \/ t \in Q => SomeOf(longer, Q)
            /\ \A i \in DOMAIN line :
                 /\ SomeOf(Before(line, i), Q) => SomeOf(Before(longer, i), Q)
                 /\ SomeOf(Around(line, i), Q) => SomeOf(Around(longer, i), Q)
            /\ t \in Q => /\ SomeOf(Before(longer, Len(line) + 1), Q)
                          /\ SomeOf(Around(longer, Len(line) + 1), Q)
<1> DEFINE longer == line \o <<t>>
<1>1. /\ IsSequence(longer)
      /\ DOMAIN longer = DOMAIN line \cup {Len(line) + 1}
      /\ longer[Len(line) + 1] = t /\ \A i \in DOMAIN line : longer[i] = line[i]
  BY JoinedAt
<1> HIDE DEF longer
<1>2. t \in Q => /\ SomeOf(longer, Q)
                 /\ SomeOf(Before(longer, Len(line) + 1), Q)
                 /\ SomeOf(Around(longer, Len(line) + 1), Q)
  BY <1>1, OwnExcuse
<1>3. SomeOf(line, Q) => SomeOf(longer, Q)
  BY <1>1, SomeIs
<1>4. ASSUME NEW i \in DOMAIN line, SomeOf(Before(line, i), Q) PROVE SomeOf(Before(longer, i), Q)
  <2>1. PICK q \in Q : \E j \in DOMAIN line : j \in {i - 1, i} /\ Holds(line[j], q)
    BY <1>4, Windows
  <2>2. \E j \in DOMAIN longer : j \in {i - 1, i} /\ Holds(longer[j], q)
    BY <1>1, <2>1
  <2>3. i \in DOMAIN longer
    BY <1>1
  <2> QED
    BY <1>1, <2>2, <2>3, Windows
<1>5. ASSUME NEW i \in DOMAIN line, SomeOf(Around(line, i), Q) PROVE SomeOf(Around(longer, i), Q)
  <2>1. PICK q \in Q : \E j \in DOMAIN line : j \in {i - 1, i, i + 1} /\ Holds(line[j], q)
    BY <1>5, Windows
  <2>2. \E j \in DOMAIN longer : j \in {i - 1, i, i + 1} /\ Holds(longer[j], q)
    BY <1>1, <2>1
  <2>3. i \in DOMAIN longer
    BY <1>1
  <2> QED
    BY <1>1, <2>2, <2>3, Windows
<1> QED
  BY <1>2, <1>3, <1>4, <1>5 DEF longer

\* A line with a statement the checker requires brings it nothing to find.
LEMMA NothingBrought ==
  ASSUME NEW c, IsFair(c), NEW text, IsText(text), text # << >>, NEW t \in c.required, Hits(c, text) = {}
  PROVE  Hits(c, Append(text, <<t>>)) = {}
<1> DEFINE longer == Append(text, <<t>>)
           flat == FlattenSeq(text)
           wider == flat \o <<t>>
<1>1. /\ c.scope \in {"before", "around", "report", "line", "first"}
      /\ \A p \in c.forbidden : Holds(t, p) => t \in c.excuse[p]
  <2>1. /\ c.scope \in {"before", "around", "report", "line", "first"}
        /\ c.required \subseteq Disclaimers \cup {Source} /\ c.forbidden \subseteq Forbidden
        /\ \A d \in IF c.scope = "line" THEN c.required ELSE Disclaimers, p \in c.forbidden :
             Holds(d, p) => d \in c.excuse[p]
    BY DEF IsFair
  <2>2. ASSUME NEW p \in c.forbidden, Holds(t, p) PROVE t \in c.excuse[p]
    <3>1. t \in Disclaimers \cup {Source} /\ p \in Forbidden
      BY <2>1
    <3>2. t \in {NoCausal, NoConformal}
      BY <2>2, <3>1, TokensHold
    <3>3. t \in Disclaimers
      BY <3>2 DEF Disclaimers
    <3> QED
      BY <2>1, <2>2, <3>3
  <2> QED
    BY <2>1, <2>2
<1>2. /\ IsSequence(flat) /\ FlattenSeq(longer) = wider
      /\ DOMAIN wider = DOMAIN flat \cup {Len(flat) + 1}
      /\ wider[Len(flat) + 1] = t /\ \A i \in DOMAIN flat : wider[i] = flat[i]
  <2>1. IsSequence(flat)
    BY FlattenedTokens
  <2>2. FlattenSeq(longer) = wider
    BY FlattenedAppend, ShortSequences
  <2> HIDE DEF flat
  <2> QED
    BY <2>1, <2>2, JoinedAt
<1>3. \A Q : /\ SomeOf(flat, Q) \/ t \in Q => SomeOf(wider, Q)
             /\ \A i \in DOMAIN flat :
                  /\ SomeOf(Before(flat, i), Q) => SomeOf(Before(wider, i), Q)
                  /\ SomeOf(Around(flat, i), Q) => SomeOf(Around(wider, i), Q)
             /\ t \in Q => /\ SomeOf(Before(wider, Len(flat) + 1), Q)
                           /\ SomeOf(Around(wider, Len(flat) + 1), Q)
  <2> HIDE DEF flat
  <2> QED
    BY <1>2, WiderWindows
<1>4. /\ DOMAIN longer = DOMAIN text \cup {Len(text) + 1} /\ longer[Len(text) + 1] = <<t>>
      /\ \A l \in DOMAIN text : longer[l] = text[l]
  <2>1. DOMAIN text = 1..Len(text) /\ Len(text) \in Nat
    BY SequenceIsNumbered DEF IsText
  <2>2. /\ DOMAIN longer = 1..(Len(text) + 1) /\ longer[Len(text) + 1] = <<t>>
        /\ \A l \in DOMAIN text : longer[l] = text[l]
    BY AppendedLine, ShortSequences
  <2> HIDE DEF longer
  <2> QED
    BY <2>1, <2>2
<1>5. IsSequence(<<t>>) /\ DOMAIN <<t>> = {1} /\ <<t>>[1] = t
  BY ShortSequences
<1> HIDE DEF longer, flat, wider
<1>6. CASE c.scope = "before"
  <2>1. \A p \in c.forbidden, i \in DOMAIN flat : Holds(flat[i], p) => SomeOf(Before(flat, i), c.excuse[p])
    BY <1>6 DEF Hits, phrase_hits, Occurrences, flat
  <2>2. \A p \in c.forbidden, i \in DOMAIN wider : Holds(wider[i], p) => SomeOf(Before(wider, i), c.excuse[p])
    BY <1>1, <1>2, <1>3, <2>1
  <2>3. phrase_hits(c, longer) = {}
    BY <1>2, <2>2 DEF phrase_hits, Occurrences
  <2> QED
    BY <1>6, <2>3 DEF Hits, longer
<1>7. CASE c.scope = "around"
  <2>1. \A p \in c.forbidden, i \in DOMAIN flat : Holds(flat[i], p) => SomeOf(Around(flat, i), c.excuse[p])
    BY <1>7 DEF Hits, conditional_hit, Occurrences, flat
  <2>2. \A p \in c.forbidden, i \in DOMAIN wider : Holds(wider[i], p) => SomeOf(Around(wider, i), c.excuse[p])
    BY <1>1, <1>2, <1>3, <2>1
  <2>3. conditional_hit(c, longer) = {}
    BY <1>2, <2>2 DEF conditional_hit, Occurrences
  <2> QED
    BY <1>7, <2>3 DEF Hits, longer
<1>8. CASE c.scope = "report"
  <2>1. \A p \in c.forbidden, i \in DOMAIN flat : Holds(flat[i], p) => SomeOf(flat, c.excuse[p])
    BY <1>8 DEF Hits, check_text, TextSays, Says, Occurrences, flat
  <2>2. \A p \in c.forbidden, i \in DOMAIN wider : Holds(wider[i], p) => SomeOf(wider, c.excuse[p])
    BY <1>1, <1>2, <1>3, <2>1
  <2>3. check_text(c, longer) = {}
    BY <1>2, <2>2 DEF check_text, TextSays, Says, Occurrences
  <2> QED
    BY <1>8, <2>3 DEF Hits, longer
<1>9. CASE c.scope = "line"
  <2>1. \A p \in c.forbidden, l \in DOMAIN text : Says(text[l], p) => SomeOf(text[l], c.excuse[p])
    BY <1>9 DEF Hits, line_hits, allowed
  <2>2. ASSUME NEW p \in c.forbidden, Says(<<t>>, p) PROVE SomeOf(<<t>>, c.excuse[p])
    <3>1. Holds(t, p)
      BY <1>5, <2>2 DEF Says, Occurrences
    <3> QED
      BY <1>1, <1>5, <3>1, OwnExcuse
  <2>3. \A p \in c.forbidden, l \in DOMAIN longer : Says(longer[l], p) => SomeOf(longer[l], c.excuse[p])
    BY <1>4, <2>1, <2>2
  <2>4. line_hits(c, longer) = {}
    BY <2>3 DEF line_hits, allowed
  <2> QED
    BY <1>9, <2>4 DEF Hits, longer
<1>10. CASE c.scope = "first"
  <2> DEFINE At(line, p) == Around(line, Min(Occurrences(line, p)))
  <2>1. \A p \in c.forbidden, l \in DOMAIN text : Says(text[l], p) => SomeOf(At(text[l], p), c.excuse[p])
    BY <1>10 DEF Hits, forbidden_hits
  <2>2. ASSUME NEW p \in c.forbidden, Says(<<t>>, p) PROVE SomeOf(At(<<t>>, p), c.excuse[p])
    <3>1. Min(Occurrences(<<t>>, p)) = 1 /\ Holds(t, p)
      BY <1>5, <2>2, FirstOccurrence
    <3>2. SomeOf(Around(<<t>>, 1), c.excuse[p])
      BY <1>1, <1>5, <3>1, OwnExcuse
    <3> QED
      BY <3>1, <3>2
  <2> HIDE DEF At
  <2>3. \A p \in c.forbidden, l \in DOMAIN longer : Says(longer[l], p) => SomeOf(At(longer[l], p), c.excuse[p])
    BY <1>4, <2>1, <2>2
  <2>4. forbidden_hits(c, longer) = {}
    BY <2>3 DEF forbidden_hits, At
  <2> QED
    BY <1>10, <2>4 DEF Hits, longer
<1> QED
  BY <1>1, <1>6, <1>7, <1>8, <1>9, <1>10 DEF longer

\* On full reports, a fair checker's verdict is about what it finds in each.
LEMMA PassedIs ==
  ASSUME NEW c, IsFair(c), NEW reports, ReportFiles # {}, \A f \in ReportFiles : IsGrown(reports[f])
  PROVE  Passed(c, reports) <=>
           /\ \A f \in ReportFiles : Hits(c, reports[f]) = {}
           /\ c = check_internal_evidence_package =>
                \A f \in ReportFiles : ~TextSays(reports[f], "publication draft")
<1>1. Existing(reports) = ReportFiles /\ \A f \in ReportFiles : reports[f] # Document
  BY GrownReports DEF Existing
<1>2. \A f \in ReportFiles, s \in c.required : TextSays(reports[f], s)
  BY GrownReports DEF IsFair
<1>3. MissingConcepts(c, reports) = {}
  BY <1>1, <1>2 DEF MissingConcepts
<1>4. check_package(reports) <=> \A f \in ReportFiles : ~TextSays(reports[f], "publication draft")
  BY <1>1 DEF check_package
<1> QED
  BY <1>1, <1>3, <1>4 DEF Passed

LEMMA GrownByALine ==
  ASSUME NEW text, IsGrown(text), NEW t \in Tokens
  PROVE  IsGrown(Append(text, <<t>>)) /\ Last(Append(text, <<t>>)) = <<t>>
<1> DEFINE longer == Append(text, <<t>>)
<1>1. DOMAIN text = 1..Len(text) /\ Len(text) \in Nat /\ Len(text) >= 3
  BY SequenceIsNumbered DEF IsGrown, IsText
<1>2. /\ IsText(longer) /\ Len(longer) = Len(text) + 1 /\ DOMAIN longer = 1..(Len(text) + 1)
      /\ longer[Len(text) + 1] = <<t>>
      /\ \A l \in DOMAIN text : longer[l] = text[l]
  BY AppendedLine, ShortSequences DEF IsGrown
<1> HIDE DEF longer
<1>3. \A l \in 1..3 : longer[l] = FullReport[l]
  BY <1>1, <1>2 DEF IsGrown
<1>4. ASSUME NEW l \in DOMAIN longer, l > 3 PROVE \E u \in Tokens : longer[l] = <<u>>
  <2>1. CASE l \in DOMAIN text
    BY <1>2, <1>4, <2>1 DEF IsGrown
  <2>2. CASE l \notin DOMAIN text
    <3>1. l = Len(text) + 1
      BY <1>1, <1>2, <2>2
    <3> QED
      BY <1>2, <3>1
  <2> QED
    BY <2>1, <2>2
<1>5. IsGrown(longer)
  BY <1>1, <1>2, <1>3, <1>4 DEF IsGrown
<1>6. Last(longer) = <<t>>
  BY <1>2 DEF Last
<1> QED
  BY <1>5, <1>6 DEF longer

ReportsTyped ==
  part = "claims" => DOMAIN corpus = ReportFiles /\ \A f \in ReportFiles : IsGrown(corpus[f])

\* What a step does to the reports.
LEMMA AddedLine ==
  ASSUME ReportsTyped, part = "claims", AddLine
  PROVE  /\ part' = "claims" /\ DOMAIN corpus' = ReportFiles
         /\ \E f \in ReportFiles, t \in Tokens :
              /\ corpus'[f] = Append(corpus[f], <<t>>)
              /\ \A g \in ReportFiles \ {f} : corpus'[g] = corpus[g]
<1>1. DOMAIN corpus = ReportFiles
  BY DEF ReportsTyped
<1>2. PICK f \in ReportFiles, line \in Lines : corpus' = [corpus EXCEPT ![f] = Append(@, line)]
  BY DEF AddLine
<1>3. PICK t \in Tokens : line = <<t>>
  BY DEF Lines
<1>4. DOMAIN corpus' = ReportFiles /\ corpus'[f] = Append(corpus[f], <<t>>)
  BY <1>1, <1>2, <1>3
<1>5. \A g \in ReportFiles \ {f} : corpus'[g] = corpus[g]
  BY <1>1, <1>2
<1>6. part' = "claims"
  BY DEF AddLine
<1> QED
  BY <1>4, <1>5, <1>6

LEMMA ReportsTypeOK == Spec => []ReportsTyped
<1>1. Init => ReportsTyped
  BY FullReportIs DEF Init, ReportsTyped
<1>2. ReportsTyped /\ [Next]_vars => ReportsTyped'
  <2> SUFFICES ASSUME ReportsTyped, [Next]_vars PROVE ReportsTyped'
    OBVIOUS
  <2>1. CASE AddLine
    <3>1. part = "claims"
      BY <2>1 DEF AddLine
    <3>2. /\ part' = "claims" /\ DOMAIN corpus' = ReportFiles
          /\ \E f \in ReportFiles, t \in Tokens :
               /\ corpus'[f] = Append(corpus[f], <<t>>)
               /\ \A g \in ReportFiles \ {f} : corpus'[g] = corpus[g]
      BY <2>1, <3>1, AddedLine
    <3>3. \A f \in ReportFiles : IsGrown(corpus[f])
      BY <3>1 DEF ReportsTyped
    <3>4. ASSUME NEW g \in ReportFiles PROVE IsGrown(corpus'[g])
      <4>1. PICK f \in ReportFiles, t \in Tokens :
              /\ corpus'[f] = Append(corpus[f], <<t>>)
              /\ \A h \in ReportFiles \ {f} : corpus'[h] = corpus[h]
        BY <3>2
      <4>2. IsGrown(Append(corpus[f], <<t>>))
        BY <3>3, GrownByALine
      <4> QED
        BY <3>3, <4>1, <4>2
    <3> QED
      BY <3>2, <3>4 DEF ReportsTyped
  <2>2. CASE ~AddLine
    <3>1. corpus' = corpus /\ part' = part
      BY <2>2, Zenon DEF Next, Turn, Label, AddRow, AddTimedRow, vars
    <3> QED
      BY <3>1 DEF ReportsTyped
  <2> QED
    BY <2>1, <2>2
<1> QED
  BY <1>1, <1>2, PTL DEF Spec

\* A line added to full reports: what it means for a fair checker.
LEMMA FairVerdicts ==
  ASSUME ReportsTyped, part = "claims", AddLine, NEW c, IsFair(c)
  PROVE  /\ (\A f \in ReportFiles : Denies(c, f)) => Passed(c, corpus)
         /\ \A f \in ReportFiles :
              /\ corpus'[f] # corpus[f]
              /\ Last(corpus'[f])[1] \in c.required
              /\ Passed(c, corpus)
              => Passed(c, corpus')
<1>1. PICK f \in ReportFiles, t \in Tokens :
              /\ corpus'[f] = Append(corpus[f], <<t>>)
              /\ \A g \in ReportFiles \ {f} : corpus'[g] = corpus[g]
  BY AddedLine
<1>2. ReportFiles # {} /\ \A g \in ReportFiles : IsGrown(corpus[g])
  BY <1>1 DEF ReportsTyped
<1>3. Last(corpus'[f]) = <<t>> /\ \A g \in ReportFiles : IsGrown(corpus'[g])
  BY <1>1, <1>2, GrownByALine
<1>4. ASSUME NEW reports, \A g \in ReportFiles : IsGrown(reports[g])
      PROVE  Passed(c, reports) <=>
               /\ \A g \in ReportFiles : Hits(c, reports[g]) = {}
               /\ c = check_internal_evidence_package =>
                    \A g \in ReportFiles : ~TextSays(reports[g], "publication draft")
  BY <1>2, <1>4, PassedIs
<1>5. ASSUME \A g \in ReportFiles : Denies(c, g) PROVE Passed(c, corpus)
  <2>1. \A g \in ReportFiles : DeniesIn(c, corpus[g])
    BY <1>5 DEF Denies, DeniesIn
  <2>2. \A g \in ReportFiles : Hits(c, corpus[g]) = {} /\ ~TextSays(corpus[g], "publication draft")
    BY <1>2, <2>1, DenialsFound
  <2> QED
    BY <1>2, <1>4, <2>2
<1>6. ASSUME NEW g \in ReportFiles, corpus'[g] # corpus[g], Last(corpus'[g])[1] \in c.required,
             Passed(c, corpus)
      PROVE  Passed(c, corpus')
  <2>1. g = f /\ <<t>>[1] = t
    BY <1>1, <1>6
  <2>2. t \in c.required /\ t \in Disclaimers \cup {Source}
    BY <1>3, <1>6, <2>1 DEF IsFair
  <2>3. /\ \A h \in ReportFiles : Hits(c, corpus[h]) = {}
        /\ c = check_internal_evidence_package =>
             \A h \in ReportFiles : ~TextSays(corpus[h], "publication draft")
    BY <1>2, <1>4, <1>6
  <2>4. IsText(corpus[f]) /\ corpus[f] # << >>
    BY <1>2, GrownReports DEF IsGrown
  <2>5. Hits(c, corpus'[f]) = {}
    BY <1>1, <2>2, <2>3, <2>4, NothingBrought
  <2>6. ~TextSays(corpus[f], "publication draft") => ~TextSays(corpus'[f], "publication draft")
    <3>1. IsText(corpus'[f]) /\ TokensOf(corpus'[f]) = TokensOf(corpus[f]) \cup {t}
      BY <1>1, <2>4, AddedTokens
    <3>2. ~Holds(t, "publication draft")
      BY <2>2, TokensHold
    <3> QED
      BY <2>4, <3>1, <3>2, TextSaysIs
  <2>7. /\ \A h \in ReportFiles : Hits(c, corpus'[h]) = {}
        /\ c = check_internal_evidence_package =>
             \A h \in ReportFiles : ~TextSays(corpus'[h], "publication draft")
    BY <1>1, <2>3, <2>5, <2>6
  <2> QED
    BY <1>3, <1>4, <2>7
<1> QED
  BY <1>5, <1>6

\* The statements a checker requires never cost reports its verdict, however many a
\* report has of them and wherever they stand.
THEOREM DisclaimersStand == Spec => DisclaimersNeverHurt
<1>1. ASSUME ReportsTyped, [Next]_vars
      PROVE  [part = "claims" =>
                \A checker \in Checkers \ {check_batch9i} :
                  /\ (\A f \in ReportFiles : Denies(checker, f)) => Passed(checker, corpus)
                  /\ \A f \in ReportFiles :
                       /\ corpus'[f] # corpus[f]
                       /\ Last(corpus'[f])[1] \in checker.required
                       /\ Passed(checker, corpus)
                       => Passed(checker, corpus')]_vars
  <2> SUFFICES ASSUME Next, part = "claims", NEW checker \in Checkers \ {check_batch9i}
               PROVE  /\ (\A f \in ReportFiles : Denies(checker, f)) => Passed(checker, corpus)
                      /\ \A f \in ReportFiles :
                           /\ corpus'[f] # corpus[f]
                           /\ Last(corpus'[f])[1] \in checker.required
                           /\ Passed(checker, corpus)
                           => Passed(checker, corpus')
    BY <1>1
  <2>1. AddLine
    BY DEF Next, Turn, Label, AddRow, AddTimedRow
  <2>2. IsFair(checker)
    BY CheckersAreFair
  <2> QED
    BY <1>1, <2>1, <2>2, FairVerdicts
<1> QED
  BY <1>1, ReportsTypeOK, PTL DEF Spec, DisclaimersNeverHurt
=====================================================================================
