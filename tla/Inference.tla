----------------------------- MODULE Inference -----------------------------
(***************************************************************************)
(* The statistics of a run: what each planned episode contributes under    *)
(* the predeclared failure and missing policies, the effect and the        *)
(* permutation test of each contrast under the three designs, Holm's       *)
(* adjustment, and when a result may call itself confirmatory.             *)
(*                                                                         *)
(* Values are those of a binary metric whose adverse value is 0.           *)
(* Probabilities are fractions <<n, d>>, effects integers scaled by the    *)
(* group sizes, which a relabelling within strata does not change, so that *)
(* they are compared exactly; the code compares floats with a tolerance of *)
(* 1e-15.  A document asks for `permutations` draws, which is also the     *)
(* largest number of relabelings a test enumerates; the documents checked  *)
(* ask for fewer than the hundred a real one must, as their data are few.  *)
(***************************************************************************)
EXTENDS StudyDesign, Combinatorics

CONSTANTS
  Observable,   \* bound: the drafts whose data are enumerated
  SmallRun,     \* bound: a run of so many trials may lose all of them,
  MaxOrbit,     \* bound: relabelings of a contrast whose test is examined
  MaxLost       \* bound: a larger run so many, failed or unscored

VARIABLES
  data,         \* the observation of each planned episode
  results       \* for each contrast, its analysis
vars == <<stage, study, plan, valid, data, results>>

Failed == -2    \* not completed, whatever its metric
Missing == -1   \* completed without a metric value

-----------------------------------------------------------------------------
(* The rows of a contrast and their values under the policies.             *)

Relevant(c) == {o \in Ordinals : plan[o].arm \in {c[1], c[2]}}
Lost(c, kind) == Cardinality({o \in Relevant(c) : data[o] = kind})

Policy(o) == IF data[o] = Failed THEN study.failure ELSE study.missing
Value(o) ==
  IF data[o] \in {0, 1} THEN data[o] ELSE IF Policy(o) = "value" THEN 1 ELSE 0
HasValue(o) == data[o] \in {0, 1} \/ Policy(o) \in {"value", "worst_case"}

(* missing_policy = error refuses the whole analysis.                      *)
Raises == study.missing = "error" /\ \E c \in study.contrasts : Lost(c, Missing) > 0

(* Labels are exchanged within a stratum: the condition, the block, or the *)
(* comparison set, where exchanging the two labels flips the sign of the   *)
(* difference.                                                             *)
Stratum(o) ==
  CASE study.design = "matched_pair" -> plan[o].set
    [] study.design = "block" -> plan[o].block
    [] OTHER -> plan[o].condition

(* What is analysed: complete pairs, complete blocks, or every value; its  *)
(* rows, those of the treatment, those with value 1, and the strata.       *)
Analysed(c) ==
  LET V == {o \in Relevant(c) : HasValue(o)}
      groups(rows) == {{o \in rows : Stratum(o) = g} : g \in {Stratum(o) : o \in rows}}
      complete(B) == {plan[o].arm : o \in B} = {c[1], c[2]}
      kept == IF study.design = "full_factorial" THEN V
              ELSE UNION {B \in groups(V) : complete(B)}
  IN  [rows |-> kept, groups |-> groups(kept),
       treated |-> {o \in kept : plan[o].arm = c[1]},
       ones |-> {o \in kept : Value(o) = 1}]

(* The effect of treating T: the difference of means, over pairs the same, *)
(* over blocks weighted by the smaller group.  36 is a multiple of every   *)
(* product of two group sizes up to three.                                 *)
Difference(T, C, ones) ==
  Cardinality(T \cap ones) * Cardinality(C) - Cardinality(C \cap ones) * Cardinality(T)
Effect(T, A) ==
  IF study.design # "block" THEN Difference(T, A.rows \ T, A.ones)
  ELSE LET part(B) ==
             LET nT == Cardinality(T \cap B)
                 nC == Cardinality(B \ T)
             IN  (Min({nT, nC}) * 36 * Difference(T \cap B, B \ T, A.ones)) \div (nT * nC)
       IN  SumFunction([B \in A.groups |-> part(B)])

Magnitude(x) == IF x < 0 THEN -x ELSE x
Relabelings(A) ==
  {S \in SUBSET A.rows :
     \A B \in A.groups : Cardinality(S \cap B) = Cardinality(A.treated \cap B)}

\* mutant: only larger effects count, not the observed one
ExceedsOnly(x, observed) == Magnitude(x) > Magnitude(observed)
IsExtreme(x, observed) == Magnitude(x) >= Magnitude(observed)
Extremes(A) ==
  LET observed == Effect(A.treated, A)
  IN  Cardinality({S \in Relabelings(A) : IsExtreme(Effect(S, A), observed)})

(* Few relabelings are enumerated.  Of many, a number is drawn; how many   *)
(* draws are extreme is chance, and the observed labels count as one more. *)
\* mutant: the observed labels are not counted
DrawnUncounted(k) == <<k, study.permutations>>
Drawn(k) == <<k + 1, study.permutations + 1>>
Exact(A) == Cardinality(Relabelings(A)) <= study.permutations
PValues(A) ==
  IF Exact(A) THEN {<<Extremes(A), Cardinality(Relabelings(A))>>}
  ELSE {Drawn(k) :
          k \in IF Extremes(A) = Cardinality(Relabelings(A)) THEN {study.permutations}
                ELSE 0..study.permutations}

(* A contrast needs two complete units, or two values in each arm.         *)
Enough(A) == Cardinality(A.treated) >= 2 /\ Cardinality(A.rows \ A.treated) >= 2

\* mutant: values lost to a policy are not held against the result
Uncensored(c) == TRUE
NothingCensored(c) ==
  /\ study.failure = "missing" => Lost(c, Failed) = 0
  /\ study.missing \in {"descriptive", "error"} => Lost(c, Missing) = 0

AnalyseContrast(c) ==
  LET A == Analysed(c)
  IN  {[status |-> IF Enough(A) THEN "completed" ELSE "descriptive_only",
        planned |-> Cardinality(Relevant(c)),
        valid |-> Cardinality(A.rows),
        p |-> p,
        confirmatory |-> Enough(A) /\ valid /\ NothingCensored(c)] :
          p \in IF Enough(A) THEN PValues(A) ELSE {<<1, 1>>}}

-----------------------------------------------------------------------------
(* holm_adjust over the p-values of a family, here the completed contrasts *)
(* of the study: sorted, multiplied by the number that remains, capped at  *)
(* one and made monotone by a running maximum.                             *)

AtMost(p, q) == p[1] * q[2] <= q[1] * p[2]
Larger(p, q) == IF AtMost(p, q) THEN q ELSE p
Smaller(p, q) == IF AtMost(p, q) THEN p ELSE q

(* The candidate of a p-value with k of the family remaining.              *)
\* mutant: the cap at one is left out
CandidateUncapped(k, q) == <<k * q[1], q[2]>>
Candidate(k, q) == Smaller(<<1, 1>>, <<k * q[1], q[2]>>)

\* mutant: the running maximum is left out
LastOf(candidates, i) == candidates[i]
RunningMaximum(candidates, i) ==
  candidates[CHOOSE j \in 1..i : \A k \in 1..i : AtMost(candidates[k], candidates[j])]

Ascending(p, order) ==
  \A i, j \in DOMAIN order : i < j => AtMost(p[order[i]], p[order[j]])
Holm(p) ==
  LET n == Cardinality(DOMAIN p)
      order == CHOOSE o \in SetToSeqs(DOMAIN p) : Ascending(p, o)
      candidates == [i \in 1..n |-> Candidate(n - i + 1, p[order[i]])]
  IN  [c \in DOMAIN p |->
         RunningMaximum(candidates, CHOOSE i \in 1..n : order[i] = c)]

Completed(r) == {c \in DOMAIN r : r[c].status = "completed"}

-----------------------------------------------------------------------------
Init == DesignInit /\ data = <<>> /\ results = <<>>

Design == (Load \/ NoConditions \/ Seeded) /\ UNCHANGED <<data, results>>

(* The run of one representative plan of each study is observed and        *)
(* analysed; which seed ordered it makes no difference to the rows.        *)
Canonical == plan = Trials(study, [g \in Strata(study) |-> 0], InOrder(study))

Observe ==
  /\ stage = "compiled" /\ Canonical /\ study \in Observable
  /\ \E n \in 0..(IF Len(plan) <= SmallRun THEN Len(plan) ELSE MaxLost) : \E L \in kSubset(n, Ordinals) :
       \E loss \in [L -> {Failed, Missing}], v \in [Ordinals \ L -> {0, 1}] :
         data' = [o \in Ordinals |-> IF o \in L THEN loss[o] ELSE v[o]]
  /\ stage' = "observed"
  /\ UNCHANGED <<study, plan, valid, results>>

Analyse ==
  /\ stage = "observed"
  /\ IF Raises THEN stage' = "unanalysed" /\ UNCHANGED results
     ELSE LET possible == [c \in study.contrasts |-> AnalyseContrast(c)]
          IN  /\ stage' = "analysed"
              /\ results' \in {r \in [study.contrasts -> UNION Range(possible)] :
                                \A c \in study.contrasts : r[c] \in possible[c]}
  /\ UNCHANGED <<study, plan, valid, data>>

Next == Design \/ Observe \/ Analyse
Spec == Init /\ [][Next]_vars

-----------------------------------------------------------------------------
(* A contrast that calls itself confirmatory used every planned episode:   *)
(* none was dropped by a policy, a broken pair or an incomplete block.     *)
ConfirmatoryMeansNothingLost ==
  \A c \in DOMAIN results :
    results[c].confirmatory =>
      results[c].status = "completed" /\ results[c].valid = results[c].planned

(* Were every relabelling within the strata equally likely, the test would *)
(* report a p-value as small as this one with at most that probability,    *)
(* whatever was lost and however unequal the groups became.                *)
EnumeratedTestIsValid ==
  \A c \in Completed(results) :
    LET A == Analysed(c)
        R == Relabelings(A)
        p == results[c].p
    IN  /\ A.treated \in R
        /\ Exact(A) /\ Cardinality(R) <= MaxOrbit =>
             /\ p[2] = Cardinality(R)
             /\ Cardinality({S \in R : Extremes([A EXCEPT !.treated = S]) <= p[1]}) <= p[1]

(* For draws the probability is over the observed labels, x[0], and the    *)
(* draws, x[1] to x[n]: each of them is any relabelling.                   *)
DrawsKeepLevel(A, p) ==
  LET n == study.permutations
      effect == [S \in Relabelings(A) |-> Effect(S, A)]
      chances == [0..n -> Relabelings(A)]
      extreme(x) == {i \in 1..n : IsExtreme(effect[x[i]], effect[x[0]])}
  IN  p[2] * Cardinality({x \in chances : AtMost(Drawn(Cardinality(extreme(x))), p)})
        <= p[1] * Cardinality(chances)
DrawnTestIsValid ==
  \A c \in Completed(results) :
    LET A == Analysed(c)
    IN  ~Exact(A) /\ Cardinality(Relabelings(A)) <= MaxOrbit => DrawsKeepLevel(A, results[c].p)

(* Both tests keep the level they promise.                                 *)
PermutationTestIsValid == EnumeratedTestIsValid /\ DrawnTestIsValid

(* Holm's adjustment is the closed test built from Bonferroni's: at every  *)
(* level below one a contrast is significant exactly if every family that  *)
(* contains it is, ties included, and no adjusted p-value exceeds one.     *)
(* Both sides change only at the levels listed: an adjusted p-value or one *)
(* of a family's Bonferroni bounds.                                        *)
Bonferroni(k, q) == <<k * q[1], q[2]>>
Significant(p, F, level) == \E d \in F : AtMost(Bonferroni(Cardinality(F), p[d]), level)
AgreesAt(p, adjusted, level) ==
  level[1] < level[2] =>
    \A c \in DOMAIN p :
      AtMost(adjusted[c], level) <=> \A F \in SUBSET DOMAIN p : c \in F => Significant(p, F, level)
Levels(p, adjusted) ==
  {adjusted[c] : c \in DOMAIN p}
    \cup {Bonferroni(x[1], p[x[2]]) : x \in (1..Cardinality(DOMAIN p)) \X DOMAIN p}
HolmIsClosedTesting ==
  LET p == [c \in Completed(results) |-> results[c].p]
      adjusted == Holm(p)
  IN  /\ \A c \in DOMAIN p : AtMost(adjusted[c], <<1, 1>>)
      /\ \A level \in Levels(p, adjusted) : AgreesAt(p, adjusted, level)
=============================================================================
