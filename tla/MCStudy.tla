---- MODULE MCStudy ----
(* Every small design with one pair of policies, and every pair of         *)
(* policies on the designs whose data are enumerated.                      *)
EXTENDS Inference
Document(m, st, k, g, a, r, c, b, pr, cs, f, mi, bd, n) ==
  [mode |-> m, policy |-> st, concurrency |-> k, design |-> g, arms |-> a, repeats |-> r,
   conditions |-> c, blocks |-> b, primary |-> pr, contrasts |-> cs,
   failure |-> f, missing |-> mi, bounded |-> bd, permutations |-> n]
Modes == {"exploratory", "confirmatory"}
Designs == {"full_factorial", "matched_pair", "block"}
Gate == {Document(m, st, k, g, a, r, c, b, pr, cs, "worst_case", "error", bd, 36) :
           m \in Modes, st \in {"independent", "carry_forward", "branch"}, k \in 1..2, g \in Designs,
           a \in 1..3, r \in 1..3, c \in 0..2, b \in {0, 2}, pr \in BOOLEAN,
           cs \in {{}, {<<2, 1>>}}, bd \in BOOLEAN}

Small == {Document(m, "independent", 1, x[1], 2, x[2], x[3], x[4], TRUE, {<<2, 1>>}, f, mi, TRUE, n) :
            n \in {3, 36}, m \in Modes, f \in {"value", "worst_case", "missing"},
            mi \in {"value", "worst_case", "descriptive", "error"},
            x \in {<<"full_factorial", 2, 1, 0>>, <<"full_factorial", 1, 2, 0>>,
                   <<"matched_pair", 2, 1, 0>>, <<"block", 1, 1, 2>>}}
Blocked == {Document("confirmatory", "independent", 1, "block", 2, 2, 1, 2, TRUE, {<<2, 1>>},
                     f, mi, TRUE, 36) :
              f \in {"worst_case", "missing"}, mi \in {"value", "descriptive"}}
Family == {Document("exploratory", "independent", 1, "full_factorial", 3, 3, 1, 0, TRUE,
                    {<<2, 1>>, <<3, 1>>, <<3, 2>>}, "missing", "descriptive", TRUE, 36)}
ObservedStudies == Small \cup Blocked \cup Family
Documents == Gate \cup ObservedStudies
====
