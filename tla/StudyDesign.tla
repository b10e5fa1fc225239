---------------------------- MODULE StudyDesign ----------------------------
(***************************************************************************)
(* From a study document to a frozen trial plan: the semantic checks of    *)
(* StudySpec, compile_study (comparison sets, balanced rotation, shuffled  *)
(* order, dispatch batches), design_diagnostics and the checks a TrialPlan *)
(* makes of itself whenever it is read.                                    *)
(*                                                                         *)
(* Arms are numbers (prompts sorted by id); a contrast is a pair           *)
(* <<treatment, control>> on the one outcome.  The hashes that seed the    *)
(* rotation of a stratum and the order of the sets are free choices.       *)
(***************************************************************************)
EXTENDS Naturals, Integers, FiniteSets, Sequences, FiniteSetsExt, SequencesExt

CONSTANTS
  Drafts,       \* the study documents considered
  MaxShuffled   \* bound: longest list of sets tried in every order

(* The ranges the document's fields are declared with.                     *)
ASSUME DraftsAssumption ==
  \A s \in Drafts :
    /\ s.arms \in Nat /\ s.conditions \in Nat /\ s.blocks \in Nat
    /\ s.repeats \in Nat \ {0} /\ s.concurrency \in Nat \ {0} /\ s.permutations \in Nat \ {0}
    /\ IsFiniteSet(s.contrasts)
    /\ s.design \in {"full_factorial", "matched_pair", "block"}
    /\ s.failure \in {"value", "worst_case", "missing"}
    /\ s.missing \in {"value", "worst_case", "descriptive", "error"}

VARIABLES
  stage,        \* draft, accepted or rejected, compiled or refused, observed, analysed
  study,        \* the study document
  valid,        \* its diagnostics call the design valid for confirmation
  plan          \* the compiled trials in dispatch order

Independent(s) == s.policy = "independent"
CarriesForward(s) == s.policy = "carry_forward"

(* A policy that needs the adverse bound finds it in the metric.           *)
PoliciesAreExplicit(s) == "worst_case" \in {s.failure, s.missing} => s.bounded

(* StudySpec.validate_semantics and the validators of its parts.           *)
\* mutant: repeats need not balance the positions
AcceptsUnbalanced(s) ==
  /\ s.arms >= 1
  /\ CarriesForward(s) => s.concurrency = 1
  /\ s.design = "matched_pair" => s.arms = 2
  /\ s.design = "block" => s.blocks # 0
  /\ \A c \in s.contrasts : c[1] # c[2] /\ c[1] \in 1..s.arms /\ c[2] \in 1..s.arms
  /\ PoliciesAreExplicit(s)
  /\ s.mode = "confirmatory" =>
       /\ Independent(s) /\ s.concurrency = 1
       /\ s.primary /\ s.contrasts # {}
       /\ s.arms >= 2
Accepts(s) ==
  /\ AcceptsUnbalanced(s)
  /\ s.mode = "confirmatory" => s.repeats % s.arms = 0

-----------------------------------------------------------------------------
(* compile_study.  One comparison set per block, condition and repetition; *)
(* within a stratum the first arm moves on by one with each repetition.    *)

Blocks(s) == IF s.design = "block" THEN s.blocks ELSE 1
Strata(s) == 1..(Blocks(s) * s.conditions)
SetsOf(s) == 1..(Blocks(s) * s.conditions * s.repeats)
StratumOf(s, set) == ((set - 1) \div s.repeats) + 1
Repetition(s, set) == ((set - 1) % s.repeats) + 1

\* mutant: the first arm of a stratum stays first
NoRotation(s, base, set) == base[StratumOf(s, set)]
Rotation(s, base, set) == base[StratumOf(s, set)] + Repetition(s, set) - 1

(* Trial o of the list: its set, its arm and the batch it is planned for.  *)
Trials(s, base, order) ==
  [o \in 1..(Len(order) * s.arms) |->
     LET set == order[((o - 1) \div s.arms) + 1]
         position == ((o - 1) % s.arms) + 1
     IN  [set |-> set,
          condition |-> StratumOf(s, set) % s.conditions,
          block |-> IF s.design = "block"
                    THEN ((StratumOf(s, set) - 1) \div s.conditions) + 1 ELSE 0,
          arm |-> ((Rotation(s, base, set) + position - 1) % s.arms) + 1,
          position |-> position,
          batch |-> ((o - 1) \div s.concurrency) + 1,
          parent |-> IF CarriesForward(s) THEN o - 1 ELSE 0]]

Confirmatory == study.mode = "confirmatory"
Ordinals == DOMAIN plan
Arms == {plan[o].arm : o \in Ordinals}
InSet(set) == {o \in Ordinals : plan[o].set = set}
Times(a, position) ==
  Cardinality({o \in Ordinals : plan[o].arm = a /\ plan[o].position = position})

SetsComplete ==
  \A o \in Ordinals :
    LET S == InSet(plan[o].set)
    IN  Cardinality(S) = Cardinality(Arms) /\ {plan[i].arm : i \in S} = Arms

(* Every arm is at every position, and each equally often.                 *)
PositionsBalanced ==
  LET n == Cardinality(Arms)
  IN  \A a \in Arms :
        /\ \A i \in Ordinals : plan[i].arm = a => plan[i].position \in 1..n
        /\ \A i, j \in 1..n : Times(a, i) = Times(a, j) /\ Times(a, i) > 0

Declared(s) == Independent(s) /\ s.concurrency = 1 /\ s.primary /\ s.contrasts # {}

(* design_diagnostics, and TrialPlan.supported_and_complete with the       *)
(* design already called valid.                                            *)
DesignIsValid == SetsComplete /\ PositionsBalanced /\ Declared(study)
PlanIsAccepted ==
  /\ \A c \in study.contrasts : c[1] \in Arms /\ c[2] \in Arms
  /\ Confirmatory =>
       /\ Declared(study) /\ SetsComplete /\ PositionsBalanced
       /\ study.design = "block" => \A o \in Ordinals : plan[o].block # 0

-----------------------------------------------------------------------------
DesignInit == stage = "draft" /\ study \in Drafts /\ plan = <<>> /\ valid = FALSE

Load ==
  /\ stage = "draft"
  /\ stage' = IF Accepts(study) THEN "accepted" ELSE "rejected"
  /\ UNCHANGED <<study, plan, valid>>

(* Every order of a short list, of a longer one its order of construction  *)
(* and the reverse.                                                        *)
InOrder(s) == [i \in SetsOf(s) |-> i]
Orders(s) ==
  IF Cardinality(SetsOf(s)) <= MaxShuffled THEN SetToSeqs(SetsOf(s))
  ELSE {InOrder(s), Reverse(InOrder(s))}

Compile(base, order) ==
  /\ stage = "accepted"
  /\ UNCHANGED study
  /\ plan' = Trials(study, base, order)
  /\ valid' = (Confirmatory /\ DesignIsValid')
  /\ stage' = IF PlanIsAccepted' /\ (Confirmatory => valid') THEN "compiled" ELSE "refused"

(* A factor without values passes the document's checks.                   *)
NoConditions ==
  /\ stage = "accepted" /\ study.conditions = 0
  /\ stage' = "uncompilable"
  /\ UNCHANGED <<study, plan, valid>>

Seeded ==
  study.conditions # 0 /\
  \E base \in [Strata(study) -> 0..(study.arms - 1)] :
    \E order \in Orders(study) : Compile(base, order)

-----------------------------------------------------------------------------
(* The confirmatory gate is decided by the document alone: the plan of a   *)
(* study it lets through passes the design diagnostics and the plan's own  *)
(* checks for every seed, however it rotates and shuffles the sets.        *)
ConfirmatoryStudiesCompile == stage # "refused"
=============================================================================
