---------------------------- MODULE FuzzHistory ----------------------------
(***************************************************************************)
(* Fuzzing with history variables: what has been done to the current tree. *)
(***************************************************************************)
EXTENDS Fuzzing

VARIABLES
  performed,     \* [0..3 -> Nat]: mutations made of each kind
  tried          \* <<node, rule>> pairs that rules mutation has tried

history == <<performed, tried>>
hvars == <<vars, history>>

HInit == Init /\ performed = [k \in 0..3 |-> 0] /\ tried = {}

HFuzzCount == FuzzCount /\ performed' = [k \in 0..3 |-> 0] /\ tried' = {}

HFuzz == /\ Fuzz
         /\ performed' = [performed EXCEPT ![stage] = @ + 1]
         /\ tried' = IF stage = 0 THEN tried \cup {<<rules_node, rules_rule>>} ELSE tried

HFuzzStep == HFuzzCount \/ HFuzz \/ ((NotInteresting \/ QueueNewEntry) /\ UNCHANGED history)

HNext == \/ HFuzzStep
         \/ ((\E e \in Entries : QueueGet(e)) \/ Finished) /\ UNCHANGED history

(* The custom mutator stage runs in one thread of afl-fuzz and always      *)
(* takes its next step; when it takes up a new entry is left open.         *)
HSpec == HInit /\ [][HNext]_hvars
HFairSpec == HSpec /\ WF_hvars(HFuzzStep)

-----------------------------------------------------------------------------
(* The rule replacements of every node, by another of its symbol's rules.  *)
Replacements ==
  UNION {{<<i, r>> : r \in OtherRules(i, 0)} : i \in DOMAIN tree_cur}

(* Rules mutation does not repeat itself: the walk over nodes and rules,   *)
(* continued from call to call, never comes back to a pair.                *)
RulesTriedOnce ==
  pc = "fuzz" /\ stage = 0 => <<rules_node, rules_rule>> \notin tried

(* When the rules stage is over, the number of pairs it tried is the one   *)
(* that rules_mutation_count announced, and for a tree without parse       *)
(* errors these are all pairs (doc: "deterministic rules mutation").       *)
RulesStageComplete ==
  pc \in {"fuzz", "target", "idle"} /\ stage > 0 /\ tree_cur # <<>> =>
    /\ tried \subseteq Replacements
    /\ Cardinality(tried) = total[0]
    /\ (\A i \in DOMAIN tree_cur : tree_cur[i].rule # NoRule) => tried = Replacements

(* The hooks keep the schedule that fuzz_count announces.                  *)
Schedule == INSTANCE FuzzSchedule WITH promised <- total, performed <- performed
SchedulePerformed == Schedule!Spec

(* README.md: RANDOM_MUTATION_STEPS is "the number of random mutations".   *)
RandomStepsHonoured == performed[1] <= config[1]
=============================================================================
