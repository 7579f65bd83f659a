---------------------------- MODULE FuzzSchedule ----------------------------
(***************************************************************************)
(* What the fuzzing hooks promise: afl_custom_fuzz_count announces, for a  *)
(* test case, how many mutations of each kind will be made, and the calls  *)
(* of afl_custom_fuzz that follow make exactly these, kind after kind,     *)
(* before the next test case is announced.                                 *)
(***************************************************************************)
EXTENDS Naturals

Kinds == 0..3    \* rules, random, random recursive, splicing mutation

VARIABLES
  promised,      \* [Kinds -> Nat], announced for the current test case
  performed      \* [Kinds -> Nat], made since then

sched == <<promised, performed>>

Nothing == [k \in Kinds |-> 0]

Init == promised = Nothing /\ performed = Nothing

(* The next test case, only when all that was promised has been done.      *)
Announce ==
  /\ performed = promised
  /\ promised' \in [Kinds -> Nat]
  /\ performed' = Nothing

Perform(k) ==
  /\ performed[k] < promised[k]
  /\ \A j \in 0..(k-1) : performed[j] = promised[j]
  /\ performed' = [performed EXCEPT ![k] = @ + 1]
  /\ UNCHANGED promised

Mutate == \E k \in Kinds : Perform(k)

Steps == Init /\ [][Announce \/ Mutate]_sched
Spec == Steps /\ WF_sched(Mutate)
=============================================================================
