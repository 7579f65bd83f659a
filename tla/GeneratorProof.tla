----------------------------- MODULE GeneratorProof -----------------------------
(***************************************************************************)
(* The generated functions keep to their budget, for every grammar file    *)
(* and every max_tree_len: the rules a call draws from are those that fit, *)
(* and at any moment the text made, the budget left and the shortest texts *)
(* still to come make up max_len, at every level of the recursion, which   *)
(* ends.                                                                   *)
(***************************************************************************)
EXTENDS Generator, GrammarCostProof

(* The build's part of the invariant.                                      *)
BuildInv == CostInv /\ Tabling /\ Origin /\ Parsing /\ Pooling

LEMMA InitBuildInv == BuildInit => BuildInv
BY InitCostInv, InitTabling, InitParsing, InitPooling DEF BuildInv

LEMMA NextBuildInv == BuildInv /\ [Build]_buildVars => BuildInv'
BY NextCostInv, NextTabling, NextOrigin, NextParsing, NextPooling DEF BuildInv

-----------------------------------------------------------------------------
(* What the tables say of rule i of key k.                                 *)
Res(r, from) == SumOver(SubSeq(r.keys, from, Len(r.keys)), key_cost)

LEMMA TabledFacts ==
  ASSUME BuildInv, pc = "ready", NEW k \in Keys
  PROVE  /\ cost[k] \in Seq(Entry) /\ Len(cost[k]) \in Nat /\ Len(cost[k]) > 0
         /\ Ascending(cost[k])
         /\ DOMAIN cost[k] = 1..Len(cost[k])
         /\ grammar.rules[k] \in Seq(FileRules(file))
         /\ Len(grammar.rules[k]) = Len(cost[k])
         /\ DOMAIN grammar.rules[k] = 1..Len(grammar.rules[k])
         /\ MinCost(k) = key_cost[k] /\ key_cost[k] \in Nat
         /\ \A i \in 1..Len(cost[k]) : cost[k][i].cost \in Nat
<1>1. /\ cost[k] \in Seq(Entry) /\ Len(cost[k]) > 0 /\ Ascending(cost[k])
      /\ DOMAIN grammar.rules[k] = 1..Len(cost[k])
      /\ k \in DOMAIN key_cost /\ cost[k][1].cost = key_cost[k]
  BY DEF BuildInv, Tabling, Tabled
<1>2. Reading /\ IsTable(key_cost)
  BY DEF BuildInv, CostInv, Costing
<1>3. grammar.rules[k] \in Seq(FileRules(file)) /\ Len(grammar.rules[k]) \in Nat
      /\ DOMAIN grammar.rules[k] = 1..Len(grammar.rules[k])
  BY <1>2, GrammarTyping
<1>4. Len(cost[k]) \in Nat /\ \A i \in 1..Len(cost[k]) : cost[k][i].cost \in Nat
  BY <1>1, EntryTyping
<1>5. Len(grammar.rules[k]) = Len(cost[k])
  <2> DEFINE a == Len(grammar.rules[k])
             b == Len(cost[k])
  <2>1. a \in Nat /\ b \in Nat /\ 1..a = 1..b
    BY <1>1, <1>3, <1>4
  <2> HIDE DEF a, b
  <2>2. a = b
    <3>1. a <= b
      <4> SUFFICES ASSUME a > b PROVE FALSE
        BY <2>1
      <4>1. a \in 1..a /\ a \notin 1..b
        BY <2>1
      <4> QED BY <2>1, <4>1
    <3>2. b <= a
      <4> SUFFICES ASSUME b > a PROVE FALSE
        BY <2>1
      <4>1. b \in 1..b /\ b \notin 1..a
        BY <2>1
      <4> QED BY <2>1, <4>1
    <3> QED BY <2>1, <3>1, <3>2
  <2> QED BY <2>2 DEF a, b
<1>6. key_cost[k] \in Nat
  BY <1>1, <1>2 DEF IsTable
<1>7. DOMAIN cost[k] = 1..Len(cost[k])
  <2> DEFINE S == Entry
  <2>1. cost[k] \in Seq(S)
    BY <1>1
  <2> HIDE DEF S
  <2> QED BY <2>1
<1> QED BY <1>1, <1>3, <1>4, <1>5, <1>6, <1>7 DEF MinCost

LEMMA RuleFacts ==
  ASSUME BuildInv, pc = "ready", NEW k \in Keys, NEW i \in 1..Len(grammar.rules[k]),
         NEW r, r = grammar.rules[k][i]
  PROVE  /\ r.text \in Nat /\ Len(r.keys) \in Nat
         /\ \A n \in 1..Len(r.keys) : r.keys[n] \in Keys /\ key_cost[r.keys[n]] \in Nat
         /\ HasCost(r, key_cost) /\ r \in FileRules(file) /\ IsTable(key_cost)
         /\ cost[k][i].cost = r.text + SumSeq(Weights(r, key_cost))
<1> DEFINE R == FileRules(file)
           s == grammar.rules[k]
<1>1. s \in Seq(R) /\ i \in 1..Len(s) /\ Len(s) = Len(cost[k])
  BY TabledFacts
<1>2. HasCost(r, key_cost) /\ cost[k][i].cost = ExpansionCost(r, key_cost)
  BY <1>1 DEF BuildInv, Tabling, Tabled
<1> HIDE DEF R, s
<1>3. s[i] \in R
  BY <1>1, ElementOfSeq
<1>4. r \in FileRules(file)
  BY <1>3 DEF R, s
<1>5. Reading /\ IsTable(key_cost) /\ Keys = FileKeys(file)
  <2>1. Reading /\ IsTable(key_cost)
    BY DEF BuildInv, CostInv, Costing
  <2> QED BY <2>1, GrammarTyping
<1>6. r.text \in Nat /\ Len(r.keys) \in Nat /\ \A n \in 1..Len(r.keys) : r.keys[n] \in Keys
  BY <1>4, <1>5, RuleTyping
<1>7. /\ \A n \in 1..Len(r.keys) : key_cost[r.keys[n]] \in Nat
      /\ ExpansionCost(r, key_cost) = r.text + SumSeq(Weights(r, key_cost))
  BY <1>2, <1>4, <1>5, WeightsNat
<1> QED BY <1>2, <1>4, <1>5, <1>6, <1>7

(* The shortest texts of the subnodes from one on.                         *)
LEMMA Rest ==
  ASSUME NEW f, NEW r \in FileRules(f), IsTable(key_cost), HasCost(r, key_cost),
         NEW n \in 0..Len(r.keys)
  PROVE  /\ Res(r, n+1) = SumSeq(Weights(r, key_cost)) - PartialSums(Weights(r, key_cost))[n]
         /\ Res(r, n+1) \in Nat
<1> DEFINE w == Weights(r, key_cost)
           N == Len(r.keys)
           ks == SubSeq(r.keys, n+1, N)
           u == [j \in DOMAIN ks |-> key_cost[ks[j]]]
           K == FileKeys(f)
<1>1. /\ w \in Seq(Int) /\ Len(w) = N
      /\ \A j \in 1..N : w[j] = key_cost[r.keys[j]] /\ key_cost[r.keys[j]] \in Nat
  BY WeightsNat
<1>2. N \in Nat /\ r.keys \in Seq(K) /\ \A j \in 1..N : r.keys[j] \in K
  BY RuleTyping
<1>3. n \in 0..N
  OBVIOUS
<1> HIDE DEF w, N, K
<1>4. n+1 \in Int /\ N \in Int /\ \A j \in (n+1)..N : j \in 1..N
  BY <1>2, <1>3
<1>5. \A j \in (n+1)..N : r.keys[j] \in K
  BY <1>2, <1>4
<1>6. /\ ks \in Seq(K) /\ Len(ks) = IF n+1 <= N THEN N-(n+1)+1 ELSE 0
      /\ \A j \in 1..(N-(n+1)+1) : ks[j] = r.keys[n+1+j-1]
  BY <1>4, <1>5, SubSeqProperties
<1>7. /\ (IF n+1 <= N THEN N-(n+1)+1 ELSE 0) = N-n /\ N-(n+1)+1 = N-n /\ N-n \in Nat
      /\ \A j \in 1..(N-n) : n+1+j-1 = n+j /\ n+j \in 1..N
  BY <1>2, <1>3
<1> HIDE DEF ks
<1>8. Len(ks) = N-n /\ \A j \in 1..(N-n) : ks[j] = r.keys[n+j]
  BY <1>6, <1>7
<1>9. DOMAIN ks = 1..(N-n)
  BY <1>6, <1>8
<1>10. ASSUME NEW j \in 1..(N-n) PROVE u[j] = w[n+j] /\ u[j] \in Nat
  <2>1. u[j] = key_cost[ks[j]]
    BY <1>9
  <2>2. ks[j] = r.keys[n+j] /\ n+j \in 1..N
    BY <1>7, <1>8
  <2>3. w[n+j] = key_cost[r.keys[n+j]] /\ key_cost[r.keys[n+j]] \in Nat
    BY <1>1, <2>2
  <2> HIDE DEF u
  <2> QED BY <2>1, <2>2, <2>3
<1>11. u \in [1..(N-n) -> Nat]
  BY <1>9, <1>10
<1> HIDE DEF u
<1>12. u \in Seq(Nat) /\ u \in Seq(Int) /\ Len(u) = N-n
  <2>1. N-n \in Nat
    BY <1>7
  <2>2. u \in Seq(Nat) /\ Len(u) = N-n
    BY <1>11, <2>1
  <2>3. u \in [1..(N-n) -> Int]
    BY <1>11
  <2>4. u \in Seq(Int)
    BY <2>1, <2>3
  <2> QED BY <2>2, <2>4
<1>13. SumSeq(u) = SumSeq(w) - PartialSums(w)[n]
  BY <1>1, <1>3, <1>10, <1>12, SumSeqSuffix
<1>14. SumSeq(u) \in Nat
  BY <1>12, SumSeqNat
<1> QED BY <1>13, <1>14 DEF Res, SumOver, u, ks, w, N

LEMMA RestFacts ==
  ASSUME NEW f, NEW r \in FileRules(f), IsTable(key_cost), HasCost(r, key_cost)
  PROVE  /\ Res(r, Len(r.keys) + 1) = 0
         /\ Res(r, 1) = SumSeq(Weights(r, key_cost)) /\ Res(r, 1) \in Nat
         /\ \A n \in 1..Len(r.keys) :
              /\ Res(r, n) \in Int /\ Res(r, n+1) \in Int
              /\ Res(r, n) = key_cost[r.keys[n]] + Res(r, n+1)
<1> DEFINE w == Weights(r, key_cost)
           P == PartialSums(w)
           N == Len(r.keys)
<1>1. /\ w \in Seq(Int) /\ Len(w) = N /\ SumSeq(w) \in Nat
      /\ \A j \in 1..N : w[j] = key_cost[r.keys[j]] /\ key_cost[r.keys[j]] \in Nat
  BY WeightsNat
<1>2. N \in Nat
  BY RuleTyping
<1>3. \A n \in 0..N : Res(r, n+1) = SumSeq(w) - P[n]
  BY Rest
<1> HIDE DEF w
<1>4. /\ P \in [0..N -> Int] /\ P[0] = 0
      /\ \A n \in 1..N : P[n] = P[n-1] + w[n]
  BY <1>1, PartialSumsStep
<1>5. P[N] = SumSeq(w)
  BY <1>1 DEF SumSeq
<1> HIDE DEF P, N
<1>6. 0 \in 0..N /\ N \in 0..N /\ 0+1 = 1
  BY <1>2
<1>7. Res(r, N+1) = 0
  <2>1. Res(r, N+1) = SumSeq(w) - P[N]
    BY <1>3, <1>6
  <2> QED BY <1>1, <1>5, <2>1
<1>8. Res(r, 1) = SumSeq(w)
  <2>1. Res(r, 0+1) = SumSeq(w) - P[0]
    BY <1>3, <1>6
  <2> QED BY <1>1, <1>4, <1>6, <2>1
<1>9. ASSUME NEW n \in 1..N
      PROVE  /\ Res(r, n) \in Int /\ Res(r, n+1) \in Int
             /\ Res(r, n) = key_cost[r.keys[n]] + Res(r, n+1)
  <2>1. n-1 \in 0..N /\ n \in 0..N /\ (n-1)+1 = n
    BY <1>2
  <2>2. Res(r, (n-1)+1) = SumSeq(w) - P[n-1] /\ Res(r, n+1) = SumSeq(w) - P[n]
    BY <1>3, <2>1
  <2>3. P[n] = P[n-1] + w[n] /\ P[n-1] \in Int /\ P[n] \in Int /\ w[n] \in Nat
        /\ w[n] = key_cost[r.keys[n]]
    BY <1>1, <1>4, <2>1
  <2>4. PICK p, q, c, t : p = P[n] /\ q = P[n-1] /\ c = key_cost[r.keys[n]] /\ t = SumSeq(w)
    OBVIOUS
  <2>5. Res(r, n) = t - q /\ Res(r, n+1) = t - p
    BY <2>1, <2>2, <2>4
  <2>6. p = q + c /\ p \in Int /\ q \in Int /\ c \in Nat /\ t \in Nat
    BY <1>1, <2>3, <2>4
  <2>7. t - q \in Int /\ t - p \in Int /\ t - q = c + (t - p)
    BY <2>6
  <2> QED BY <2>4, <2>5, <2>7
<1> QED BY <1>1, <1>7, <1>8, <1>9 DEF w, N

-----------------------------------------------------------------------------
(* The stack of calls.  A mutation that asks for a rule gets it even if    *)
(* its shortest text is longer than max_tree_len.  If the rule is only     *)
(* text, as one of a shipped grammar is, nothing is made from the negative *)
(* budget; for grammars with longer rules that have subnodes the accounts  *)
(* need not add up.                                                        *)
AllRulesFit ==
  \A k \in DOMAIN cost : \A i \in DOMAIN cost[k] : cost[k][i].cost <= max_tree_len

RulesFit ==
  \A k \in DOMAIN cost : \A i \in DOMAIN cost[k] :
    grammar.rules[k][i].keys # <<>> => cost[k][i].cost <= max_tree_len

LEMMA FitAll == AllRulesFit => RulesFit
BY DEF AllRulesFit, RulesFit

NodeCall == [key : Keys, max_len : Int, asked : Nat, rule : Nat, sub : Nat,
             remaining_len : Int, subnode_consumed : Nat, consumed : Nat, length : Nat]

(* The text made so far and the shortest texts of what is to come are no   *)
(* less than the shortest text of the rule.                                *)
MadeEnough(c) ==
  c.rule # 0 => cost[c.key][c.rule].cost <= c.length + Res(RuleOf(c), c.sub)

(* No budget is negative but that of a text asked for.                     *)
Fitting(c, r) == RulesFit /\ (AllRulesFit \/ c.asked = 0 \/ r.keys # <<>>)

NoDebt(c) == c.rule = 0 \/ Fitting(c, RuleOf(c)) => c.remaining_len \in Nat

NodeFrame(c) ==
  /\ MadeEnough(c)
  /\ c.rule \in 0..Len(grammar.rules[c.key])
  /\ c.rule = 0 => c.sub = 1
  /\ c.rule # 0 => c.sub \in 1..(Len(RuleOf(c).keys) + 1)
  /\ c.asked # 0 => c.max_len = max_tree_len
  /\ RulesFit => c.max_len \in Nat /\ c.consumed = c.length
  /\ NoDebt(c)

(* The innermost call: its accounts add up.                                *)
Open(c) ==
  RulesFit /\ c.rule # 0 =>
    c.length + c.remaining_len + Res(RuleOf(c), c.sub) = c.max_len

(* Call c waits for d, whose budget has been set aside.                    *)
Waits(c, d) ==
  /\ c.rule # 0 /\ c.sub <= Len(RuleOf(c).keys) /\ d.key = RuleOf(c).keys[c.sub]
  /\ d.asked = 0
  /\ RulesFit =>
       /\ d.max_len <= c.remaining_len /\ MinCost(d.key) <= d.max_len
       /\ c.length + c.remaining_len + Res(RuleOf(c), c.sub + 1) = c.max_len

CallsOK(s) ==
  /\ s \in Seq(NodeCall)
  /\ \A i \in 1..Len(s) : NodeFrame(s[i])
  /\ \A i \in 1..(Len(s) - 1) : Waits(s[i], s[i+1])

Generating ==
  /\ calls # <<>> => pc = "ready" /\ CallsOK(calls) /\ Open(Callee)
  /\ calls \in Seq(NodeCall)
  /\ result \in {<<>>} \cup (Nat \X Nat)

(* Records of gen_node_*, written out.                                     *)
NodeOf(k, max_len, asked, rule, sub, remaining_len, subnode_consumed, consumed, length) ==
  [key |-> k, max_len |-> max_len, asked |-> asked, rule |-> rule, sub |-> sub,
   remaining_len |-> remaining_len, subnode_consumed |-> subnode_consumed,
   consumed |-> consumed, length |-> length]

NodeWritten(c) ==
  c = NodeOf(c.key, c.max_len, c.asked, c.rule, c.sub, c.remaining_len,
             c.subnode_consumed, c.consumed, c.length)

LEMMA NodeWrittenFacts ==
  ASSUME NEW c \in NodeCall
  PROVE  /\ NodeWritten(c)
         /\ c.key \in Keys /\ c.max_len \in Int /\ c.asked \in Nat /\ c.rule \in Nat
         /\ c.sub \in Nat /\ c.remaining_len \in Int /\ c.subnode_consumed \in Nat
         /\ c.consumed \in Nat /\ c.length \in Nat
BY DEF NodeWritten, NodeOf, NodeCall

LEMMA WithSubnodeWritten ==
  ASSUME NEW c, NEW l, NEW m, NodeWritten(c)
  PROVE  WithSubnode(c, l, m) =
           NodeOf(c.key, c.max_len, c.asked, c.rule, c.sub + 1, c.remaining_len - m, m,
                  c.consumed + m, c.length + l)
<1>1. PICK n, q, x, y : n = c.sub + 1 /\ q = c.remaining_len - m
                        /\ x = c.consumed + m /\ y = c.length + l
  OBVIOUS
<1>2. PICK c1 : c1 = [c EXCEPT !.sub = n]
  OBVIOUS
<1>3. c1 = [key |-> c.key, max_len |-> c.max_len, asked |-> c.asked, rule |-> c.rule,
            sub |-> n, remaining_len |-> c.remaining_len,
            subnode_consumed |-> c.subnode_consumed, consumed |-> c.consumed,
            length |-> c.length]
  BY <1>2 DEF NodeWritten, NodeOf
<1>4. PICK c2 : c2 = [c1 EXCEPT !.subnode_consumed = m]
  OBVIOUS
<1>5. c2 = [key |-> c.key, max_len |-> c.max_len, asked |-> c.asked, rule |-> c.rule,
            sub |-> n, remaining_len |-> c.remaining_len,
            subnode_consumed |-> m, consumed |-> c.consumed, length |-> c.length]
  BY <1>3, <1>4
<1>6. PICK c3 : c3 = [c2 EXCEPT !.remaining_len = q]
  OBVIOUS
<1>7. c3 = [key |-> c.key, max_len |-> c.max_len, asked |-> c.asked, rule |-> c.rule,
            sub |-> n, remaining_len |-> q,
            subnode_consumed |-> m, consumed |-> c.consumed, length |-> c.length]
  BY <1>5, <1>6
<1>8. PICK c4 : c4 = [c3 EXCEPT !.consumed = x]
  OBVIOUS
<1>9. c4 = [key |-> c.key, max_len |-> c.max_len, asked |-> c.asked, rule |-> c.rule,
            sub |-> n, remaining_len |-> q,
            subnode_consumed |-> m, consumed |-> x, length |-> c.length]
  BY <1>7, <1>8
<1>10. [c4 EXCEPT !.length = y] =
          [key |-> c.key, max_len |-> c.max_len, asked |-> c.asked, rule |-> c.rule,
           sub |-> n, remaining_len |-> q,
           subnode_consumed |-> m, consumed |-> x, length |-> y]
  BY <1>9
<1>11. [c EXCEPT !.sub = n, !.subnode_consumed = m, !.remaining_len = q,
                 !.consumed = x, !.length = y] =
          NodeOf(c.key, c.max_len, c.asked, c.rule, n, q, m, x, y)
  BY <1>2, <1>4, <1>6, <1>8, <1>10, Zenon DEF NodeOf
<1>12. WithSubnode(c, l, m) =
         [c EXCEPT !.sub = n, !.subnode_consumed = m, !.remaining_len = q,
                   !.consumed = x, !.length = y]
  BY <1>1, Zenon DEF WithSubnode
<1> QED BY <1>1, <1>11, <1>12

LEMMA WithRuleChosenWritten ==
  ASSUME NEW c, NEW i, NodeWritten(c)
  PROVE  WithRuleChosen(c, i) =
           NodeOf(c.key, c.max_len, c.asked, i, c.sub, Budget(c, i), c.subnode_consumed,
                  grammar.rules[c.key][i].text, grammar.rules[c.key][i].text)
<1>1. PICK q, x : q = Budget(c, i) /\ x = grammar.rules[c.key][i].text
  OBVIOUS
<1>2. PICK c1 : c1 = [c EXCEPT !.rule = i]
  OBVIOUS
<1>3. c1 = [key |-> c.key, max_len |-> c.max_len, asked |-> c.asked, rule |-> i,
            sub |-> c.sub, remaining_len |-> c.remaining_len,
            subnode_consumed |-> c.subnode_consumed, consumed |-> c.consumed,
            length |-> c.length]
  BY <1>2 DEF NodeWritten, NodeOf
<1>4. PICK c2 : c2 = [c1 EXCEPT !.remaining_len = q]
  OBVIOUS
<1>5. c2 = [key |-> c.key, max_len |-> c.max_len, asked |-> c.asked, rule |-> i,
            sub |-> c.sub, remaining_len |-> q,
            subnode_consumed |-> c.subnode_consumed, consumed |-> c.consumed,
            length |-> c.length]
  BY <1>3, <1>4
<1>6. PICK c3 : c3 = [c2 EXCEPT !.consumed = x]
  OBVIOUS
<1>7. c3 = [key |-> c.key, max_len |-> c.max_len, asked |-> c.asked, rule |-> i,
            sub |-> c.sub, remaining_len |-> q,
            subnode_consumed |-> c.subnode_consumed, consumed |-> x, length |-> c.length]
  BY <1>5, <1>6
<1>8. [c3 EXCEPT !.length = x] =
         [key |-> c.key, max_len |-> c.max_len, asked |-> c.asked, rule |-> i,
          sub |-> c.sub, remaining_len |-> q,
          subnode_consumed |-> c.subnode_consumed, consumed |-> x, length |-> x]
  BY <1>7
<1>9. [c EXCEPT !.rule = i, !.remaining_len = q, !.consumed = x, !.length = x] =
         NodeOf(c.key, c.max_len, c.asked, i, c.sub, q, c.subnode_consumed, x, x)
  BY <1>2, <1>4, <1>6, <1>8, Zenon DEF NodeOf
<1>10. WithRuleChosen(c, i) =
         [c EXCEPT !.rule = i, !.remaining_len = q, !.consumed = x, !.length = x]
  BY <1>1, Zenon DEF WithRuleChosen
<1> QED BY <1>1, <1>9, <1>10

LEMMA LentWritten ==
  ASSUME NEW c, NEW q, NodeWritten(c)
  PROVE  [c EXCEPT !.remaining_len = q] =
           NodeOf(c.key, c.max_len, c.asked, c.rule, c.sub, q, c.subnode_consumed,
                  c.consumed, c.length)
BY DEF NodeWritten, NodeOf

-----------------------------------------------------------------------------
(* Stacks of calls.                                                        *)
LEMMA WaitsSame ==
  ASSUME NEW c, NEW d, NEW e, Waits(c, d),
         e.key = d.key, e.max_len = d.max_len, e.asked = d.asked
  PROVE  Waits(c, e)
BY DEF Waits

LEMMA TopCall ==
  ASSUME NEW s, CallsOK(s), s # <<>>
  PROVE  /\ Len(s) \in Nat /\ Len(s) > 0 /\ s \in Seq(NodeCall)
         /\ s[Len(s)] \in NodeCall /\ NodeFrame(s[Len(s)])
<1> DEFINE C == NodeCall
<1>1. s \in Seq(C) /\ \A i \in 1..Len(s) : NodeFrame(s[i])
  BY DEF CallsOK
<1> HIDE DEF C
<1>2. Len(s) \in Nat /\ Len(s) > 0 /\ Len(s) \in 1..Len(s)
  BY <1>1
<1>3. s[Len(s)] \in C
  BY <1>1, <1>2, ElementOfSeq
<1> QED BY <1>1, <1>2, <1>3 DEF C

LEMMA OuterCalls ==
  ASSUME NEW s, CallsOK(s), s # <<>>, NEW u, u = SubSeq(s, 1, Len(s) - 1)
  PROVE  /\ CallsOK(u) /\ Len(u) = Len(s) - 1
         /\ u # <<>> => /\ Len(u) > 0 /\ Waits(u[Len(u)], s[Len(s)])
                        /\ u[Len(u)] = s[Len(s) - 1]
<1> DEFINE C == NodeCall
           N == Len(s)
<1>1. /\ s \in Seq(C) /\ (\A i \in 1..N : NodeFrame(s[i]))
      /\ \A i \in 1..(N-1) : Waits(s[i], s[i+1])
  BY DEF CallsOK
<1>2. N \in Nat /\ N > 0
  BY TopCall
<1> HIDE DEF C
<1>3. u \in Seq(C) /\ Len(u) = N-1 /\ \A i \in 1..(N-1) : u[i] = s[i]
  BY <1>1, <1>2, FrontOfSeq
<1> HIDE DEF N
<1>4. \A i \in 1..(N-1) : i \in 1..N
  BY <1>2
<1>5. \A i \in 1..((N-1)-1) : i \in 1..(N-1) /\ i+1 \in 1..(N-1)
  BY <1>2
<1>6. \A i \in 1..Len(u) : NodeFrame(u[i])
  BY <1>1, <1>3, <1>4
<1>7. \A i \in 1..(Len(u)-1) : Waits(u[i], u[i+1])
  BY <1>1, <1>3, <1>5
<1>8. ASSUME u # <<>>
      PROVE  Len(u) > 0 /\ Waits(u[Len(u)], s[N]) /\ u[Len(u)] = s[N-1]
  <2>1. Len(u) > 0
    BY <1>3, <1>8
  <2>2. N-1 \in 1..(N-1) /\ (N-1)+1 = N
    BY <1>2, <1>3, <2>1
  <2>3. Waits(s[N-1], s[(N-1)+1]) /\ u[N-1] = s[N-1]
    BY <1>1, <1>3, <2>2
  <2> QED BY <1>3, <2>1, <2>2, <2>3
<1> QED BY <1>3, <1>6, <1>7, <1>8 DEF CallsOK, C, N

LEMMA PushCall ==
  ASSUME NEW s, CallsOK(s), NEW c \in NodeCall, NodeFrame(c),
         s # <<>> => Waits(s[Len(s)], c), NEW u, u = Append(s, c)
  PROVE  CallsOK(u) /\ u # <<>> /\ Len(u) = Len(s) + 1 /\ u[Len(u)] = c
<1> DEFINE C == NodeCall
           N == Len(s)
<1>1. /\ s \in Seq(C) /\ (\A i \in 1..N : NodeFrame(s[i]))
      /\ \A i \in 1..(N-1) : Waits(s[i], s[i+1])
  BY DEF CallsOK
<1> HIDE DEF C
<1>2. c \in C
  BY DEF C
<1>3. /\ u \in Seq(C) /\ Len(u) = N+1 /\ N \in Nat /\ u[N+1] = c /\ u # <<>>
      /\ \A i \in 1..N : u[i] = s[i]
  BY <1>1, <1>2, AppendProperties
<1>4. N > 0 => Waits(s[N], c)
  BY <1>1
<1> HIDE DEF N
<1>5. \A i \in 1..(N+1) : i = N+1 \/ i \in 1..N
  BY <1>3
<1>6. \A i \in 1..(N+1) : NodeFrame(u[i])
  BY <1>1, <1>3, <1>5
<1>7. ASSUME NEW i \in 1..N PROVE Waits(u[i], u[i+1])
  <2>1. CASE i = N
    <3>1. N > 0
      BY <1>3, <1>7
    <3> QED BY <1>3, <1>4, <2>1, <3>1
  <2>2. CASE i # N
    <3>1. i \in 1..(N-1) /\ i+1 \in 1..N
      BY <1>3, <2>2
    <3> QED BY <1>1, <1>3, <3>1
  <2> QED BY <2>1, <2>2
<1>8. Len(u)-1 = N
  BY <1>3
<1> QED BY <1>3, <1>6, <1>7, <1>8 DEF CallsOK, C, N

WithLast(s, c) == [s EXCEPT ![Len(s)] = c]

LEMMA ReplaceCall ==
  ASSUME NEW s, CallsOK(s), s # <<>>, NEW c \in NodeCall, NodeFrame(c),
         c.key = s[Len(s)].key, c.max_len = s[Len(s)].max_len,
         c.asked = s[Len(s)].asked,
         NEW u, u = WithLast(s, c)
  PROVE  CallsOK(u) /\ u # <<>> /\ u[Len(u)] = c
<1> DEFINE C == NodeCall
           N == Len(s)
<1>1. /\ s \in Seq(C) /\ (\A i \in 1..N : NodeFrame(s[i]))
      /\ \A i \in 1..(N-1) : Waits(s[i], s[i+1])
  BY DEF CallsOK
<1>2. N \in Nat /\ N > 0
  BY TopCall
<1>3. u = [s EXCEPT ![N] = c]
  BY DEF WithLast
<1> HIDE DEF C, N
<1>4. c \in C /\ N \in 1..N
  BY <1>2 DEF C
<1>5. Len(s) = N
  BY DEF N
<1>6. /\ u \in Seq(C) /\ Len(u) = N
      /\ \A i \in 1..N : u[i] = IF i = N THEN c ELSE s[i]
  BY <1>1, <1>3, <1>4, <1>5, ExceptSeq
<1>7. \A i \in 1..N : NodeFrame(u[i])
  BY <1>1, <1>6
<1>8. ASSUME NEW i \in 1..(N-1) PROVE Waits(u[i], u[i+1])
  <2>1. i \in 1..N /\ i # N /\ i+1 \in 1..N
    BY <1>2
  <2>2. u[i] = s[i] /\ u[i+1].key = s[i+1].key /\ u[i+1].max_len = s[i+1].max_len
        /\ u[i+1].asked = s[i+1].asked
    BY <1>5, <1>6, <2>1
  <2>3. Waits(s[i], s[i+1])
    BY <1>1
  <2> QED BY <2>2, <2>3, WaitsSame
<1>9. u # <<>> /\ u[Len(u)] = c
  BY <1>2, <1>4, <1>6
<1> QED BY <1>6, <1>7, <1>8, <1>9 DEF CallsOK, C

-----------------------------------------------------------------------------
(* The chain of comparisons finds the last rule that fits, as the costs    *)
(* ascend.                                                                 *)
LEMMA FittingRules ==
  ASSUME BuildInv, pc = "ready", NEW k \in Keys, NEW m \in Int, m >= MinCost(k)
  PROVE  /\ RulesThatFit(k, m) \in 1..Len(cost[k])
         /\ 1..RulesThatFit(k, m) = {i \in DOMAIN cost[k] : cost[k][i].cost <= m}
<1> DEFINE s == cost[k]
           L == Len(s)
           Above == {n \in DOMAIN s : s[n].cost # MinCost(k) /\ m < s[n].cost}
           first == CHOOSE n \in Above : \A j \in Above : n <= j
           fit == RulesThatFit(k, m)
<1>1. /\ s \in Seq(Entry) /\ L \in Nat /\ L > 0 /\ Ascending(s) /\ DOMAIN s = 1..L
      /\ \A i \in 1..L : s[i].cost \in Nat
      /\ s[1].cost = MinCost(k)
  BY TabledFacts DEF MinCost
<1>2. fit = IF Above = {} THEN L ELSE first - 1
  BY DEF RulesThatFit
<1>3. ASSUME NEW i \in 1..L, NEW j \in i..L PROVE s[i].cost <= s[j].cost
  <2> HIDE DEF s
  <2> QED BY <1>1, <1>3, AscendingAll DEF L
<1>4. \A n \in 1..L : n \in Above <=> s[n].cost # MinCost(k) /\ m < s[n].cost
  BY <1>1
<1>5. Above \subseteq 1..L
  BY <1>1
<1>6. MinCost(k) \in Nat
  BY TabledFacts
<1> HIDE DEF s, L, fit, Above
<1>7. CASE Above = {}
  <2>1. fit = L
    BY <1>2, <1>7
  <2>2. \A i \in 1..L : s[i].cost <= m
    BY <1>1, <1>4, <1>6, <1>7
  <2> QED BY <1>1, <2>1, <2>2 DEF s, L, fit
<1>8. CASE Above # {}
  <2>1. Above \in SUBSET Nat
    BY <1>1, <1>5
  <2>2. \E n \in Above : \A j \in Above : n <= j
    BY <1>8, <2>1, LeastNat
  <2>3. first \in Above /\ \A j \in Above : first <= j
    BY <2>2
  <2>4. PICK a : a = first
    OBVIOUS
  <2>5. a \in 1..L /\ a \in Above /\ (\A j \in Above : a <= j) /\ fit = a - 1
    BY <1>2, <1>5, <1>8, <2>3, <2>4
  <2> HIDE DEF first
  <2>6. a # 1
    BY <1>1, <1>4, <2>5
  <2>7. fit \in 1..L
    BY <1>1, <2>5, <2>6
  <2>8. ASSUME NEW i \in 1..L PROVE i \in 1..fit <=> s[i].cost <= m
    <3>1. CASE i < a
      <4>1. i \notin Above
        BY <1>1, <2>5, <3>1
      <4>2. s[i].cost <= m
        BY <1>1, <1>4, <1>6, <4>1
      <4> QED BY <1>1, <2>5, <3>1, <4>2
    <3>2. CASE i >= a
      <4>1. i \in a..L
        BY <1>1, <2>5, <3>2
      <4>2. s[a].cost <= s[i].cost /\ m < s[a].cost
        BY <1>3, <1>4, <2>5, <4>1
      <4>3. s[a].cost \in Nat /\ s[i].cost \in Nat
        BY <1>1, <2>5
      <4>4. ~ (s[i].cost <= m)
        BY <4>2, <4>3
      <4>5. ~ (i \in 1..fit)
        BY <1>1, <2>5, <3>2
      <4> QED BY <4>4, <4>5
    <3> QED BY <1>1, <2>5, <3>1, <3>2
  <2>9. \A i \in 1..fit : i \in 1..L
    BY <1>1, <2>7
  <2> QED BY <1>1, <2>7, <2>8, <2>9 DEF s, L, fit
<1> QED BY <1>7, <1>8

(* The rule a call gets exists; if all rules fit max_tree_len, it fits.    *)
LEMMA CandidateFacts ==
  ASSUME BuildInv, pc = "ready", NEW c \in NodeCall, NodeFrame(c),
         c.max_len >= MinCost(c.key), NEW i \in Candidates(c)
  PROVE  /\ i \in 1..Len(grammar.rules[c.key])
         /\ Fitting(c, grammar.rules[c.key][i]) => cost[c.key][i].cost <= c.max_len
<1>1. PICK k : k = c.key
  OBVIOUS
<1>2. k \in Keys /\ c.max_len \in Int /\ c.asked \in Nat
  BY <1>1, NodeWrittenFacts
<1>3. /\ DOMAIN grammar.rules[k] = 1..Len(grammar.rules[k])
      /\ DOMAIN cost[k] = 1..Len(cost[k]) /\ Len(cost[k]) \in Nat
      /\ Len(grammar.rules[k]) = Len(cost[k])
  BY <1>2, TabledFacts
<1>4. CASE c.asked \in DOMAIN grammar.rules[k]
  <2>1. i = c.asked /\ c.asked # 0
    BY <1>1, <1>3, <1>4 DEF Candidates
  <2>2. c.max_len = max_tree_len
    BY <2>1 DEF NodeFrame
  <2>3. i \in 1..Len(grammar.rules[k])
    BY <1>3, <1>4, <2>1
  <2>4. k \in DOMAIN cost
    <3>1. cost \in [Keys -> Seq(Entry)]
      BY DEF BuildInv, CostInv, Costing
    <3> QED BY <1>2, <3>1
  <2>5. Fitting(c, grammar.rules[k][i]) => cost[k][i].cost <= max_tree_len
    BY <1>3, <2>1, <2>3, <2>4 DEF Fitting, RulesFit, AllRulesFit
  <2> QED BY <1>1, <2>2, <2>3, <2>5
<1>5. CASE c.asked \notin DOMAIN grammar.rules[k]
  <2>1. i \in 1..RulesThatFit(k, c.max_len)
    BY <1>1, <1>5 DEF Candidates
  <2>2. /\ RulesThatFit(k, c.max_len) \in 1..Len(cost[k])
        /\ 1..RulesThatFit(k, c.max_len) = {j \in DOMAIN cost[k] : cost[k][j].cost <= c.max_len}
    BY <1>1, <1>2, FittingRules
  <2>3. i \in DOMAIN cost[k] /\ cost[k][i].cost <= c.max_len
    BY <2>1, <2>2
  <2> QED BY <1>1, <1>3, <2>3
<1> QED BY <1>4, <1>5

-----------------------------------------------------------------------------
(* The steps of gen_node_*.                                                *)
LEMMA NodeOfFields ==
  ASSUME NEW k, NEW max_len, NEW asked, NEW rule, NEW sub, NEW remaining_len,
         NEW subnode_consumed, NEW consumed, NEW length, NEW d,
         d = NodeOf(k, max_len, asked, rule, sub, remaining_len, subnode_consumed,
                    consumed, length)
  PROVE  /\ d.key = k /\ d.max_len = max_len /\ d.asked = asked /\ d.rule = rule
         /\ d.sub = sub /\ d.remaining_len = remaining_len
         /\ d.consumed = consumed /\ d.length = length
         /\ (/\ k \in Keys /\ max_len \in Int /\ asked \in Nat /\ rule \in Nat
             /\ sub \in Nat /\ remaining_len \in Int /\ subnode_consumed \in Nat
             /\ consumed \in Nat /\ length \in Nat) => d \in NodeCall
BY DEF NodeOf, NodeCall

LEMMA NodeOfTyped ==
  ASSUME NEW k \in Keys, NEW max_len \in Int, NEW asked \in Nat, NEW rule \in Nat,
         NEW sub \in Nat, NEW remaining_len \in Int, NEW subnode_consumed \in Nat,
         NEW consumed \in Nat, NEW length \in Nat
  PROVE  NodeOf(k, max_len, asked, rule, sub, remaining_len, subnode_consumed,
                consumed, length) \in NodeCall
BY DEF NodeOf, NodeCall

LEMMA NewCall ==
  ASSUME BuildInv, NEW k \in Keys, NEW max_len \in Int, NEW i \in Int, i + 1 \in Nat,
         i + 1 # 0 => max_len = max_tree_len, max_len \in Nat \/ ~ RulesFit,
         NEW d, d = GenNode(k, max_len, i)
  PROVE  d \in NodeCall /\ NodeFrame(d) /\ Open(d) /\ d.key = k /\ d.max_len = max_len
         /\ d.asked = i + 1
<1>1. PICK a : a = i + 1
  OBVIOUS
<1>2. d = NodeOf(k, max_len, a, 0, 1, 0, 0, 0, 0)
  BY <1>1 DEF GenNode, NodeOf
<1>3. /\ d.key = k /\ d.max_len = max_len /\ d.asked = a /\ d.rule = 0 /\ d.sub = 1
      /\ d.remaining_len = 0 /\ d.consumed = 0 /\ d.length = 0
  BY <1>2, NodeOfFields
<1>4. 0 \in Nat /\ 1 \in Nat /\ 0 \in Int /\ a \in Nat
  BY <1>1
<1>5. d \in NodeCall
  BY <1>2, <1>4, NodeOfFields
<1>6. 0 \in 0..Len(grammar.rules[k])
  <2>1. Reading
    BY DEF BuildInv, CostInv
  <2>2. Len(grammar.rules[k]) \in Nat
    BY <2>1, GrammarTyping
  <2> QED BY <2>2
<1>7. NodeFrame(d)
  BY <1>1, <1>3, <1>4, <1>6 DEF NodeFrame, MadeEnough, NoDebt
<1>8. Open(d)
  BY <1>3 DEF Open
<1> QED BY <1>1, <1>3, <1>5, <1>7, <1>8

LEMMA ChooseRuleCalls ==
  ASSUME BuildInv, pc = "ready", CallsOK(calls), Open(Callee), ChooseRule
  PROVE  calls' # <<>> /\ CallsOK(calls') /\ Open(calls'[Len(calls')])
<1>1. PICK i \in Candidates(Callee) : calls' = Append(Outer, WithRuleChosen(Callee, i))
  BY DEF ChooseRule
<1>2. PICK c : c = Callee
  OBVIOUS
<1>3. PICK o : o = Outer
  OBVIOUS
<1>4. calls # <<>> /\ c.rule = 0 /\ c.max_len >= MinCost(c.key)
  BY <1>2 DEF ChooseRule
<1>5. c \in NodeCall /\ NodeFrame(c)
  BY <1>2, <1>4, TopCall DEF Callee
<1>6. /\ i \in 1..Len(grammar.rules[c.key])
      /\ (Fitting(c, grammar.rules[c.key][i]) => cost[c.key][i].cost <= c.max_len)
  BY <1>1, <1>2, <1>4, <1>5, CandidateFacts
<1>7. PICK r : r = grammar.rules[c.key][i]
  OBVIOUS
<1>8. PICK d : d = WithRuleChosen(c, i)
  OBVIOUS
<1>9. /\ NodeWritten(c)
      /\ c.key \in Keys /\ c.max_len \in Int /\ c.asked \in Nat /\ c.sub \in Nat
      /\ c.subnode_consumed \in Nat
  BY <1>5, NodeWrittenFacts
<1>10. d = NodeOf(c.key, c.max_len, c.asked, i, c.sub, Budget(c, i), c.subnode_consumed,
                  r.text, r.text)
  BY <1>7, <1>8, <1>9, WithRuleChosenWritten
<1>11. /\ d.key = c.key /\ d.max_len = c.max_len /\ d.asked = c.asked /\ d.rule = i
       /\ d.sub = c.sub /\ d.remaining_len = Budget(c, i)
       /\ d.consumed = r.text /\ d.length = r.text
  BY <1>10, NodeOfFields
<1>12. PICK k : k = c.key
  OBVIOUS
<1>13. PICK e : e = cost[k][i].cost
  OBVIOUS
<1>14. /\ k \in Keys /\ i \in 1..Len(grammar.rules[k]) /\ r = grammar.rules[k][i]
       /\ Budget(c, i) = c.max_len - e
  BY <1>6, <1>7, <1>9, <1>12, <1>13 DEF Budget
<1>15. /\ r.text \in Nat /\ Len(r.keys) \in Nat
       /\ HasCost(r, key_cost) /\ r \in FileRules(file) /\ IsTable(key_cost)
       /\ e = r.text + SumSeq(Weights(r, key_cost))
  BY <1>13, <1>14, RuleFacts
<1>16. Res(r, 1) = SumSeq(Weights(r, key_cost)) /\ Res(r, 1) \in Nat
  BY <1>15, RestFacts
<1>17. e \in Nat /\ i \in Nat /\ Len(grammar.rules[k]) \in Nat
  <2>1. Len(grammar.rules[k]) \in Nat
    BY <1>14, TabledFacts
  <2> QED BY <1>6, <1>15, <1>16, <2>1
<1>18. Budget(c, i) \in Int
  BY <1>9, <1>14, <1>17
<1>19. d \in NodeCall
  BY <1>9, <1>10, <1>15, <1>17, <1>18, NodeOfFields
<1>20. RuleOf(d) = r /\ i # 0
  BY <1>6, <1>7, <1>11 DEF RuleOf
<1>21. c.sub = 1
  BY <1>4, <1>5 DEF NodeFrame
<1>22. Fitting(c, r) => Budget(c, i) \in Nat
  <2> SUFFICES ASSUME Fitting(c, r) PROVE Budget(c, i) \in Nat
    OBVIOUS
  <2>1. c.max_len \in Nat
    BY <1>5 DEF NodeFrame, Fitting
  <2>2. e <= c.max_len
    BY <1>6, <1>7, <1>12, <1>13
  <2> QED BY <1>14, <1>17, <2>1, <2>2
<1>23. NodeFrame(d)
  <2>1. d.rule \in 0..Len(grammar.rules[d.key]) /\ d.rule # 0
    BY <1>11, <1>12, <1>14, <1>17, <1>20
  <2>2. d.sub \in 1..(Len(RuleOf(d).keys) + 1)
    BY <1>11, <1>15, <1>20, <1>21
  <2>3. d.asked # 0 => d.max_len = max_tree_len
    BY <1>5, <1>11 DEF NodeFrame
  <2>4. /\ RulesFit => d.max_len \in Nat /\ d.consumed = d.length
        /\ NoDebt(d)
    <3>1. RulesFit => d.max_len \in Nat /\ d.consumed = d.length
      BY <1>5, <1>11 DEF NodeFrame
    <3>2. Fitting(d, RuleOf(d)) => Fitting(c, r)
      BY <1>11, <1>20 DEF Fitting
    <3> QED BY <1>11, <1>20, <1>22, <3>1, <3>2 DEF NoDebt
  <2>5. MadeEnough(d)
    <3>1. cost[d.key][d.rule].cost = e /\ d.length = r.text /\ d.sub = 1
      BY <1>11, <1>12, <1>13, <1>21
    <3>2. e <= r.text + Res(r, 1)
      BY <1>15, <1>16, <1>17
    <3> QED BY <1>20, <3>1, <3>2 DEF MadeEnough
  <2> QED BY <2>1, <2>2, <2>3, <2>4, <2>5 DEF NodeFrame
<1>24. Open(d)
  <2>1. r.text + (c.max_len - e) + Res(r, 1) = c.max_len
    <3>1. PICK p, q, m : p = r.text /\ q = Res(r, 1) /\ m = c.max_len
      OBVIOUS
    <3>2. e = p + q /\ p \in Nat /\ q \in Nat /\ m \in Int
      BY <1>9, <1>15, <1>16, <3>1
    <3>3. p + (m - e) + q = m
      BY <3>2
    <3> QED BY <3>1, <3>3
  <2>2. d.length + d.remaining_len + Res(RuleOf(d), d.sub) = d.max_len
    BY <1>11, <1>14, <1>20, <1>21, <2>1
  <2> QED BY <2>2 DEF Open
<1>25. CallsOK(o) /\ (o # <<>> => Waits(o[Len(o)], c))
  BY <1>2, <1>3, <1>4, OuterCalls DEF Outer, Callee
<1>26. o # <<>> => Waits(o[Len(o)], d)
  BY <1>11, <1>25, WaitsSame
<1>27. calls' = Append(o, d)
  BY <1>1, <1>2, <1>3, <1>8
<1>28. CallsOK(calls') /\ calls' # <<>> /\ calls'[Len(calls')] = d
  <2>1. PICK u : u = Append(o, d)
    OBVIOUS
  <2>2. CallsOK(u) /\ u # <<>> /\ u[Len(u)] = d
    BY <1>19, <1>23, <1>25, <1>26, <2>1, PushCall
  <2> QED BY <1>27, <2>1, <2>2
<1> QED BY <1>24, <1>28

LEMMA CallGenSubnodeCalls ==
  ASSUME BuildInv, pc = "ready", CallsOK(calls), Open(Callee), CallGenSubnode
  PROVE  calls' # <<>> /\ CallsOK(calls') /\ Open(calls'[Len(calls')])
<1>1. PICK c : c = Callee
  OBVIOUS
<1>2. PICK o : o = Outer
  OBVIOUS
<1>3. PICK r : r = RuleOf(c)
  OBVIOUS
<1>4. PICK t : t = r.keys[c.sub]
  OBVIOUS
<1>5. PICK q : q = c.remaining_len
  OBVIOUS
<1>6. calls # <<>> /\ c.rule # 0 /\ c.sub <= Len(r.keys)
  BY <1>1, <1>3 DEF CallGenSubnode
<1>7. PICK len \in RandomLens(Len(r.keys) - c.sub + 1, q) :
        calls' = Append(Append(o, [c EXCEPT !.remaining_len = @ + key_cost[t]]),
                        GenNode(t, len + key_cost[t], -1))
  BY <1>1, <1>2, <1>3, <1>4, <1>5 DEF CallGenSubnode
<1>8. c \in NodeCall /\ NodeFrame(c)
  BY <1>1, <1>6, TopCall DEF Callee
<1>9. /\ NodeWritten(c)
      /\ c.key \in Keys /\ c.max_len \in Int /\ c.asked \in Nat /\ c.rule \in Nat
      /\ c.sub \in Nat /\ q \in Int /\ c.subnode_consumed \in Nat
      /\ c.consumed \in Nat /\ c.length \in Nat
  BY <1>5, <1>8, NodeWrittenFacts
<1>10. PICK k, i : k = c.key /\ i = c.rule
  OBVIOUS
<1>11. k \in Keys /\ i \in 1..Len(grammar.rules[k]) /\ r = grammar.rules[k][i]
  <2>1. i \in 0..Len(grammar.rules[k]) /\ i # 0
    BY <1>6, <1>8, <1>10 DEF NodeFrame
  <2>2. k \in Keys
    BY <1>9, <1>10
  <2>3. Len(grammar.rules[k]) \in Nat
    BY <2>2, TabledFacts
  <2> QED BY <1>3, <1>10, <2>1, <2>2, <2>3 DEF RuleOf
<1>12. /\ Len(r.keys) \in Nat
       /\ \A n \in 1..Len(r.keys) : r.keys[n] \in Keys /\ key_cost[r.keys[n]] \in Nat
       /\ HasCost(r, key_cost) /\ r \in FileRules(file) /\ IsTable(key_cost)
  BY <1>11, RuleFacts
<1>13. c.sub \in 1..Len(r.keys)
  <2>1. c.sub \in 1..(Len(r.keys) + 1)
    BY <1>3, <1>6, <1>8 DEF NodeFrame
  <2> QED BY <1>6, <1>12, <2>1
<1>14. PICK x, y, z : x = key_cost[t] /\ y = Res(r, c.sub) /\ z = Res(r, c.sub + 1)
  OBVIOUS
<1>15. t \in Keys /\ x \in Nat
  BY <1>4, <1>12, <1>13, <1>14
<1>16. y \in Int /\ z \in Int /\ y = x + z
  BY <1>4, <1>12, <1>13, <1>14, RestFacts
<1>17. MinCost(t) = x
  BY <1>14, <1>15, TabledFacts
<1>18. len \in Int /\ (RulesFit => q \in Nat /\ len \in 0..q)
  <2>1. RulesFit => q \in Nat
    <3>1. r.keys # <<>>
      BY <1>12, <1>13
    <3> QED BY <1>3, <1>5, <1>8, <3>1 DEF NodeFrame, NoDebt, Fitting
  <2>2. len = q \/ len \in 0..q
    BY <1>7 DEF RandomLens
  <2> QED BY <1>9, <2>1, <2>2
<1>19. PICK m : m = len + x
  OBVIOUS
<1>20. PICK p : p = q + x
  OBVIOUS
<1>21. m \in Int /\ p \in Int
       /\ (RulesFit => m \in Nat /\ p \in Nat /\ m <= p /\ x <= m)
  BY <1>9, <1>15, <1>18, <1>19, <1>20
<1>22. PICK e : e = [c EXCEPT !.remaining_len = p]
  OBVIOUS
<1>23. PICK d : d = GenNode(t, m, -1)
  OBVIOUS
<1>24. e = NodeOf(c.key, c.max_len, c.asked, c.rule, c.sub, p, c.subnode_consumed,
                  c.consumed, c.length)
  BY <1>9, <1>22, LentWritten
<1>25. /\ e.key = c.key /\ e.max_len = c.max_len /\ e.asked = c.asked /\ e.rule = c.rule
       /\ e.sub = c.sub /\ e.remaining_len = p
       /\ e.consumed = c.consumed /\ e.length = c.length
  BY <1>24, NodeOfFields
<1>26. e \in NodeCall
  BY <1>9, <1>21, <1>24, NodeOfFields
<1>27. RuleOf(e) = r
  BY <1>3, <1>25 DEF RuleOf
<1>28. NodeFrame(e)
  <2>1. /\ c.rule \in 0..Len(grammar.rules[c.key])
        /\ c.rule # 0 => c.sub \in 1..(Len(r.keys) + 1)
        /\ c.asked # 0 => c.max_len = max_tree_len
        /\ RulesFit => c.max_len \in Nat /\ c.consumed = c.length
        /\ MadeEnough(c)
    BY <1>3, <1>8 DEF NodeFrame
  <2>2. MadeEnough(e) /\ NoDebt(e)
    BY <1>3, <1>6, <1>21, <1>25, <1>27, <2>1 DEF MadeEnough, NoDebt, Fitting
  <2> QED BY <1>6, <1>21, <1>25, <1>27, <2>1, <2>2 DEF NodeFrame
<1>29. /\ d \in NodeCall /\ NodeFrame(d) /\ Open(d) /\ d.key = t /\ d.max_len = m
       /\ d.asked = 0
  <2>1. -1 \in Int /\ -1 + 1 \in Nat /\ -1 + 1 = 0
    OBVIOUS
  <2> QED BY <1>15, <1>21, <1>23, <2>1, NewCall
<1>30. Waits(e, d)
  <2>1. e.rule # 0 /\ e.sub <= Len(RuleOf(e).keys) /\ d.key = RuleOf(e).keys[e.sub]
        /\ d.asked = 0
    BY <1>4, <1>6, <1>25, <1>27, <1>29
  <2>2. ASSUME RulesFit
        PROVE  /\ d.max_len <= e.remaining_len /\ MinCost(d.key) <= d.max_len
               /\ e.length + e.remaining_len + Res(RuleOf(e), e.sub + 1) = e.max_len
    <3>1. c.length + q + y = c.max_len
      BY <1>1, <1>3, <1>5, <1>6, <1>14, <2>2 DEF Open
    <3>2. c.length + p + z = c.max_len
      BY <1>9, <1>15, <1>16, <1>20, <3>1
    <3>3. e.length + e.remaining_len + Res(RuleOf(e), e.sub + 1) = e.max_len
      BY <1>14, <1>25, <1>27, <3>2
    <3> QED BY <1>17, <1>21, <1>25, <1>29, <2>2, <3>3
  <2> QED BY <2>1, <2>2 DEF Waits
<1>31. CallsOK(o) /\ (o # <<>> => Waits(o[Len(o)], c))
  BY <1>1, <1>2, <1>6, OuterCalls DEF Outer, Callee
<1>32. o # <<>> => Waits(o[Len(o)], e)
  BY <1>25, <1>31, WaitsSame
<1>33. PICK u : u = Append(o, e)
  OBVIOUS
<1>34. CallsOK(u) /\ u # <<>> /\ u[Len(u)] = e
  BY <1>26, <1>28, <1>31, <1>32, <1>33, PushCall
<1>35. PICK v : v = Append(u, d)
  OBVIOUS
<1>36. CallsOK(v) /\ v # <<>> /\ v[Len(v)] = d
  <2>1. u # <<>> => Waits(u[Len(u)], d)
    BY <1>30, <1>34
  <2> QED BY <1>29, <1>34, <1>35, <2>1, PushCall
<1>37. calls' = v
  <2>1. [c EXCEPT !.remaining_len = @ + key_cost[t]] = e
    BY <1>5, <1>14, <1>20, <1>22
  <2>2. GenNode(t, len + key_cost[t], -1) = d
    BY <1>14, <1>19, <1>23
  <2> QED BY <1>7, <1>33, <1>35, <2>1, <2>2
<1> QED BY <1>29, <1>36, <1>37

(* A call ends with a tree, its caller goes on.                            *)
LEMMA BackInCaller ==
  ASSUME BuildInv, pc = "ready", CallsOK(calls), calls # <<>>, Len(calls) # 1,
         NEW l \in Nat, NEW m \in Nat, key_cost[Callee.key] <= l,
         RulesFit => l = m /\ l <= Callee.max_len,
         calls' = [Outer EXCEPT ![Len(Outer)] = WithSubnode(@, l, m)]
  PROVE  calls' # <<>> /\ CallsOK(calls') /\ Open(calls'[Len(calls')])
<1>1. PICK c : c = Callee
  OBVIOUS
<1>2. PICK o : o = Outer
  OBVIOUS
<1>3. /\ CallsOK(o) /\ Len(o) = Len(calls) - 1
      /\ o # <<>> => Len(o) > 0 /\ Waits(o[Len(o)], c)
  BY <1>1, <1>2, OuterCalls DEF Outer, Callee
<1>4. Len(calls) \in Nat /\ Len(calls) > 0
  BY TopCall
<1>5. o # <<>>
  <2>1. Len(o) > 0
    BY <1>3, <1>4
  <2>2. Len(<<>>) = 0
    OBVIOUS
  <2> QED BY <2>1, <2>2
<1>6. PICK p : p = o[Len(o)]
  OBVIOUS
<1>7. p \in NodeCall /\ NodeFrame(p) /\ Waits(p, c)
  BY <1>3, <1>5, <1>6, TopCall
<1>8. PICK r : r = RuleOf(p)
  OBVIOUS
<1>9. PICK d : d = WithSubnode(p, l, m)
  OBVIOUS
<1>10. /\ NodeWritten(p)
       /\ p.key \in Keys /\ p.max_len \in Int /\ p.asked \in Nat /\ p.rule \in Nat
       /\ p.sub \in Nat /\ p.remaining_len \in Int
       /\ p.consumed \in Nat /\ p.length \in Nat
  BY <1>7, NodeWrittenFacts
<1>11. d = NodeOf(p.key, p.max_len, p.asked, p.rule, p.sub + 1, p.remaining_len - m, m,
                  p.consumed + m, p.length + l)
  BY <1>9, <1>10, WithSubnodeWritten
<1>12. /\ d.key = p.key /\ d.max_len = p.max_len /\ d.asked = p.asked /\ d.rule = p.rule
       /\ d.sub = p.sub + 1 /\ d.remaining_len = p.remaining_len - m
       /\ d.consumed = p.consumed + m /\ d.length = p.length + l
  BY <1>11, NodeOfFields
<1>13. d \in NodeCall
  <2>1. PICK n1, n2, n3, n4 : /\ n1 = p.sub + 1 /\ n2 = p.remaining_len - m
                              /\ n3 = p.consumed + m /\ n4 = p.length + l
    OBVIOUS
  <2>2. \A x, y \in Nat : x + y \in Nat
    OBVIOUS
  <2>3. \A x \in Int : x - m \in Int
    OBVIOUS
  <2>4. n1 \in Nat /\ n2 \in Int /\ n3 \in Nat /\ n4 \in Nat
    <3>1. p.sub + 1 \in Nat
      BY <1>10, <2>2
    <3>2. p.remaining_len - m \in Int
      BY <1>10, <2>3
    <3>3. p.consumed + m \in Nat
      BY <1>10, <2>2
    <3>4. p.length + l \in Nat
      BY <1>10, <2>2
    <3> QED BY <2>1, <3>1, <3>2, <3>3, <3>4
  <2>5. d = NodeOf(p.key, p.max_len, p.asked, p.rule, n1, n2, m, n3, n4)
    BY <1>11, <2>1
  <2>6. PICK x1, x2, x3, x4 : /\ x1 = p.key /\ x2 = p.max_len
                              /\ x3 = p.asked /\ x4 = p.rule
    OBVIOUS
  <2>7. x1 \in Keys /\ x2 \in Int /\ x3 \in Nat /\ x4 \in Nat
    BY <1>10, <2>6
  <2>8. NodeOf(x1, x2, x3, x4, n1, n2, m, n3, n4) \in NodeCall
    BY <2>4, <2>7, NodeOfTyped, Zenon
  <2> QED BY <2>5, <2>6, <2>8
<1>14. RuleOf(d) = r
  BY <1>8, <1>12 DEF RuleOf
<1>15. p.rule # 0 /\ p.sub <= Len(r.keys)
       /\ (RulesFit => /\ c.max_len <= p.remaining_len
                       /\ p.length + p.remaining_len + Res(r, p.sub + 1) = p.max_len)
  BY <1>7, <1>8 DEF Waits
<1>16. /\ p.rule \in 0..Len(grammar.rules[p.key]) /\ p.sub \in 1..(Len(r.keys) + 1)
       /\ p.asked # 0 => p.max_len = max_tree_len
       /\ RulesFit => p.max_len \in Nat /\ p.consumed = p.length
       /\ NoDebt(p)
  BY <1>7, <1>8, <1>15 DEF NodeFrame
<1>17. PICK k, i : k = p.key /\ i = p.rule
  OBVIOUS
<1>18. k \in Keys /\ i \in 1..Len(grammar.rules[k]) /\ r = grammar.rules[k][i]
  <2>1. k \in Keys
    BY <1>10, <1>17
  <2>2. Len(grammar.rules[k]) \in Nat
    BY <2>1, TabledFacts
  <2> QED BY <1>8, <1>15, <1>16, <1>17, <2>1, <2>2 DEF RuleOf
<1>19. /\ Len(r.keys) \in Nat
       /\ HasCost(r, key_cost) /\ r \in FileRules(file) /\ IsTable(key_cost)
  BY <1>18, RuleFacts
<1>20. p.sub \in 1..Len(r.keys)
  BY <1>15, <1>16, <1>19
<1>21. PICK z : z = Res(r, p.sub + 1)
  OBVIOUS
<1>22. z \in Int
  BY <1>19, <1>20, <1>21, RestFacts
<1>23. c \in NodeCall
  BY <1>1, TopCall DEF Callee
<1>24. c.max_len \in Int
  BY <1>23, NodeWrittenFacts
<1>25. RulesFit => /\ p.remaining_len - m \in Nat
                   /\ p.consumed + m = p.length + l
                   /\ (p.length + l) + (p.remaining_len - m) + z = p.max_len
  <2> SUFFICES ASSUME RulesFit
               PROVE  /\ p.remaining_len - m \in Nat
                      /\ p.consumed + m = p.length + l
                      /\ (p.length + l) + (p.remaining_len - m) + z = p.max_len
    OBVIOUS
  <2>1. l = m /\ l <= c.max_len
    BY <1>1
  <2>2. /\ c.max_len <= p.remaining_len /\ p.remaining_len \in Nat /\ p.consumed = p.length
        /\ p.length + p.remaining_len + z = p.max_len
    <3>1. r.keys # <<>>
      BY <1>19, <1>20
    <3> QED BY <1>8, <1>15, <1>16, <1>21, <3>1 DEF NoDebt, Fitting
  <2>3. PICK a, b, g, h, x : a = p.remaining_len /\ b = p.length /\ g = c.max_len
                             /\ h = p.max_len /\ x = p.consumed
    OBVIOUS
  <2>4. /\ l <= g /\ g <= a /\ a \in Nat /\ g \in Int /\ b \in Nat /\ x = b /\ b + a + z = h
    BY <1>10, <1>24, <2>1, <2>2, <2>3
  <2>5. a - m \in Nat /\ x + m = b + l /\ (b + l) + (a - m) + z = h
    BY <1>22, <2>1, <2>4
  <2> QED BY <2>3, <2>5
<1>26. NodeFrame(d)
  <2>1. d.sub \in 1..(Len(RuleOf(d).keys) + 1)
    BY <1>12, <1>14, <1>19, <1>20
  <2>2. d.rule # 0 /\ d.rule \in 0..Len(grammar.rules[d.key])
        /\ (d.asked # 0 => d.max_len = max_tree_len)
    BY <1>12, <1>15, <1>16
  <2>3. /\ RulesFit => d.max_len \in Nat /\ d.consumed = d.length
        /\ NoDebt(d)
    BY <1>12, <1>15, <1>16, <1>25 DEF NoDebt, Fitting
  <2>4. MadeEnough(d)
    <3>1. PICK e, q, g, h : /\ e = cost[p.key][p.rule].cost /\ q = Res(r, p.sub)
                            /\ g = key_cost[c.key] /\ h = p.length
      OBVIOUS
    <3>2. e <= h + q
      BY <1>7, <1>8, <1>15, <3>1 DEF NodeFrame, MadeEnough
    <3>3. c.key = r.keys[p.sub] /\ g <= l
      BY <1>1, <1>7, <1>8, <3>1 DEF Waits
    <3>4. q \in Int /\ q = g + z
      BY <1>19, <1>20, <1>21, <3>1, <3>3, RestFacts
    <3>5. g \in Nat
      BY <1>18, <1>20, <3>1, <3>3, RuleFacts
    <3>6. e \in Nat /\ h \in Nat
      <4>1. i \in 1..Len(cost[k]) /\ e = cost[k][i].cost
        BY <1>17, <1>18, <3>1, TabledFacts
      <4> QED BY <1>10, <1>18, <3>1, <4>1, TabledFacts
    <3>7. e <= (h + l) + z
      BY <1>22, <3>2, <3>3, <3>4, <3>5, <3>6
    <3>8. cost[d.key][d.rule].cost = e /\ d.length = h + l /\ Res(RuleOf(d), d.sub) = z
      BY <1>12, <1>14, <1>21, <3>1
    <3> QED BY <3>7, <3>8 DEF MadeEnough
  <2> QED BY <2>1, <2>2, <2>3, <2>4 DEF NodeFrame
<1>27. Open(d)
  BY <1>12, <1>14, <1>21, <1>25 DEF Open
<1>28. calls' = [o EXCEPT ![Len(o)] = d]
  BY <1>2, <1>6, <1>9
<1>29. PICK u : u = WithLast(o, d)
  OBVIOUS
<1>30. CallsOK(u) /\ u # <<>> /\ u[Len(u)] = d
  <2>1. d.key = o[Len(o)].key /\ d.max_len = o[Len(o)].max_len
        /\ d.asked = o[Len(o)].asked
    BY <1>6, <1>12
  <2>2. CallsOK(o)
    BY <1>3
  <2> QED BY <1>5, <1>13, <1>26, <1>29, <2>1, <2>2, ReplaceCall
<1> QED BY <1>27, <1>28, <1>29, <1>30 DEF WithLast

LEMMA ReturnNodeCalls ==
  ASSUME BuildInv, pc = "ready", CallsOK(calls), Open(Callee), ReturnNode
  PROVE  \/ calls' = <<>> /\ result' \in Nat \X Nat
         \/ /\ calls' # <<>> /\ CallsOK(calls') /\ Open(calls'[Len(calls')])
            /\ UNCHANGED result
<1>1. PICK c : c = Callee
  OBVIOUS
<1>2. calls # <<>> /\ c.rule # 0 /\ c.sub > Len(RuleOf(c).keys)
      /\ ReturnTree(c.length, c.consumed)
  BY <1>1 DEF ReturnNode
<1>3. PICK l, m : l = c.length /\ m = c.consumed
  OBVIOUS
<1>4. c \in NodeCall /\ NodeFrame(c)
  BY <1>1, <1>2, TopCall DEF Callee
<1>5. l \in Nat /\ m \in Nat /\ c.key \in Keys /\ c.rule \in Nat /\ c.max_len \in Int
  BY <1>3, <1>4, NodeWrittenFacts
<1>6. key_cost[c.key] <= l /\ (RulesFit => l = m /\ (c.asked = 0 => l <= c.max_len))
  <2>1. PICK r, k, i : r = RuleOf(c) /\ k = c.key /\ i = c.rule
    OBVIOUS
  <2>2. /\ i \in 0..Len(grammar.rules[k]) /\ i # 0 /\ c.sub \in 1..(Len(r.keys) + 1)
        /\ NoDebt(c) /\ (RulesFit => c.consumed = c.length)
        /\ cost[k][i].cost <= l + Res(r, c.sub)
    BY <1>2, <1>3, <1>4, <2>1 DEF NodeFrame, MadeEnough
  <2>3. k \in Keys
    BY <1>5, <2>1
  <2>4. Len(grammar.rules[k]) \in Nat
    BY <2>3, TabledFacts
  <2>5. i \in 1..Len(grammar.rules[k]) /\ r = grammar.rules[k][i]
    BY <2>1, <2>2, <2>4 DEF RuleOf
  <2>6. /\ Len(r.keys) \in Nat
        /\ HasCost(r, key_cost) /\ r \in FileRules(file) /\ IsTable(key_cost)
    BY <2>3, <2>5, RuleFacts
  <2>7. c.sub > Len(r.keys)
    BY <1>2, <2>1
  <2>8. c.sub = Len(r.keys) + 1
    <3>1. PICK a, b : a = c.sub /\ b = Len(r.keys)
      OBVIOUS
    <3>2. a \in 1..(b+1) /\ b \in Nat /\ a > b
      BY <2>2, <2>6, <2>7, <3>1
    <3>3. a = b + 1
      BY <3>2
    <3> QED BY <3>1, <3>3
  <2>9. Res(r, c.sub) = 0
    <3>1. Res(r, Len(r.keys) + 1) = 0
      BY <2>6, RestFacts
    <3> QED BY <2>8, <3>1
  <2>10. key_cost[k] <= l
    <3>1. /\ cost[k] \in Seq(Entry) /\ Ascending(cost[k]) /\ Len(cost[k]) \in Nat
          /\ Len(cost[k]) = Len(grammar.rules[k])
          /\ key_cost[k] = cost[k][1].cost /\ key_cost[k] \in Nat
          /\ \A n \in 1..Len(cost[k]) : cost[k][n].cost \in Nat
      BY <2>3, TabledFacts DEF MinCost
    <3>2. 1 \in 1..Len(cost[k]) /\ i \in 1..Len(cost[k])
      BY <2>5, <3>1
    <3>3. cost[k][1].cost <= cost[k][i].cost
      BY <3>1, <3>2, AscendingAll
    <3>4. cost[k][i].cost <= l + 0
      BY <2>2, <2>9
    <3>5. cost[k][i].cost \in Nat
      BY <3>1, <3>2
    <3> QED BY <1>5, <3>1, <3>3, <3>4, <3>5
  <2>11. ASSUME RulesFit PROVE l = m
    BY <1>3, <2>2, <2>11
  <2>12. ASSUME RulesFit, c.asked = 0 PROVE l <= c.max_len
    <3>1. c.length + c.remaining_len + Res(r, c.sub) = c.max_len
      BY <1>1, <1>2, <2>1, <2>12 DEF Open
    <3>2. PICK a : a = c.remaining_len
      OBVIOUS
    <3>3. l + a + 0 = c.max_len
      BY <1>3, <2>9, <3>1, <3>2
    <3>4. a \in Nat
      BY <2>2, <2>12, <3>2 DEF NoDebt, Fitting
    <3> QED BY <1>5, <3>3, <3>4
  <2> QED BY <2>1, <2>10, <2>11, <2>12
<1>7. ReturnTree(l, m)
  BY <1>2, <1>3
<1>8. CASE Len(calls) = 1
  BY <1>5, <1>7, <1>8 DEF ReturnTree
<1>9. CASE Len(calls) # 1
  <2>1. calls' = [Outer EXCEPT ![Len(Outer)] = WithSubnode(@, l, m)] /\ UNCHANGED result
    BY <1>7, <1>9 DEF ReturnTree
  <2>2. c.asked = 0
    <3>1. PICK o : o = Outer
      OBVIOUS
    <3>2. Len(o) = Len(calls) - 1 /\ (o # <<>> => Waits(o[Len(o)], c))
      BY <1>1, <1>2, <3>1, OuterCalls DEF Outer, Callee
    <3>3. o # <<>>
      <4>1. Len(calls) \in Nat /\ Len(calls) > 0
        BY <1>2, TopCall
      <4>2. Len(o) > 0 /\ Len(<<>>) = 0
        BY <1>9, <3>2, <4>1
      <4> QED BY <4>2
    <3> QED BY <3>2, <3>3 DEF Waits
  <2>3. key_cost[Callee.key] <= l /\ (RulesFit => l = m /\ l <= Callee.max_len)
    BY <1>1, <1>6, <2>2
  <2> QED BY <1>2, <1>5, <1>9, <2>1, <2>3, BackInCaller
<1> QED BY <1>8, <1>9

(* Every key has its pool when the generator runs.                         *)
PoolsMade == pc = "ready" => DOMAIN pool = Keys

(* A tree from the pool is the whole result when all rules fit: a subnode  *)
(* has been given the length of its key's shortest text.                   *)
LEMMA PoolTreeCalls ==
  ASSUME BuildInv, PoolsMade, pc = "ready", CallsOK(calls), PoolTree
  PROVE  \/ calls' = <<>> /\ result' \in Nat \X Nat
         \/ /\ calls' # <<>> /\ CallsOK(calls') /\ Open(calls'[Len(calls')])
            /\ UNCHANGED result
<1>1. PICK c : c = Callee
  OBVIOUS
<1>2. /\ calls # <<>> /\ c.rule = 0 /\ c.max_len < MinCost(c.key)
  BY <1>1 DEF PoolTree
<1>3. PICK l \in pool[c.key] : ReturnTree(l, Unchanged)
  BY <1>1 DEF PoolTree
<1>4. PICK k : k = c.key
  OBVIOUS
<1>5. c \in NodeCall
  BY <1>1, <1>2, TopCall DEF Callee
<1>6. k \in Keys /\ c.max_len \in Int
  BY <1>4, <1>5, NodeWrittenFacts
<1>7. MinCost(k) \in Nat /\ key_cost[k] \in Nat
  BY <1>6, TabledFacts
<1>8. l \in Nat /\ key_cost[Callee.key] <= l
  <2>1. pool[k] = {key_cost[k]}
    BY <1>6 DEF BuildInv, Pooling, PoolsMade
  <2> QED BY <1>1, <1>3, <1>4, <1>7, <2>1
<1>9. CASE Len(calls) = 1
  <2>1. Unchanged = 0
    BY <1>9 DEF Unchanged
  <2> QED BY <1>3, <1>8, <1>9, <2>1 DEF ReturnTree
<1>10. CASE Len(calls) # 1
  <2>1. PICK m : m = Unchanged
    OBVIOUS
  <2>2. PICK o : o = Outer
    OBVIOUS
  <2>3. /\ CallsOK(o) /\ Len(o) = Len(calls) - 1
        /\ o # <<>> => /\ Len(o) > 0 /\ Waits(o[Len(o)], c)
                       /\ o[Len(o)] = calls[Len(calls) - 1]
    BY <1>1, <1>2, <2>2, OuterCalls DEF Outer, Callee
  <2>4. o # <<>>
    <3>1. Len(calls) \in Nat /\ Len(calls) > 0
      BY <1>2, TopCall
    <3>2. Len(o) > 0 /\ Len(<<>>) = 0
      BY <1>10, <2>3, <3>1
    <3> QED BY <3>2
  <2>5. PICK p : p = o[Len(o)]
    OBVIOUS
  <2>6. p \in NodeCall /\ Waits(p, c) /\ p = Caller
    BY <2>3, <2>4, <2>5, TopCall DEF Caller
  <2>7. m \in Nat
    <3>1. p.subnode_consumed \in Nat
      BY <2>6, NodeWrittenFacts
    <3>2. m = p.subnode_consumed
      BY <1>10, <2>1, <2>6 DEF Unchanged
    <3> QED BY <3>1, <3>2
  <2>8. ~ RulesFit
    <3>1. RulesFit => MinCost(k) <= c.max_len
      BY <1>4, <2>6 DEF Waits
    <3>2. c.max_len < MinCost(k)
      BY <1>2, <1>4
    <3> QED BY <1>6, <1>7, <3>1, <3>2
  <2>9. calls' = [Outer EXCEPT ![Len(Outer)] = WithSubnode(@, l, m)] /\ UNCHANGED result
    BY <1>3, <1>10, <2>1 DEF ReturnTree
  <2> QED BY <1>2, <1>8, <1>10, <2>7, <2>8, <2>9, BackInCaller
<1> QED BY <1>9, <1>10

LEMMA OneCall ==
  ASSUME NEW c \in NodeCall, NodeFrame(c), Open(c), calls' = <<c>>
  PROVE  calls' # <<>> /\ CallsOK(calls') /\ Open(calls'[Len(calls')])
<1>1. CallsOK(<<>>)
  BY DEF CallsOK
<1>2. PICK s : s = <<>>
  OBVIOUS
<1>3. PICK u : u = Append(s, c)
  OBVIOUS
<1>4. CallsOK(s) /\ ~ (s # <<>>)
  BY <1>1, <1>2
<1>5. CallsOK(u) /\ u # <<>> /\ u[Len(u)] = c
  BY <1>3, <1>4, PushCall
<1>6. u = <<c>>
  BY <1>2, <1>3
<1> QED BY <1>5, <1>6

LEMMA StartListed ==
  ASSUME BuildInv, pc = "ready", file \in Generated
  PROVE  Len(grammar.keys) > 0
<1>1. Reading /\ KeysListed
  BY DEF BuildInv, CostInv
<1>2. /\ file \in Grammars /\ called = Len(Calls[file]) /\ Calls[file] # <<>>
      /\ Keys = {Calls[file][n].key : n \in 1..called}
  BY <1>1, GeneratorAssumption DEF Reading
<1>3. Len(Calls[file]) > 0 /\ Len(Calls[file]) \in Nat
  <2> DEFINE V == [key : FileKeys(file), rule : FileRules(file)]
             s == Calls[file]
  <2>1. s \in Seq(V) /\ s # <<>>
    BY <1>2, CallsAssumption
  <2> HIDE DEF s, V
  <2>2. Len(s) > 0 /\ Len(s) \in Nat
    BY <2>1
  <2> QED BY <2>2 DEF s
<1>4. Calls[file][1].key \in Keys
  <2>1. 1 \in 1..called
    BY <1>2, <1>3
  <2> QED BY <1>2, <2>1
<1>5. PICK i \in 1..Len(grammar.keys) : grammar.keys[i] = Calls[file][1].key
  BY <1>1, <1>4 DEF KeysListed
<1>6. Len(grammar.keys) \in Nat
  BY <1>1, GrammarTyping
<1> QED BY <1>5, <1>6

LEMMA CallGenNodeCalls ==
  ASSUME BuildInv, CallGenNode
  PROVE  calls' # <<>> /\ CallsOK(calls') /\ Open(calls'[Len(calls')])
<1>1. pc = "ready" /\ file \in Generated
  BY DEF CallGenNode
<1>2. InitLens \subseteq Nat /\ max_tree_len \in Nat
  BY GeneratorAssumption
<1>3. PICK k, m, i : /\ calls' = <<GenNode(k, m, i)>>
                     /\ k \in Keys /\ m \in Nat /\ i \in Int /\ i + 1 \in Nat
                     /\ i + 1 # 0 => m = max_tree_len
  <2>1. -1 \in Int /\ -1 + 1 = 0 /\ 0 \in Nat
    OBVIOUS
  <2>2. ASSUME NEW len \in InitLens, calls' = <<GenNode(grammar.keys[1], len, -1)>>
        PROVE  grammar.keys[1] \in Keys /\ len \in Nat
    <3>1. Reading /\ KeysListed
      BY DEF BuildInv, CostInv
    <3>2. Len(grammar.keys) \in Nat /\ \A j \in 1..Len(grammar.keys) : grammar.keys[j] \in Keys
      BY <3>1, GrammarTyping
    <3>3. Len(grammar.keys) > 0
      BY <1>1, StartListed
    <3> QED BY <1>2, <3>2, <3>3
  <2>3. CASE \E len \in InitLens : calls' = <<GenNode(grammar.keys[1], len, -1)>>
    BY <2>1, <2>2, <2>3
  <2>4. CASE \E l \in Keys : calls' = <<GenNode(l, max_tree_len, -1)>>
    BY <1>2, <2>1, <2>4
  <2>5. CASE \E l \in Keys : \E j \in DOMAIN grammar.rules[l] :
               calls' = <<GenNode(l, max_tree_len, j - 1)>>
    <3>0. PICK l \in Keys : \E j \in DOMAIN grammar.rules[l] :
            calls' = <<GenNode(l, max_tree_len, j - 1)>>
      BY <2>5
    <3>1. PICK j \in DOMAIN grammar.rules[l] :
            calls' = <<GenNode(l, max_tree_len, j - 1)>>
      BY <3>0
    <3>2. DOMAIN grammar.rules[l] = 1..Len(grammar.rules[l])
      BY <1>1, TabledFacts
    <3>3. j \in Int /\ j - 1 \in Int /\ (j - 1) + 1 \in Nat
      BY <3>2
    <3> QED BY <1>2, <3>1, <3>3
  <2>6. CASE \E l \in Keys : calls' = <<GenNode(l, 0, -1)>>
    BY <2>1, <2>6
  <2> QED BY <2>3, <2>4, <2>5, <2>6 DEF CallGenNode
<1>4. PICK d : d = GenNode(k, m, i)
  OBVIOUS
<1>5. d \in NodeCall /\ NodeFrame(d) /\ Open(d)
  BY <1>3, <1>4, NewCall
<1> QED BY <1>3, <1>4, <1>5, OneCall

-----------------------------------------------------------------------------
(* The invariant.                                                          *)
GenInv == BuildInv /\ PoolsMade /\ Generating

LEMMA NextPoolsMade ==
  ASSUME BuildInv, PoolsMade, [Build]_buildVars
  PROVE  PoolsMade'
<1>1. CASE WriteSource
  <2>1. /\ Cardinality(DOMAIN pool) = Len(grammar.keys) /\ UNCHANGED <<grammar, pool>>
    BY <1>1 DEF WriteSource, poolVars
  <2>2. IsFiniteSet(Keys) /\ Cardinality(Keys) = Len(grammar.keys)
    BY KeysCount DEF BuildInv, CostInv
  <2>3. DOMAIN pool \in SUBSET Keys
    BY DEF BuildInv, Pooling
  <2>4. DOMAIN pool = Keys
    BY <2>1, <2>2, <2>3, FS_Subset
  <2> QED BY <2>1, <2>4 DEF PoolsMade, Keys
<1>2. CASE UNCHANGED buildVars
  BY <1>2 DEF PoolsMade, Keys, buildVars, poolVars
<1>3. CASE Build /\ ~ WriteSource
  <2>1. CASE CallSubnode \/ NextCheapRule \/ ReturnTrees
    <3>1. stack # <<>> /\ UNCHANGED pc
      BY <2>1 DEF CallSubnode, NextCheapRule, ReturnTrees
    <3>2. pc = "complete"
      BY <3>1, TopFacts DEF BuildInv
    <3> QED BY <3>1, <3>2 DEF PoolsMade
  <2>2. CASE Rule \/ LoadGrammar \/ VisitRule \/ NextKey \/ EndPass
             \/ Translate \/ OrderRules \/ CompleteKey
    BY <2>2 DEF PoolsMade, Rule, LoadGrammar, VisitRule, NextKey, EndPass, Translate,
                OrderRules, CompleteKey
  <2> QED BY <1>3, <2>1, <2>2 DEF Build
<1> QED BY <1>1, <1>2, <1>3

(* The build is over before the generator runs.                            *)
LEMMA BuildOver == ASSUME BuildInv, pc = "ready" PROVE ~ Build
<1>1. ~ (CallSubnode \/ NextCheapRule \/ ReturnTrees)
  <2> SUFFICES ASSUME CallSubnode \/ NextCheapRule \/ ReturnTrees PROVE FALSE
    OBVIOUS
  <2>1. stack # <<>>
    BY DEF CallSubnode, NextCheapRule, ReturnTrees
  <2> QED BY <2>1, TopFacts DEF BuildInv
<1>2. ~ (Rule \/ LoadGrammar \/ VisitRule \/ NextKey \/ EndPass
         \/ Translate \/ OrderRules \/ CompleteKey \/ WriteSource)
  BY DEF Rule, LoadGrammar, VisitRule, NextKey, EndPass, Translate,
         OrderRules, CompleteKey, WriteSource
<1> QED BY <1>1, <1>2 DEF Build

LEMMA CallsStay ==
  ASSUME NEW s, CallsOK(s), UNCHANGED <<grammar, key_cost, cost>>
  PROVE  CallsOK(s)'
<1>1. Keys' = Keys /\ RulesFit' = RulesFit /\ AllRulesFit' = AllRulesFit
  BY DEF Keys, RulesFit, AllRulesFit
<1>2. (NodeCall)' = NodeCall
  BY <1>1 DEF NodeCall
<1>3. ASSUME NEW c PROVE RuleOf(c)' = RuleOf(c)
  BY DEF RuleOf
<1>4. ASSUME NEW c, NodeFrame(c) PROVE NodeFrame(c)'
  <2>1. Res(RuleOf(c), c.sub)' = Res(RuleOf(c), c.sub)
    BY <1>3 DEF Res, SumOver
  <2>2. MadeEnough(c)'
    BY <1>3, <1>4, <2>1 DEF NodeFrame, MadeEnough
  <2>3. NoDebt(c)'
    BY <1>1, <1>3, <1>4 DEF NodeFrame, NoDebt, Fitting
  <2> QED BY <1>1, <1>3, <1>4, <2>2, <2>3 DEF NodeFrame
<1>5. ASSUME NEW c, NEW d, Waits(c, d) PROVE Waits(c, d)'
  <2>1. Res(RuleOf(c), c.sub + 1)' = Res(RuleOf(c), c.sub + 1)
    BY <1>3 DEF Res, SumOver
  <2>2. MinCost(d.key)' = MinCost(d.key)
    BY DEF MinCost
  <2> QED BY <1>1, <1>3, <1>5, <2>1, <2>2 DEF Waits
<1>6. s \in Seq(NodeCall)'
  BY <1>2 DEF CallsOK
<1>7. \A i \in 1..Len(s) : NodeFrame(s[i])'
  BY <1>4 DEF CallsOK
<1>8. \A i \in 1..(Len(s) - 1) : Waits(s[i], s[i+1])'
  BY <1>5 DEF CallsOK
<1> QED BY <1>6, <1>7, <1>8 DEF CallsOK

LEMMA OpenStays ==
  ASSUME NEW c, Open(c), UNCHANGED <<grammar, key_cost, cost>>
  PROVE  Open(c)'
<1>1. RulesFit' = RulesFit /\ RuleOf(c)' = RuleOf(c)
  BY DEF RulesFit, RuleOf
<1>2. Res(RuleOf(c), c.sub)' = Res(RuleOf(c), c.sub)
  BY <1>1 DEF Res, SumOver
<1> QED BY <1>1, <1>2 DEF Open

LEMMA NoCalls ==
  ASSUME calls = <<>>, result \in {<<>>} \cup (Nat \X Nat)
  PROVE  Generating
BY DEF Generating

LEMMA CallsGiveGenerating ==
  ASSUME BuildInv, pc = "ready", UNCHANGED buildVars,
         CallsOK(calls'), Open(calls'[Len(calls')]), calls' # <<>>,
         result' \in {<<>>} \cup (Nat \X Nat)
  PROVE  Generating'
<1>1. UNCHANGED <<pc, grammar, key_cost, cost>>
  BY DEF buildVars, costVars
<1>2. PICK s : s = calls'
  OBVIOUS
<1>3. PICK c : c = s[Len(s)]
  OBVIOUS
<1>4. CallsOK(s)' /\ Open(c)'
  BY <1>1, <1>2, <1>3, CallsStay, OpenStays
<1>5. CallsOK(calls)'
  BY <1>2, <1>4
<1>6. (Callee)' = c
  BY <1>2, <1>3 DEF Callee
<1>7. Open(Callee)'
  BY <1>4, <1>6
<1>8. (calls \in Seq(NodeCall))'
  BY <1>5 DEF CallsOK
<1> QED BY <1>1, <1>5, <1>7, <1>8 DEF Generating

LEMMA GenerateKeepsGenerating ==
  ASSUME BuildInv, PoolsMade, Generating, Generate
  PROVE  Generating'
<1>1. result \in {<<>>} \cup (Nat \X Nat) /\ UNCHANGED buildVars
  BY DEF Generating, Generate, CallGenNode, PoolTree, ChooseRule, CallGenSubnode, ReturnNode
<1>2. CASE CallGenNode
  <2>1. pc = "ready" /\ UNCHANGED result
    BY <1>2 DEF CallGenNode
  <2>2. calls' # <<>> /\ CallsOK(calls') /\ Open(calls'[Len(calls')])
    BY <1>2, CallGenNodeCalls
  <2> QED BY <1>1, <2>1, <2>2, CallsGiveGenerating
<1>3. CASE PoolTree \/ ChooseRule \/ CallGenSubnode \/ ReturnNode
  <2>1. calls # <<>>
    BY <1>3 DEF PoolTree, ChooseRule, CallGenSubnode, ReturnNode
  <2>2. pc = "ready" /\ CallsOK(calls) /\ Open(Callee)
    BY <2>1 DEF Generating
  <2>3. CASE ChooseRule
    <3>1. UNCHANGED result
      BY <2>3 DEF ChooseRule
    <3> QED BY <1>1, <2>2, <2>3, <3>1, ChooseRuleCalls, CallsGiveGenerating
  <2>4. CASE CallGenSubnode
    <3>1. UNCHANGED result
      BY <2>4 DEF CallGenSubnode
    <3> QED BY <1>1, <2>2, <2>4, <3>1, CallGenSubnodeCalls, CallsGiveGenerating
  <2>5. CASE PoolTree \/ ReturnNode
    <3>1. \/ calls' = <<>> /\ result' \in Nat \X Nat
          \/ /\ calls' # <<>> /\ CallsOK(calls') /\ Open(calls'[Len(calls')])
             /\ UNCHANGED result
      BY <2>2, <2>5, PoolTreeCalls, ReturnNodeCalls
    <3>2. CASE calls' = <<>> /\ result' \in Nat \X Nat
      BY <3>2 DEF Generating
    <3>3. CASE calls' # <<>> /\ CallsOK(calls') /\ Open(calls'[Len(calls')]) /\ UNCHANGED result
      BY <1>1, <2>2, <3>3, CallsGiveGenerating
    <3> QED BY <3>1, <3>2, <3>3
  <2> QED BY <1>3, <2>3, <2>4, <2>5
<1> QED BY <1>2, <1>3 DEF Generate

LEMMA StutterKeepsGenerating ==
  ASSUME BuildInv, Generating, UNCHANGED vars
  PROVE  Generating'
<1>1. UNCHANGED <<buildVars, calls, result>>
  BY DEF vars, genVars
<1>2. CASE calls = <<>>
  BY <1>1, <1>2 DEF Generating
<1>3. CASE calls # <<>>
  <2>1. pc = "ready" /\ CallsOK(calls) /\ Open(Callee)
        /\ result \in {<<>>} \cup (Nat \X Nat)
    BY <1>3 DEF Generating
  <2>2. CallsOK(calls') /\ Open(calls'[Len(calls')]) /\ calls' # <<>>
    BY <1>1, <1>3, <2>1 DEF Callee
  <2> QED BY <1>1, <2>1, <2>2, CallsGiveGenerating
<1> QED BY <1>2, <1>3

LEMMA NextGenInv == GenInv /\ [Next]_vars => GenInv'
<1> SUFFICES ASSUME GenInv, [Next]_vars PROVE GenInv'
  OBVIOUS
<1>1. BuildInv /\ PoolsMade /\ Generating
  BY DEF GenInv
<1>2. [Build]_buildVars
  BY DEF Next, Generate, CallGenNode, PoolTree, ChooseRule, CallGenSubnode, ReturnNode,
         Finished, vars
<1>3. BuildInv' /\ PoolsMade'
  BY <1>1, <1>2, NextBuildInv, NextPoolsMade
<1>4. Generating'
  <2>1. CASE Build /\ UNCHANGED genVars
    <3>1. calls = <<>>
      <4>1. pc # "ready"
        BY <1>1, <2>1, BuildOver
      <4> QED BY <1>1, <4>1 DEF Generating
    <3>2. calls' = <<>> /\ result' \in {<<>>} \cup (Nat \X Nat)
      BY <1>1, <2>1, <3>1 DEF genVars, Generating
    <3> QED BY <3>2 DEF Generating
  <2>2. CASE Generate
    BY <1>1, <2>2, GenerateKeepsGenerating
  <2>3. CASE UNCHANGED vars
    BY <1>1, <2>3, StutterKeepsGenerating
  <2>4. Finished => UNCHANGED vars
    BY DEF Finished
  <2> QED BY <2>1, <2>2, <2>3, <2>4 DEF Next
<1> QED BY <1>3, <1>4 DEF GenInv

LEMMA InitGenInv == Init => GenInv
<1> SUFFICES ASSUME Init PROVE GenInv
  OBVIOUS
<1>1. BuildInit /\ calls = <<>> /\ result = <<>>
  BY DEF Init
<1>2. BuildInv
  BY <1>1, InitBuildInv
<1>3. PoolsMade
  BY <1>1 DEF BuildInit, PoolsMade
<1>4. Generating
  BY <1>1, NoCalls
<1> QED BY <1>2, <1>3, <1>4 DEF GenInv

LEMMA SpecKeepsGenInv == Spec => []GenInv
BY InitGenInv, NextGenInv, PTL DEF Spec

-----------------------------------------------------------------------------
(* What follows from it.                                                   *)
LEMMA EveryCall ==
  ASSUME Generating, NEW i \in DOMAIN calls, NEW c, c = calls[i]
  PROVE  /\ pc = "ready" /\ Len(calls) \in Nat /\ i \in 1..Len(calls)
         /\ c \in NodeCall /\ NodeFrame(c)
         /\ i = Len(calls) => Open(c)
         /\ i < Len(calls) => Waits(c, calls[i+1])
<1> DEFINE C == NodeCall
<1>1. calls \in Seq(C)
  BY DEF Generating
<1> HIDE DEF C
<1>2. Len(calls) \in Nat /\ i \in 1..Len(calls)
  BY <1>1
<1>3. calls # <<>>
  BY <1>2
<1>4. /\ pc = "ready" /\ CallsOK(calls) /\ Open(Callee)
  BY <1>3 DEF Generating
<1>5. c \in C
  BY <1>1, <1>2, ElementOfSeq
<1>6. NodeFrame(c)
  BY <1>2, <1>4 DEF CallsOK
<1>7. i = Len(calls) => Open(c)
  BY <1>4 DEF Callee
<1>8. i < Len(calls) => Waits(c, calls[i+1])
  <2> SUFFICES ASSUME i < Len(calls) PROVE Waits(c, calls[i+1])
    OBVIOUS
  <2>1. i \in 1..(Len(calls) - 1)
    BY <1>2
  <2> QED BY <1>4, <2>1 DEF CallsOK
<1> QED BY <1>2, <1>4, <1>5, <1>6, <1>7, <1>8 DEF C

LEMMA ReservedIsRes ==
  ASSUME NEW c, NEW from, c.rule # 0
  PROVE  Reserved(c, from) = Res(RuleOf(c), from)
BY DEF Reserved, Res

LEMMA AllTyped == GenInv /\ AllRulesFit => TypeOK
<1> SUFFICES ASSUME GenInv, AllRulesFit PROVE TypeOK
  OBVIOUS
<1>1. BuildInv /\ Generating
  BY DEF GenInv
<1>2. BuildTypeOK
  BY <1>1, BuildTyped DEF BuildInv
<1>3. ASSUME NEW i \in DOMAIN calls
      PROVE  /\ calls[i].key \in Keys
             /\ calls[i].asked \in Nat
             /\ calls[i].rule \in 0..Len(grammar.rules[calls[i].key])
             /\ \A n \in {"max_len", "sub", "remaining_len", "subnode_consumed",
                          "consumed", "length"} : calls[i][n] \in Nat
  <2>1. PICK c : c = calls[i]
    OBVIOUS
  <2>2. c \in NodeCall /\ NodeFrame(c)
    BY <1>1, <2>1, EveryCall
  <2>3. /\ c.key \in Keys /\ c.asked \in Nat /\ c.sub \in Nat
        /\ c.subnode_consumed \in Nat /\ c.consumed \in Nat /\ c.length \in Nat
    BY <2>2, NodeWrittenFacts
  <2>4. /\ c.max_len \in Nat /\ c.remaining_len \in Nat
        /\ c.rule \in 0..Len(grammar.rules[c.key])
    BY <2>2, FitAll DEF NodeFrame, NoDebt, Fitting
  <2> QED BY <2>1, <2>3, <2>4
<1>4. result \in {<<>>} \cup (Nat \X Nat)
  BY <1>1 DEF Generating
<1> QED BY <1>2, <1>3, <1>4 DEF TypeOK

(* gen_node_* (f1_c_gen.py): as long as every rule fits max_tree_len, no   *)
(* call ever has a negative budget, every rule chosen exists, and what is  *)
(* reported is a length.                                                   *)
THEOREM GeneratorTypes == Spec => [](AllRulesFit => TypeOK)
BY SpecKeepsGenInv, AllTyped, PTL

(* As long as every rule with subnodes fits max_tree_len, the text made so *)
(* far, the budget that is left and the shortest texts of what is to come  *)
(* make up max_len, at every level of the recursion: no tree is longer.    *)
THEOREM TextsWithinBudget == Spec => [](RulesFit => LengthWithinMax)
<1>1. ASSUME GenInv, RulesFit PROVE LengthWithinMax
  <2>1. Generating
    BY <1>1 DEF GenInv
  <2>2. ASSUME NEW i \in DOMAIN calls, NEW c, c = calls[i], c.rule # 0
        PROVE  /\ i = Len(calls) =>
                    c.length + c.remaining_len + Reserved(c, c.sub) = c.max_len
               /\ i < Len(calls) =>
                    /\ c.length + c.remaining_len + Reserved(c, c.sub + 1) = c.max_len
                    /\ calls[i + 1].max_len <= c.remaining_len
    <3>1. /\ i = Len(calls) => Open(c)
          /\ i < Len(calls) => Waits(c, calls[i+1])
      BY <2>1, <2>2, EveryCall
    <3>2. Reserved(c, c.sub) = Res(RuleOf(c), c.sub)
          /\ Reserved(c, c.sub + 1) = Res(RuleOf(c), c.sub + 1)
      BY <2>2, ReservedIsRes
    <3> QED BY <1>1, <2>2, <3>1, <3>2 DEF Open, Waits
  <2> QED BY <2>2 DEF LengthWithinMax
<1> QED BY SpecKeepsGenInv, <1>1, PTL

(* As long as every rule with subnodes fits max_tree_len, what a call adds *)
(* to *consumed is the length of the text it made.                         *)
THEOREM ConsumedIsTheLength == Spec => [](RulesFit => ConsumedIsLength)
<1>1. ASSUME GenInv, RulesFit PROVE ConsumedIsLength
  <2>1. Generating
    BY <1>1 DEF GenInv
  <2>2. ASSUME NEW i \in DOMAIN calls PROVE calls[i].consumed = calls[i].length
    <3>1. PICK c : c = calls[i]
      OBVIOUS
    <3>2. NodeFrame(c)
      BY <2>1, <3>1, EveryCall
    <3> QED BY <1>1, <3>1, <3>2 DEF NodeFrame
  <2> QED BY <2>2 DEF ConsumedIsLength
<1> QED BY SpecKeepsGenInv, <1>1, PTL

(* gen_num_candidate_rules: in every call, whatever its budget, the rules  *)
(* to draw from are exactly those whose shortest text fits.                *)
THEOREM RulesDrawnFit == Spec => []AllFittingRulesMayBeChosen
<1>1. ASSUME GenInv PROVE AllFittingRulesMayBeChosen
  <2>1. BuildInv /\ Generating
    BY <1>1 DEF GenInv
  <2>2. ASSUME calls # <<>>, Callee.rule = 0, Callee.max_len >= MinCost(Callee.key)
        PROVE  1..RulesThatFit(Callee.key, Callee.max_len) =
                 {i \in DOMAIN cost[Callee.key] : cost[Callee.key][i].cost <= Callee.max_len}
    <3>1. pc = "ready" /\ CallsOK(calls)
      BY <2>1, <2>2 DEF Generating
    <3>2. Callee \in NodeCall
      BY <2>2, <3>1, TopCall DEF Callee
    <3>3. PICK k, m : k = Callee.key /\ m = Callee.max_len
      OBVIOUS
    <3>4. k \in Keys /\ m \in Int
      BY <3>2, <3>3, NodeWrittenFacts
    <3>5. m >= MinCost(k)
      BY <2>2, <3>3
    <3>6. 1..RulesThatFit(k, m) = {i \in DOMAIN cost[k] : cost[k][i].cost <= m}
      BY <2>1, <3>1, <3>4, <3>5, FittingRules
    <3> QED BY <3>3, <3>6
  <2> QED BY <2>2 DEF AllFittingRulesMayBeChosen
<1> QED BY SpecKeepsGenInv, <1>1, PTL

-----------------------------------------------------------------------------
(* The recursion of gen_node_*.  No key leads back to itself by rules      *)
(* whose shortest text is all that of the key.                             *)
RulesEnd ==
  \E rank \in [Keys -> Nat] :
    \A k \in Keys : \A i \in DOMAIN grammar.rules[k] :
      LET r == grammar.rules[k][i]
      IN \A j \in DOMAIN r.keys :
           key_cost[r.keys[j]] = ExpansionCost(r, key_cost) => rank[r.keys[j]] < rank[k]

(* A subnode gets all of its caller's budget only if nothing of the        *)
(* caller's text is made and nothing is to come.                           *)
LEMMA WholeBudget ==
  ASSUME BuildInv, pc = "ready", RulesFit, NEW c \in NodeCall, NodeFrame(c),
         NEW d \in NodeCall, Waits(c, d), NEW r, r = RuleOf(c)
  PROVE  /\ d.max_len <= c.max_len
         /\ c.sub \in DOMAIN r.keys /\ d.key = r.keys[c.sub]
         /\ c.rule \in DOMAIN grammar.rules[c.key] /\ r = grammar.rules[c.key][c.rule]
         /\ d.max_len = c.max_len => key_cost[d.key] = ExpansionCost(r, key_cost)
<1>1. PICK k, i, n : k = c.key /\ i = c.rule /\ n = c.sub
  OBVIOUS
<1>2. PICK l, m, q, x, z : /\ l = c.length /\ m = c.max_len /\ q = c.remaining_len
                           /\ x = d.max_len /\ z = Res(r, n+1)
  OBVIOUS
<1>3. k \in Keys /\ m \in Int /\ q \in Int /\ l \in Nat /\ x \in Int
  BY <1>1, <1>2, NodeWrittenFacts
<1>4. /\ i # 0 /\ n <= Len(r.keys) /\ d.key = r.keys[n] /\ x <= q /\ l + q + z = m
  BY <1>1, <1>2 DEF Waits
<1>5. /\ i \in 0..Len(grammar.rules[k]) /\ n \in 1..(Len(r.keys) + 1)
      /\ cost[k][i].cost <= l + Res(r, n)
  BY <1>1, <1>2, <1>4 DEF NodeFrame, MadeEnough
<1>6. /\ Len(grammar.rules[k]) \in Nat /\ Len(cost[k]) = Len(grammar.rules[k])
      /\ DOMAIN grammar.rules[k] = 1..Len(grammar.rules[k])
      /\ \A j \in 1..Len(cost[k]) : cost[k][j].cost \in Nat
  BY <1>3, TabledFacts
<1>7. i \in 1..Len(grammar.rules[k]) /\ r = grammar.rules[k][i]
  BY <1>1, <1>4, <1>5, <1>6 DEF RuleOf
<1>8. /\ r.text \in Nat /\ Len(r.keys) \in Nat
      /\ \A j \in 1..Len(r.keys) : r.keys[j] \in Keys /\ key_cost[r.keys[j]] \in Nat
      /\ HasCost(r, key_cost) /\ r \in FileRules(file) /\ IsTable(key_cost)
  BY <1>3, <1>7, RuleFacts
<1>9. cost[k][i].cost = ExpansionCost(r, key_cost)
  BY <1>3, <1>6, <1>7 DEF BuildInv, Tabling, Tabled
<1>10. n \in 1..Len(r.keys)
  BY <1>4, <1>5, <1>8
<1>11. n \in DOMAIN r.keys
  BY <1>8, <1>10, RuleTyping
<1>12. z \in Nat
  <2>1. n \in 0..Len(r.keys)
    BY <1>8, <1>10
  <2> QED BY <1>2, <1>8, <2>1, Rest
<1>13. PICK g, e : g = key_cost[d.key] /\ e = ExpansionCost(r, key_cost)
  OBVIOUS
<1>14. Res(r, n) = g + z /\ g \in Nat
  BY <1>2, <1>4, <1>8, <1>10, <1>13, RestFacts
<1>15. g <= e
  BY <1>4, <1>8, <1>10, <1>13, CostAboveKeys
<1>16. e \in Nat /\ e <= l + (g + z)
  BY <1>5, <1>6, <1>7, <1>9, <1>13, <1>14
<1>17. x <= m
  BY <1>3, <1>4, <1>12
<1>18. x = m => g = e
  <2> SUFFICES ASSUME x = m PROVE g = e
    OBVIOUS
  <2>1. l = 0 /\ z = 0
    BY <1>3, <1>4, <1>12
  <2> QED BY <1>14, <1>15, <1>16, <2>1
<1> QED BY <1>1, <1>2, <1>4, <1>6, <1>7, <1>11, <1>13, <1>17, <1>18

(* gen_node_* (f1_c_gen.py): a key is generated inside itself only with a  *)
(* smaller budget, so the calls end, if all rules with subnodes fit        *)
(* max_tree_len and no rules lead from a key back to it without any other  *)
(* text: what a call reports as consumed is never less than the shortest   *)
(* text of its key.                                                        *)
THEOREM RecursionEnds == Spec => [](RulesFit /\ RulesEnd => BudgetShrinks)
<1>1. ASSUME GenInv, RulesFit, RulesEnd PROVE BudgetShrinks
  <2>1. BuildInv /\ Generating
    BY <1>1 DEF GenInv
  <2>2. PICK rank \in [Keys -> Nat] :
          \A k \in Keys : \A i \in DOMAIN grammar.rules[k] :
            \A j \in DOMAIN grammar.rules[k][i].keys :
              key_cost[grammar.rules[k][i].keys[j]] =
                  ExpansionCost(grammar.rules[k][i], key_cost) =>
                rank[grammar.rules[k][i].keys[j]] < rank[k]
    BY <1>1 DEF RulesEnd
  <2>3. PICK N : N = Len(calls)
    OBVIOUS
  <2>4. N \in Nat /\ DOMAIN calls = 1..N
    <3> DEFINE C == NodeCall
    <3>1. calls \in Seq(C)
      BY <2>1 DEF Generating
    <3> HIDE DEF C
    <3> QED BY <2>3, <3>1
  <2> DEFINE a == [i \in 1..N |-> calls[i].max_len]
             b == [i \in 1..N |-> rank[calls[i].key]]
  <2>5. ASSUME NEW i \in 1..N PROVE a[i] \in Int /\ b[i] \in Int
    <3>1. PICK c : c = calls[i]
      OBVIOUS
    <3>2. c \in NodeCall
      BY <2>1, <2>4, <3>1, EveryCall
    <3>3. c.key \in Keys /\ c.max_len \in Int
      BY <3>2, NodeWrittenFacts
    <3>4. rank[c.key] \in Int
      BY <2>2, <3>3
    <3> QED BY <3>1, <3>3, <3>4
  <2>6. ASSUME NEW i \in 1..(N-1) PROVE Falls(a, b, i, i+1)
    <3>1. i \in 1..N /\ i+1 \in 1..N /\ i < N
      BY <2>4
    <3>2. PICK c, d, r : c = calls[i] /\ d = calls[i+1] /\ r = RuleOf(c)
      OBVIOUS
    <3>3. pc = "ready" /\ c \in NodeCall /\ NodeFrame(c) /\ Waits(c, d)
      BY <2>1, <2>3, <2>4, <3>1, <3>2, EveryCall
    <3>4. d \in NodeCall
      BY <2>1, <2>4, <3>1, <3>2, EveryCall
    <3>5. /\ d.max_len <= c.max_len
          /\ c.sub \in DOMAIN r.keys /\ d.key = r.keys[c.sub]
          /\ c.rule \in DOMAIN grammar.rules[c.key] /\ r = grammar.rules[c.key][c.rule]
          /\ d.max_len = c.max_len => key_cost[d.key] = ExpansionCost(r, key_cost)
      BY <1>1, <2>1, <3>2, <3>3, <3>4, WholeBudget
    <3>6. c.key \in Keys /\ c.max_len \in Int /\ d.max_len \in Int
      BY <3>3, <3>4, NodeWrittenFacts
    <3>7. d.max_len = c.max_len => rank[d.key] < rank[c.key]
      BY <2>2, <3>5, <3>6
    <3>8. d.max_len < c.max_len \/ (d.max_len = c.max_len /\ rank[d.key] < rank[c.key])
      <4>1. PICK x, y : x = d.max_len /\ y = c.max_len
        OBVIOUS
      <4>2. x \in Int /\ y \in Int /\ x <= y
        BY <3>5, <3>6, <4>1
      <4>3. x < y \/ x = y
        BY <4>2
      <4> QED BY <3>7, <4>1, <4>3
    <3>9. /\ a[i] = c.max_len /\ a[i+1] = d.max_len
          /\ b[i] = rank[c.key] /\ b[i+1] = rank[d.key]
      BY <3>1, <3>2
    <3> HIDE DEF a, b
    <3> QED BY <3>8, <3>9 DEF Falls
  <2>7. ASSUME NEW i \in 1..N, NEW j \in 1..N, i < j, calls[i].key = calls[j].key
        PROVE  calls[j].max_len < calls[i].max_len
    <3>1. j \in (i+1)..N
      BY <2>4, <2>7
    <3>2. Falls(a, b, i, j)
      <4> HIDE DEF a, b
      <4> QED BY <2>4, <2>5, <2>6, <3>1, FallsFurther
    <3>3. b[i] = b[j]
      BY <2>7
    <3>4. a[j] < a[i]
      <4> HIDE DEF a, b
      <4> QED BY <2>5, <3>2, <3>3 DEF Falls
    <3> QED BY <3>4
  <2> QED BY <2>4, <2>7 DEF BudgetShrinks
<1> QED BY SpecKeepsGenInv, <1>1, PTL

(* The generator's runs are runs of the build: all that is proved of       *)
(* BuildSpec holds of them.                                                *)
THEOREM GeneratorBuilds == Spec => BuildSpec
<1>1. Init => BuildInit
  BY DEF Init
<1>2. [Next]_vars => [Build]_buildVars
  BY DEF Next, Generate, CallGenNode, PoolTree, ChooseRule, CallGenSubnode, ReturnNode,
         Finished, vars
<1> QED BY <1>1, <1>2, PTL DEF Spec, BuildSpec
=============================================================================
