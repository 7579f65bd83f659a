--------------------------- MODULE GrammarCostProof ---------------------------
(***************************************************************************)
(* What the build computes is right for every grammar file: compute_cost   *)
(* ends with the length of the shortest text of each symbol, the costs in  *)
(* the generator's tables are those of the rules they stand beside, and    *)
(* the pools hold shortest trees, which are made without end only for      *)
(* grammars in which a key can be replaced by itself.                      *)
(***************************************************************************)
EXTENDS GrammarCost, SumsProof, SequenceTheorems

(* The file is a list of calls of ctx.rule with rules over its keys.       *)
LEMMA FileTyping ==
  ASSUME NEW f \in Grammars
  PROVE  /\ Len(Calls[f]) \in Nat /\ DOMAIN Calls[f] = 1..Len(Calls[f])
         /\ \A n \in 1..Len(Calls[f]) : /\ Calls[f][n].key \in FileKeys(f)
                                        /\ Calls[f][n].rule \in FileRules(f)
         /\ FileKeys(f) = {Calls[f][n].key : n \in 1..Len(Calls[f])}
<1>1. Calls[f] \in Seq([key : FileKeys(f), rule : FileRules(f)])
  BY CallsAssumption
<1> DEFINE s == Calls[f]
           R == FileRules(f)
           K == FileKeys(f)
<1>2. K = {s[n].key : n \in DOMAIN s}
  BY DEF FileKeys
<1> HIDE DEF s, R, K
<1>3. s \in Seq([key : K, rule : R])
  BY <1>1 DEF s, R, K
<1>4. Len(s) \in Nat /\ DOMAIN s = 1..Len(s)
  BY <1>3
<1>5. \A n \in 1..Len(s) : s[n] \in [key : K, rule : R]
  BY <1>3, ElementOfSeq
<1>6. \A n \in 1..Len(s) : s[n].key \in K /\ s[n].rule \in R
  BY <1>5
<1> QED BY <1>2, <1>4, <1>6 DEF s, R, K

LEMMA PutFacts ==
  ASSUME NEW f, NEW k, NEW v
  PROVE  /\ DOMAIN Put(f, k, v) = DOMAIN f \cup {k}
         /\ Put(f, k, v)[k] = v
         /\ \A x \in DOMAIN f : x # k => Put(f, k, v)[x] = f[x]
         /\ Put(f, k, v) = [x \in DOMAIN f \cup {k} |-> Put(f, k, v)[x]]
BY DEF Put

-----------------------------------------------------------------------------
(* What expansion_cost adds up.                                            *)
IsTable(costs) == costs \in [DOMAIN costs -> Nat]

Weights(r, costs) == [j \in DOMAIN r.keys |-> costs[r.keys[j]]]

LEMMA RuleTyping ==
  ASSUME NEW f, NEW r \in FileRules(f)
  PROVE  /\ r.text \in Nat /\ r.keys \in Seq(FileKeys(f))
         /\ Len(r.keys) \in Nat /\ DOMAIN r.keys = 1..Len(r.keys)
         /\ \A j \in 1..Len(r.keys) : r.keys[j] \in FileKeys(f)
<1> DEFINE K == FileKeys(f)
<1>1. r.text \in Nat /\ r.keys \in Seq(K)
  BY DEF FileRules
<1> HIDE DEF K
<1> QED BY <1>1 DEF K

LEMMA WeightsNat ==
  ASSUME NEW f, NEW r \in FileRules(f), NEW costs, IsTable(costs), HasCost(r, costs)
  PROVE  /\ Weights(r, costs) \in Seq(Nat) /\ Weights(r, costs) \in Seq(Int)
         /\ Len(Weights(r, costs)) = Len(r.keys)
         /\ \A j \in 1..Len(r.keys) : /\ Weights(r, costs)[j] = costs[r.keys[j]]
                                      /\ costs[r.keys[j]] \in Nat
         /\ ExpansionCost(r, costs) = r.text + SumSeq(Weights(r, costs))
         /\ ExpansionCost(r, costs) \in Nat
         /\ SumSeq(Weights(r, costs)) \in Nat
<1> DEFINE w == Weights(r, costs)
<1>1. /\ r.text \in Nat /\ Len(r.keys) \in Nat /\ DOMAIN r.keys = 1..Len(r.keys)
  BY RuleTyping
<1>2. \A j \in 1..Len(r.keys) : w[j] = costs[r.keys[j]] /\ costs[r.keys[j]] \in Nat
  <2>1. \A k \in DOMAIN costs : costs[k] \in Nat
    BY DEF IsTable
  <2>2. \A j \in 1..Len(r.keys) : r.keys[j] \in DOMAIN costs
    BY <1>1 DEF HasCost
  <2> QED BY <1>1, <2>1, <2>2 DEF Weights
<1>3. w \in [1..Len(r.keys) -> Nat]
  <2>1. w = [j \in 1..Len(r.keys) |-> w[j]]
    BY <1>1 DEF Weights
  <2>2. \A j \in 1..Len(r.keys) : w[j] \in Nat
    BY <1>2
  <2> HIDE DEF w
  <2> QED BY <2>1, <2>2
<1>4. w \in Seq(Nat) /\ Len(w) = Len(r.keys)
  <2> HIDE DEF w
  <2> QED BY <1>1, <1>3
<1>5. w \in Seq(Int)
  <2> HIDE DEF w
  <2> QED BY <1>4
<1>6. SumSeq(w) \in Nat
  <2> HIDE DEF w
  <2> QED BY <1>4, SumSeqNat
<1>7. ExpansionCost(r, costs) = r.text + SumSeq(w)
  BY DEF ExpansionCost, SumOver, Weights
<1> HIDE DEF w
<1>8. r.text + SumSeq(w) \in Nat
  BY <1>1, <1>6
<1> QED BY <1>2, <1>4, <1>5, <1>6, <1>7, <1>8 DEF w

(* A rule costs no less than any of its keys.                              *)
LEMMA CostAboveKeys ==
  ASSUME NEW f, NEW r \in FileRules(f), NEW costs, IsTable(costs), HasCost(r, costs),
         NEW j \in 1..Len(r.keys)
  PROVE  costs[r.keys[j]] <= ExpansionCost(r, costs)
<1>1. /\ Weights(r, costs) \in Seq(Nat)
      /\ Len(Weights(r, costs)) = Len(r.keys)
      /\ Weights(r, costs)[j] = costs[r.keys[j]] /\ costs[r.keys[j]] \in Nat
      /\ ExpansionCost(r, costs) = r.text + SumSeq(Weights(r, costs))
      /\ SumSeq(Weights(r, costs)) \in Nat
  BY WeightsNat
<1>2. costs[r.keys[j]] <= SumSeq(Weights(r, costs))
  BY <1>1, SumSeqMember
<1>3. r.text \in Nat
  BY RuleTyping
<1> QED BY <1>1, <1>2, <1>3

(* lower has a cost for every key that costs has, and none is higher.      *)
Lowers(lower, costs) ==
  /\ IsTable(lower) /\ IsTable(costs)
  /\ \A k \in DOMAIN costs : k \in DOMAIN lower /\ lower[k] <= costs[k]

LEMMA CostFalls ==
  ASSUME NEW f, NEW r \in FileRules(f), NEW costs, NEW lower, Lowers(lower, costs),
         HasCost(r, costs)
  PROVE  /\ HasCost(r, lower)
         /\ ExpansionCost(r, lower) <= ExpansionCost(r, costs)
         /\ \A j \in 1..Len(r.keys) : lower[r.keys[j]] < costs[r.keys[j]] =>
              ExpansionCost(r, lower) < ExpansionCost(r, costs)
<1> DEFINE w == Weights(r, costs)
           v == Weights(r, lower)
           L == Len(r.keys)
<1>1. IsTable(lower) /\ IsTable(costs) /\ HasCost(r, lower)
  BY DEF Lowers, HasCost
<1>2. /\ w \in Seq(Int) /\ Len(w) = L
      /\ \A j \in 1..L : w[j] = costs[r.keys[j]]
      /\ ExpansionCost(r, costs) = r.text + SumSeq(w)
      /\ SumSeq(w) \in Nat
  BY <1>1, WeightsNat
<1>3. /\ v \in Seq(Int) /\ Len(v) = L
      /\ \A j \in 1..L : v[j] = lower[r.keys[j]]
      /\ ExpansionCost(r, lower) = r.text + SumSeq(v)
      /\ SumSeq(v) \in Nat
  BY <1>1, WeightsNat
<1>4. r.text \in Nat /\ DOMAIN r.keys = 1..L
  BY RuleTyping
<1> HIDE DEF v, w, L
<1>5. \A j \in 1..L : v[j] <= w[j]
  BY <1>2, <1>3, <1>4 DEF Lowers, HasCost
<1>6. SumSeq(v) <= SumSeq(w)
  BY <1>2, <1>3, <1>5, SumSeqMonotone
<1>7. ASSUME NEW j \in 1..L, lower[r.keys[j]] < costs[r.keys[j]]
      PROVE  SumSeq(v) < SumSeq(w)
  <2>1. v[j] < w[j] /\ j \in 1..Len(w)
    BY <1>2, <1>3, <1>7
  <2>2. Len(v) = Len(w) /\ \A n \in 1..Len(w) : v[n] <= w[n]
    BY <1>2, <1>3, <1>5
  <2> QED BY <1>2, <1>3, <2>1, <2>2, SumSeqStrict
<1>8. ExpansionCost(r, lower) <= ExpansionCost(r, costs)
  BY <1>2, <1>3, <1>4, <1>6
<1>9. ASSUME NEW j \in 1..L, lower[r.keys[j]] < costs[r.keys[j]]
      PROVE  ExpansionCost(r, lower) < ExpansionCost(r, costs)
  BY <1>2, <1>3, <1>4, <1>7, <1>9
<1> QED BY <1>1, <1>8, <1>9 DEF L

(* Only the keys of a rule matter.                                         *)
LEMMA CostSame ==
  ASSUME NEW r, NEW costs, NEW other,
         \A j \in DOMAIN r.keys : other[r.keys[j]] = costs[r.keys[j]]
  PROVE  ExpansionCost(r, other) = ExpansionCost(r, costs)
<1>1. [j \in DOMAIN r.keys |-> other[r.keys[j]]] = [j \in DOMAIN r.keys |-> costs[r.keys[j]]]
  OBVIOUS
<1> QED BY <1>1 DEF ExpansionCost, SumOver

-----------------------------------------------------------------------------
(* What sorted(cost[k]) does.  IdsDiffer holds of the entries of a pass:   *)
(* a rule is noted once.                                                   *)
Ids(entries) == {entries[n].id : n \in DOMAIN entries}

IdsDiffer(entries) ==
  \A m, n \in DOMAIN entries : m # n => entries[m].id # entries[n].id

LEMMA EntryTyping ==
  ASSUME NEW entries \in Seq(Entry)
  PROVE  /\ Len(entries) \in Nat /\ DOMAIN entries = 1..Len(entries)
         /\ \A n \in 1..Len(entries) : /\ entries[n] \in Entry
                                       /\ entries[n].cost \in Nat
                                       /\ entries[n].id \in Nat /\ entries[n].id > 0
<1>1. Len(entries) \in Nat /\ DOMAIN entries = 1..Len(entries)
  OBVIOUS
<1>2. \A n \in 1..Len(entries) : entries[n] \in Entry
  BY ElementOfSeq
<1>3. \A e \in Entry : e.cost \in Nat /\ e.id \in Nat /\ e.id > 0
  BY DEF Entry
<1> QED BY <1>1, <1>2, <1>3

LEMMA SortedEntries ==
  ASSUME NEW entries \in Seq(Entry), IdsDiffer(entries)
  PROVE  /\ Sorted(entries) \in Seq(Entry)
         /\ Len(Sorted(entries)) = Len(entries)
         /\ Ids(Sorted(entries)) = Ids(entries) /\ IdsDiffer(Sorted(entries))
         /\ \A n \in 1..Len(entries) : \E m \in 1..Len(entries) : Sorted(entries)[n] = entries[m]
         /\ \A n \in 2..Len(entries) : Sorted(entries)[n-1].cost <= Sorted(entries)[n].cost
<1> DEFINE L == Len(entries)
           S == 1..L
           Before(d, e) == d.cost < e.cost \/ (d.cost = e.cost /\ d.id < e.id)
           below == [n \in S |-> {i \in S : Before(entries[i], entries[n])}]
           s == Sorted(entries)
<1>1. /\ L \in Nat /\ DOMAIN entries = S
      /\ \A n \in S : /\ entries[n] \in Entry /\ entries[n].cost \in Nat
                      /\ entries[n].id \in Nat
  BY EntryTyping
<1>2. \A m, n \in S : entries[m].id = entries[n].id => m = n
  BY <1>1 DEF IdsDiffer
<1> HIDE DEF L
<1>3. OrdersAll(S, below)
  <2>1. \A n \in S : ~ Before(entries[n], entries[n])
    BY <1>1
  <2>2. \A m, n \in S : m = n \/ Before(entries[m], entries[n]) \/ Before(entries[n], entries[m])
    <3> TAKE m, n \in S
    <3>1. entries[m].id = entries[n].id => m = n
      BY <1>2
    <3>2. /\ entries[m].cost \in Nat /\ entries[n].cost \in Nat
          /\ entries[m].id \in Nat /\ entries[n].id \in Nat
      BY <1>1
    <3> QED BY <3>1, <3>2
  <2>3. \A k, m, n \in S : Before(entries[k], entries[m]) /\ Before(entries[m], entries[n])
                             => Before(entries[k], entries[n])
    <3> TAKE k, m, n \in S
    <3>1. /\ entries[m].cost \in Nat /\ entries[n].cost \in Nat /\ entries[k].cost \in Nat
          /\ entries[m].id \in Nat /\ entries[n].id \in Nat /\ entries[k].id \in Nat
      BY <1>1
    <3> QED BY <3>1, SMTT(30)
  <2> HIDE DEF Before, S
  <2> QED BY <2>1, <2>2, <2>3 DEF OrdersAll
<1>4. IsFiniteSet(S) /\ Cardinality(S) = L
  <2>1. 1 \in Int /\ L \in Int
    BY <1>1
  <2>2. IsFiniteSet(1..L) /\ Cardinality(1..L) = IF 1 > L THEN 0 ELSE L-1+1
    BY <2>1, FS_Interval
  <2> QED BY <1>1, <2>2
<1>5. RanksAll(S, below)
  <2> HIDE DEF S, below
  <2> QED BY <1>3, <1>4, Ranks
<1> DEFINE rank(n) == Cardinality(below[n])
<1>6. /\ \A n \in S : rank(n) \in 0..(L-1)
      /\ \A k \in 0..(L-1) : \E n \in S : rank(n) = k
      /\ \A m, n \in S : m \in below[n] <=> rank(m) < rank(n)
      /\ \A m, n \in S : rank(m) = rank(n) => m = n
  <2> HIDE DEF S, below
  <2> QED BY <1>4, <1>5 DEF RanksAll
<1>7. \A n \in S : below[n] = {i \in DOMAIN entries : Before(entries[i], entries[n])}
  BY <1>1
<1> DEFINE E == {entries[i] : i \in DOMAIN entries}
           Rank(e) == Cardinality({i \in DOMAIN entries : Before(entries[i], e)})
<1>8. s = [n \in DOMAIN entries |-> CHOOSE e \in E : Rank(e) = n-1]
  BY DEF Sorted
<1>9. \A n \in S : Rank(entries[n]) = rank(n)
  BY <1>7
<1> HIDE DEF Before, below, s, Rank, rank
<1>10. ASSUME NEW n \in S
       PROVE  \E m \in S : s[n] = entries[m] /\ rank(m) = n-1
  <2>1. n-1 \in 0..(L-1)
    BY <1>1
  <2>2. PICK m \in S : rank(m) = n-1
    BY <1>6, <2>1
  <2>3. entries[m] \in E /\ Rank(entries[m]) = n-1
    BY <1>1, <1>9, <2>2
  <2>4. s[n] \in E /\ Rank(s[n]) = n-1
    <3> HIDE DEF E
    <3> QED BY <1>1, <1>8, <2>3
  <2>5. PICK i \in S : s[n] = entries[i]
    BY <1>1, <2>4
  <2> QED BY <1>9, <2>4, <2>5
<1> HIDE DEF E
<1>11. DOMAIN s = S /\ s = [n \in S |-> s[n]]
  BY <1>1, <1>8
<1>12. \A n \in S : s[n] \in Entry
  BY <1>1, <1>10
<1>13. s \in [S -> Entry]
  BY <1>11, <1>12
<1>14. s \in Seq(Entry) /\ Len(s) = L
  BY <1>1, <1>13
<1>15. ASSUME NEW m \in S PROVE \E n \in S : s[n] = entries[m]
  <2>1. rank(m)+1 \in S
    BY <1>1, <1>6
  <2> DEFINE n == rank(m)+1
  <2>2. PICK i \in S : s[n] = entries[i] /\ rank(i) = n-1
    BY <1>10, <2>1
  <2>3. rank(i) = rank(m)
    BY <1>1, <1>6, <2>2
  <2> QED BY <1>6, <2>1, <2>2, <2>3
<1>16. IdsDiffer(s)
  <2> SUFFICES ASSUME NEW m \in S, NEW n \in S, s[m].id = s[n].id PROVE m = n
    BY <1>11 DEF IdsDiffer
  <2>1. PICK i \in S : s[m] = entries[i] /\ rank(i) = m-1
    BY <1>10
  <2>2. PICK j \in S : s[n] = entries[j] /\ rank(j) = n-1
    BY <1>10
  <2>3. i = j
    BY <1>2, <2>1, <2>2
  <2>4. m-1 = n-1
    BY <2>1, <2>2, <2>3
  <2> QED BY <1>1, <2>4
<1>17. Ids(s) = Ids(entries)
  <2>1. \A n \in S : \E m \in S : s[n].id = entries[m].id
    BY <1>10
  <2>2. \A m \in S : \E n \in S : s[n].id = entries[m].id
    BY <1>15
  <2>3. /\ \A x : x \in Ids(s) <=> \E n \in S : x = s[n].id
        /\ \A x : x \in Ids(entries) <=> \E n \in S : x = entries[n].id
    BY <1>1, <1>11 DEF Ids
  <2> HIDE DEF S
  <2>4. ASSUME NEW x \in Ids(s) PROVE x \in Ids(entries)
    <3>1. PICK n \in S : x = s[n].id
      BY <2>3
    <3>2. PICK m \in S : s[n].id = entries[m].id
      BY <2>1
    <3> QED BY <2>3, <3>1, <3>2
  <2>5. ASSUME NEW x \in Ids(entries) PROVE x \in Ids(s)
    <3>1. PICK m \in S : x = entries[m].id
      BY <2>3
    <3>2. PICK n \in S : s[n].id = entries[m].id
      BY <2>2
    <3> QED BY <2>3, <3>1, <3>2
  <2> QED BY <2>4, <2>5
<1>18. ASSUME NEW n \in 2..L PROVE s[n-1].cost <= s[n].cost
  <2>1. n \in S /\ n-1 \in S
    BY <1>1
  <2>2. PICK i \in S : s[n-1] = entries[i] /\ rank(i) = (n-1)-1
    BY <1>10, <2>1
  <2>3. PICK j \in S : s[n] = entries[j] /\ rank(j) = n-1
    BY <1>10, <2>1
  <2>4. i \in below[j]
    <3>1. rank(i) < rank(j)
      BY <1>1, <2>2, <2>3
    <3> QED BY <1>6, <3>1
  <2>5. Before(entries[i], entries[j])
    BY <1>7, <2>4
  <2> QED BY <1>1, <2>2, <2>3, <2>5 DEF Before
<1>19. \A n \in S : \E m \in S : s[n] = entries[m]
  BY <1>10
<1> QED BY <1>14, <1>16, <1>17, <1>18, <1>19 DEF s, L

-----------------------------------------------------------------------------
(* The inductive invariant.  While the file is read, the grammar is what   *)
(* the calls so far made it; compute_cost looks at a grammar that is       *)
(* complete.                                                               *)
Phases == {"read", "cost", "order", "complete", "ready", "failed"}

Reading ==
  /\ file \in Grammars
  /\ called \in 0..Len(Calls[file])
  /\ pc \in Phases
  /\ grammar \in [keys : Seq(Keys), rules : [Keys -> Seq(FileRules(file))]]
  /\ Keys = {Calls[file][n].key : n \in 1..called}
  /\ pc # "read" => called = Len(Calls[file])

(* The list of keys has each key once.                                     *)
KeysListed ==
  /\ \A k \in Keys : \E i \in 1..Len(grammar.keys) : grammar.keys[i] = k
  /\ \A i, j \in 1..Len(grammar.keys) : grammar.keys[i] = grammar.keys[j] => i = j

(* Rule i of key k has been visited in the pass under way.                 *)
Visited(k, i) ==
  \E p \in 1..Len(grammar.keys) :
    grammar.keys[p] = k /\ (p < at[1] \/ (p = at[1] /\ i < at[2]))

(* The entries of a pass name rules of the key, each once.                 *)
EntriesOf(entries, k) ==
  /\ entries \in Seq(Entry)
  /\ IdsDiffer(entries)
  /\ \A n \in 1..Len(entries) : entries[n].id \in 1..Len(grammar.rules[k])

NotedIn(costs) == /\ costs \in [Keys -> Seq(Entry)]
                  /\ \A k \in Keys : EntriesOf(costs[k], k)

Costing ==
  /\ at \in (Nat \ {0}) \X (Nat \ {0})
  /\ IsTable(key_cost) /\ DOMAIN key_cost \subseteq Keys
  /\ pc = "read" => key_cost = NoEntry /\ cost_ = NoEntry /\ cost = NoEntry
  /\ pc # "read" => cost_ \in [Keys -> Seq(Entry)]
  /\ pc = "cost" =>
       /\ NotedIn(cost_)
       /\ cost = NoEntry \/ NotedIn(cost)
       /\ \A k \in Keys : \A n \in 1..Len(cost_[k]) : Visited(k, cost_[k][n].id)
  /\ pc = "order" => NotedIn(cost)
  /\ pc \in {"complete", "ready", "failed"} => cost \in [Keys -> Seq(Entry)]

LEMMA GrammarTyping ==
  ASSUME Reading
  PROVE  /\ Keys \subseteq FileKeys(file)
         /\ pc # "read" => Keys = FileKeys(file)
         /\ grammar.keys \in Seq(Keys) /\ Len(grammar.keys) \in Nat
         /\ DOMAIN grammar.keys = 1..Len(grammar.keys)
         /\ \A i \in 1..Len(grammar.keys) : grammar.keys[i] \in Keys
         /\ grammar.rules \in [Keys -> Seq(FileRules(file))]
         /\ \A k \in Keys :
              /\ grammar.rules[k] \in Seq(FileRules(file))
              /\ Len(grammar.rules[k]) \in Nat
              /\ DOMAIN grammar.rules[k] = 1..Len(grammar.rules[k])
              /\ \A i \in 1..Len(grammar.rules[k]) : grammar.rules[k][i] \in FileRules(file)
<1> DEFINE K == Keys
           R == FileRules(file)
           ks == grammar.keys
           rs == grammar.rules
<1>1. /\ grammar \in [keys : Seq(K), rules : [K -> Seq(R)]]
      /\ K = {Calls[file][n].key : n \in 1..called}
      /\ file \in Grammars /\ called \in 0..Len(Calls[file])
      /\ pc # "read" => called = Len(Calls[file])
  BY DEF Reading
<1>2. /\ Len(Calls[file]) \in Nat
      /\ \A n \in 1..Len(Calls[file]) : Calls[file][n].key \in FileKeys(file)
      /\ FileKeys(file) = {Calls[file][n].key : n \in 1..Len(Calls[file])}
  BY <1>1, FileTyping
<1>3. K \subseteq FileKeys(file) /\ (pc # "read" => K = FileKeys(file))
  <2>1. \A n \in 1..called : n \in 1..Len(Calls[file])
    BY <1>1, <1>2
  <2> HIDE DEF K
  <2> QED BY <1>1, <1>2, <2>1
<1> HIDE DEF K, R
<1>4. ks \in Seq(K) /\ rs \in [K -> Seq(R)]
  BY <1>1
<1> HIDE DEF ks, rs
<1>5. Len(ks) \in Nat /\ DOMAIN ks = 1..Len(ks) /\ \A i \in 1..Len(ks) : ks[i] \in K
  BY <1>4, ElementOfSeq
<1>6. \A k \in K : rs[k] \in Seq(R)
  BY <1>4
<1>7. \A s \in Seq(R) : /\ Len(s) \in Nat /\ DOMAIN s = 1..Len(s)
                        /\ \A i \in 1..Len(s) : s[i] \in R
  BY ElementOfSeq
<1> QED BY <1>3, <1>4, <1>5, <1>6, <1>7 DEF K, R, ks, rs

LEMMA InitCosting == BuildInit => Reading /\ KeysListed /\ Costing
<1> SUFFICES ASSUME BuildInit PROVE Reading /\ KeysListed /\ Costing
  OBVIOUS
<1> USE DEF BuildInit
<1>1. Keys = {} /\ grammar.keys = <<>> /\ grammar.rules = NoEntry
  BY DEF Keys, NoEntry
<1>2. NoEntry \in [{} -> Seq(FileRules(file))] /\ <<>> \in Seq({}) /\ NoEntry \in [{} -> Nat]
      /\ DOMAIN NoEntry = {}
  BY DEF NoEntry
<1>3. Len(Calls[file]) \in Nat
  BY FileTyping
<1>4. Reading
  <2>1. grammar \in [keys : Seq(Keys), rules : [Keys -> Seq(FileRules(file))]]
    BY <1>1, <1>2
  <2> QED BY <1>1, <1>3, <2>1 DEF Reading, Phases
<1>5. KeysListed
  BY <1>1 DEF KeysListed
<1>6. Costing
  BY <1>1, <1>2 DEF Costing, IsTable
<1> QED BY <1>4, <1>5, <1>6

(* One call of ctx.rule.                                                   *)
LEMMA RuleInv ==
  ASSUME Reading, KeysListed, Costing, Rule
  PROVE  Reading' /\ KeysListed' /\ Costing'
<1> DEFINE k == Calls[file][called+1].key
           r == Calls[file][called+1].rule
           R == FileRules(file)
           ks == grammar.keys
           rs == grammar.rules
<1>1. /\ pc = "read" /\ called < Len(Calls[file]) /\ grammar' = WithRule(grammar, k, r)
      /\ called' = called + 1 /\ UNCHANGED <<file, pc, at, key_cost, cost_, cost>>
  BY DEF Rule, costVars
<1>2. /\ Len(Calls[file]) \in Nat /\ called \in Nat /\ file \in Grammars
      /\ called+1 \in 1..Len(Calls[file])
  <2>1. file \in Grammars /\ called \in 0..Len(Calls[file])
    BY DEF Reading
  <2>2. Len(Calls[file]) \in Nat
    BY <2>1, FileTyping
  <2> QED BY <1>1, <2>1, <2>2
<1>3. r \in R
  BY <1>2, FileTyping
<1>4. /\ ks \in Seq(Keys) /\ Len(ks) \in Nat /\ rs \in [Keys -> Seq(R)]
      /\ \A i \in 1..Len(ks) : ks[i] \in Keys
      /\ \A c \in Keys : rs[c] \in Seq(R)
  BY GrammarTyping
<1>5. grammar \in [keys : Seq(Keys), rules : [Keys -> Seq(R)]]
  BY DEF Reading
<1> HIDE DEF k, r, R
<1>6. /\ Keys' = Keys \cup {k}
      /\ grammar' \in [keys : Seq(Keys \cup {k}), rules : [Keys \cup {k} -> Seq(R)]]
      /\ KeysListed'
  <2>1. CASE k \in Keys
    <3>1. grammar' = [grammar EXCEPT !.rules[k] = Append(@, r)]
      BY <1>1, <2>1 DEF WithRule, Keys
    <3>2. /\ grammar'.keys = ks /\ grammar'.rules = [rs EXCEPT ![k] = Append(rs[k], r)]
          /\ grammar' = [keys |-> grammar'.keys, rules |-> grammar'.rules]
      BY <1>5, <3>1
    <3>3. Append(rs[k], r) \in Seq(R)
      BY <1>3, <1>4, <2>1
    <3>4. grammar'.rules \in [Keys -> Seq(R)] /\ Keys \cup {k} = Keys
      BY <1>4, <2>1, <3>2, <3>3
    <3>5. Keys' = Keys
      BY <3>4 DEF Keys
    <3>6. KeysListed'
      BY <3>2, <3>5 DEF KeysListed
    <3> QED BY <1>4, <3>2, <3>4, <3>5, <3>6
  <2>2. CASE k \notin Keys
    <3>1. grammar' = [keys |-> Append(ks, k), rules |-> Put(rs, k, <<r>>)]
      BY <1>1, <2>2 DEF WithRule, Keys
    <3> DEFINE p == Put(rs, k, <<r>>)
    <3>2. grammar'.keys = Append(ks, k) /\ grammar'.rules = p
      BY <3>1
    <3>3. <<r>> \in Seq(R) /\ DOMAIN rs = Keys
      BY <1>3, <1>4
    <3>4. p \in [Keys \cup {k} -> Seq(R)]
      <4>1. /\ p = [x \in Keys \cup {k} |-> p[x]] /\ p[k] = <<r>>
            /\ \A x \in Keys : x # k => p[x] = rs[x]
        BY <3>3 DEF Put
      <4> HIDE DEF p
      <4>2. \A x \in Keys \cup {k} : p[x] \in Seq(R)
        BY <1>4, <3>3, <4>1
      <4> QED BY <4>1, <4>2
    <3> HIDE DEF p
    <3>5. Keys' = Keys \cup {k}
      BY <3>2, <3>4 DEF Keys
    <3>6. /\ Append(ks, k) \in Seq(Keys \cup {k}) /\ Len(Append(ks, k)) = Len(ks) + 1
          /\ \A i \in 1..Len(ks) : Append(ks, k)[i] = ks[i]
          /\ Append(ks, k)[Len(ks) + 1] = k
      <4>1. ks \in Seq(Keys \cup {k})
        BY <1>4
      <4> HIDE DEF ks
      <4> QED BY <4>1
    <3>7. KeysListed'
      <4> DEFINE l == Append(ks, k)
                 N == Len(ks)
      <4>1. /\ \A c \in Keys : \E i \in 1..N : ks[i] = c
            /\ \A i, j \in 1..N : ks[i] = ks[j] => i = j
        BY DEF KeysListed
      <4>2. Len(l) = N+1 /\ (\A i \in 1..N : l[i] = ks[i] /\ l[i] # k) /\ l[N+1] = k /\ N \in Nat
        BY <1>4, <2>2, <3>6
      <4> HIDE DEF l, N
      <4>3. \A i \in 1..(N+1) : i = N+1 \/ i \in 1..N
        BY <4>2
      <4>4. \A i \in 1..N : i \in 1..(N+1)
        BY <4>2
      <4>5. \A c \in Keys \cup {k} : \E i \in 1..(N+1) : l[i] = c
        <5>1. N+1 \in 1..(N+1)
          BY <4>2
        <5> QED BY <4>1, <4>2, <4>4, <5>1
      <4>6. \A i, j \in 1..(N+1) : l[i] = l[j] => i = j
        BY <4>1, <4>2, <4>3
      <4>7. grammar'.keys = l
        BY <3>2 DEF l
      <4> QED BY <3>5, <4>2, <4>5, <4>6, <4>7 DEF KeysListed
    <3> QED BY <3>1, <3>2, <3>4, <3>5, <3>6, <3>7
  <2> QED BY <2>1, <2>2
<1>7. Keys' = {Calls[file][n].key : n \in 1..(called+1)}
  <2>1. \A n : n \in 1..(called+1) <=> n \in 1..called \/ n = called+1
    BY <1>2
  <2>2. Keys = {Calls[file][n].key : n \in 1..called}
    BY DEF Reading
  <2> QED BY <1>6, <2>1, <2>2 DEF k
<1>8. Reading'
  <2>1. FileRules(file)' = R /\ Calls[file]' = Calls[file] /\ file' = file
    BY <1>1 DEF R
  <2>2. called' \in 0..Len(Calls[file]') /\ file' \in Grammars /\ pc' = "read"
    BY <1>1, <1>2, <2>1
  <2>3. grammar' \in [keys : Seq(Keys'), rules : [Keys' -> Seq(FileRules(file)')]]
    BY <1>6, <2>1
  <2>4. Keys' = {Calls[file]'[n].key : n \in 1..called'}
    BY <1>1, <1>7, <2>1
  <2> QED BY <2>2, <2>3, <2>4 DEF Reading, Phases
<1>9. Costing'
  <2>1. /\ at \in (Nat \ {0}) \X (Nat \ {0}) /\ IsTable(key_cost) /\ DOMAIN key_cost \subseteq Keys
        /\ key_cost = NoEntry /\ cost_ = NoEntry /\ cost = NoEntry
    BY <1>1 DEF Costing
  <2> QED BY <1>1, <1>6, <2>1 DEF Costing
<1> QED BY <1>6, <1>8, <1>9

-----------------------------------------------------------------------------
(* The steps of compute_cost.                                              *)
LEMMA AtTyping ==
  ASSUME Costing
  PROVE  at[1] \in Nat /\ at[1] > 0 /\ at[2] \in Nat /\ at[2] > 0 /\ at = <<at[1], at[2]>>
BY DEF Costing

LEMMA CheaperFacts ==
  ASSUME IsTable(key_cost), NEW k, NEW c \in Nat
  PROVE  /\ IsTable(CheaperKey(k, c))
         /\ DOMAIN CheaperKey(k, c) = DOMAIN key_cost \cup {k}
         /\ Lowers(CheaperKey(k, c), key_cost)
         /\ CheaperKey(k, c)[k] <= c
         /\ \A x \in DOMAIN key_cost : x # k => CheaperKey(k, c)[x] = key_cost[x]
         /\ \/ CheaperKey(k, c) = key_cost
            \/ CheaperKey(k, c)[k] = c /\ (k \in DOMAIN key_cost => c < key_cost[k])
<1> DEFINE new == CheaperKey(k, c)
<1>1. \A x \in DOMAIN key_cost : key_cost[x] \in Nat
  BY DEF IsTable
<1>2. CASE k \in DOMAIN key_cost /\ key_cost[k] <= c
  <2>1. new = key_cost /\ DOMAIN key_cost = DOMAIN key_cost \cup {k}
    BY <1>2 DEF CheaperKey
  <2> QED BY <1>1, <1>2, <2>1 DEF Lowers
<1>3. CASE ~ (k \in DOMAIN key_cost /\ key_cost[k] <= c)
  <2>1. new = Put(key_cost, k, c)
    BY <1>3 DEF CheaperKey
  <2>2. /\ DOMAIN new = DOMAIN key_cost \cup {k} /\ new[k] = c
        /\ \A x \in DOMAIN key_cost : x # k => new[x] = key_cost[x]
        /\ new = [x \in DOMAIN key_cost \cup {k} |-> new[x]]
    BY <2>1 DEF Put
  <2> HIDE DEF new
  <2>3. \A x \in DOMAIN new : new[x] \in Nat
    BY <1>1, <2>2
  <2>4. new \in [DOMAIN new -> Nat]
    BY <2>2, <2>3
  <2>5. k \in DOMAIN key_cost => c < key_cost[k]
    BY <1>1, <1>3
  <2>6. \A x \in DOMAIN key_cost : x \in DOMAIN new /\ new[x] <= key_cost[x]
    BY <1>1, <2>2, <2>5
  <2> QED BY <2>2, <2>4, <2>5, <2>6 DEF IsTable, Lowers, new
<1> QED BY <1>2, <1>3

(* What a visit does: the rule is noted with its cost, if it has one.      *)
Note(k, e) == [cost_ EXCEPT ![k] = Append(@, e)]

Noted(i, c) == [cost |-> c, id |-> i]

LEMMA NoteFacts ==
  ASSUME cost_ \in [Keys -> Seq(Entry)], NEW k \in Keys, NEW e \in Entry
  PROVE  /\ Note(k, e) \in [Keys -> Seq(Entry)]
         /\ \A x \in Keys : x # k => Note(k, e)[x] = cost_[x]
         /\ Note(k, e)[k] = Append(cost_[k], e)
         /\ Len(cost_[k]) \in Nat
         /\ Len(Note(k, e)[k]) = Len(cost_[k]) + 1
         /\ \A n \in 1..Len(cost_[k]) : Note(k, e)[k][n] = cost_[k][n]
         /\ Note(k, e)[k][Len(cost_[k]) + 1] = e
<1>1. cost_[k] \in Seq(Entry)
  OBVIOUS
<1>2. \A s \in Seq(Entry) : /\ Append(s, e) \in Seq(Entry) /\ Len(s) \in Nat
                            /\ Len(Append(s, e)) = Len(s) + 1
                            /\ \A n \in 1..Len(s) : Append(s, e)[n] = s[n]
                            /\ Append(s, e)[Len(s) + 1] = e
  <2> HIDE DEF Entry
  <2> QED OBVIOUS
<1>3. /\ \A x \in Keys : x # k => Note(k, e)[x] = cost_[x]
      /\ Note(k, e)[k] = Append(cost_[k], e)
  BY DEF Note
<1>4. Note(k, e) \in [Keys -> Seq(Entry)]
  BY <1>1, <1>2 DEF Note
<1> QED BY <1>1, <1>2, <1>3, <1>4

LEMMA VisitFacts ==
  ASSUME Reading, Costing, VisitRule,
         NEW k, k = Key, NEW i, i = at[2], NEW r, r = grammar.rules[k][i]
  PROVE  /\ pc = "cost" /\ at[1] \in 1..Len(grammar.keys) /\ grammar.keys[at[1]] = k
         /\ k \in Keys /\ i \in 1..Len(grammar.rules[k]) /\ r \in FileRules(file)
         /\ at' = <<at[1], i+1>>
         /\ UNCHANGED <<file, called, grammar, pc, cost, poolVars>>
         /\ \/ ~ HasCost(r, key_cost) /\ UNCHANGED <<key_cost, cost_>>
            \/ /\ HasCost(r, key_cost)
               /\ ExpansionCost(r, key_cost) \in Nat
               /\ key_cost' = CheaperKey(k, ExpansionCost(r, key_cost))
               /\ Noted(i, ExpansionCost(r, key_cost)) \in Entry
               /\ cost_' = Note(k, Noted(i, ExpansionCost(r, key_cost)))
<1>1. at[1] \in Nat /\ at[1] > 0 /\ at[2] \in Nat /\ at[2] > 0
  BY AtTyping
<1>2. /\ pc = "cost" /\ at[1] <= Len(grammar.keys) /\ i <= Len(grammar.rules[k])
      /\ at' = <<at[1], i+1>>
      /\ UNCHANGED <<file, called, grammar, pc, cost, poolVars>>
      /\ \/ ~ HasCost(r, key_cost) /\ UNCHANGED <<key_cost, cost_>>
         \/ /\ HasCost(r, key_cost)
            /\ key_cost' = CheaperKey(k, ExpansionCost(r, key_cost))
            /\ cost_' = Note(k, Noted(i, ExpansionCost(r, key_cost)))
  BY DEF VisitRule, Note, Noted
<1>3. Len(grammar.keys) \in Nat /\ \A n \in 1..Len(grammar.keys) : grammar.keys[n] \in Keys
  BY GrammarTyping
<1>4. at[1] \in 1..Len(grammar.keys) /\ k = grammar.keys[at[1]] /\ k \in Keys
  BY <1>1, <1>2, <1>3 DEF Key
<1>5. /\ Len(grammar.rules[k]) \in Nat
      /\ \A n \in 1..Len(grammar.rules[k]) : grammar.rules[k][n] \in FileRules(file)
  BY <1>4, GrammarTyping
<1>6. i \in 1..Len(grammar.rules[k]) /\ r \in FileRules(file)
  BY <1>1, <1>2, <1>5
<1>7. ASSUME HasCost(r, key_cost)
      PROVE  /\ ExpansionCost(r, key_cost) \in Nat
             /\ Noted(i, ExpansionCost(r, key_cost)) \in Entry
  <2>1. IsTable(key_cost)
    BY DEF Costing
  <2>2. ExpansionCost(r, key_cost) \in Nat
    BY <1>6, <1>7, <2>1, WeightsNat
  <2> QED BY <1>1, <2>2 DEF Noted, Entry
<1> QED BY <1>2, <1>4, <1>6, <1>7

(* The rule just visited had not been visited before.                      *)
LEMMA VisitedOnce ==
  ASSUME Reading, KeysListed, Costing, VisitRule,
         NEW k, k = Key, NEW i, i = at[2]
  PROVE  /\ ~ Visited(k, i)
         /\ Visited(k, i)'
         /\ \A x : \A j \in Nat : Visited(x, j) => Visited(x, j)'
         /\ \A x : \A j \in Nat : Visited(x, j)' => Visited(x, j) \/ (x = k /\ j = i)
<1>1. /\ at[1] \in 1..Len(grammar.keys) /\ grammar.keys[at[1]] = k
      /\ at' = <<at[1], i+1>> /\ grammar' = grammar
  BY VisitFacts
<1>2. at[1] \in Nat /\ i \in Nat /\ Len(grammar.keys) \in Nat
  BY AtTyping, GrammarTyping
<1>3. \A m, n \in 1..Len(grammar.keys) : grammar.keys[m] = grammar.keys[n] => m = n
  BY DEF KeysListed
<1>4. at'[1] = at[1] /\ at'[2] = i + 1
  BY <1>1
<1>5. ~ Visited(k, i)
  <2> SUFFICES ASSUME NEW p \in 1..Len(grammar.keys), grammar.keys[p] = k,
                      p < at[1] \/ (p = at[1] /\ i < i)
               PROVE  FALSE
    BY DEF Visited
  <2>1. p = at[1]
    BY <1>1, <1>3
  <2> QED BY <1>2, <2>1
<1>6. \A x, j : Visited(x, j)' <=>
        \E p \in 1..Len(grammar.keys) :
          grammar.keys[p] = x /\ (p < at[1] \/ (p = at[1] /\ j < i+1))
  BY <1>1, <1>4 DEF Visited
<1>7. Visited(k, i)'
  <2>1. at[1] = at[1] /\ i < i+1
    BY <1>2
  <2>2. \E p \in 1..Len(grammar.keys) :
          grammar.keys[p] = k /\ (p < at[1] \/ (p = at[1] /\ i < i+1))
    BY <1>1, <2>1
  <2> QED BY <1>6, <2>2
<1>8. ASSUME NEW x, NEW j \in Nat, Visited(x, j) PROVE Visited(x, j)'
  <2>1. PICK p \in 1..Len(grammar.keys) :
          grammar.keys[p] = x /\ (p < at[1] \/ (p = at[1] /\ j < i))
    BY <1>8 DEF Visited
  <2>2. p < at[1] \/ (p = at[1] /\ j < i+1)
    BY <1>2, <2>1
  <2> QED BY <1>6, <2>1, <2>2
<1>9. ASSUME NEW x, NEW j \in Nat, Visited(x, j)' PROVE Visited(x, j) \/ (x = k /\ j = i)
  <2>1. PICK p \in 1..Len(grammar.keys) :
          grammar.keys[p] = x /\ (p < at[1] \/ (p = at[1] /\ j < i+1))
    BY <1>6, <1>9
  <2>2. p < at[1] \/ (p = at[1] /\ j < i) \/ (p = at[1] /\ j = i)
    BY <1>2, <2>1
  <2> QED BY <1>1, <2>1, <2>2 DEF Visited
<1> QED BY <1>5, <1>7, <1>8, <1>9

(* The next key: nothing that matters changes.                             *)
LEMMA VisitedStays ==
  ASSUME Reading, Costing, NextKey, NEW k \in Keys
  PROVE  /\ \A j \in Nat : Visited(k, j) => Visited(k, j)'
         /\ \A j \in 1..Len(grammar.rules[k]) : Visited(k, j)' => Visited(k, j)
<1>1. /\ at'[1] = at[1]+1 /\ at'[2] = 1 /\ grammar' = grammar
      /\ at[1] <= Len(grammar.keys) /\ at[2] > Len(grammar.rules[Key])
  BY DEF NextKey
<1>2. at[1] \in Nat /\ at[2] \in Nat /\ Len(grammar.keys) \in Nat
  BY AtTyping, GrammarTyping
<1>3. Len(grammar.rules[k]) \in Nat
  BY GrammarTyping
<1>4. \A j : Visited(k, j)' <=>
        \E p \in 1..Len(grammar.keys) :
          grammar.keys[p] = k /\ (p < at[1]+1 \/ (p = at[1]+1 /\ j < 1))
  BY <1>1 DEF Visited
<1>5. ASSUME NEW j \in Nat, Visited(k, j) PROVE Visited(k, j)'
  <2>1. PICK p \in 1..Len(grammar.keys) :
          grammar.keys[p] = k /\ (p < at[1] \/ (p = at[1] /\ j < at[2]))
    BY <1>5 DEF Visited
  <2>2. p < at[1]+1
    BY <1>2, <2>1
  <2> QED BY <1>4, <2>1, <2>2
<1>6. ASSUME NEW j \in 1..Len(grammar.rules[k]), Visited(k, j)' PROVE Visited(k, j)
  <2>1. PICK p \in 1..Len(grammar.keys) :
          grammar.keys[p] = k /\ (p < at[1]+1 \/ (p = at[1]+1 /\ j < 1))
    BY <1>4, <1>6
  <2>2. p < at[1] \/ p = at[1]
    BY <1>2, <1>3, <2>1
  <2>3. CASE p = at[1]
    <3>1. Len(grammar.rules[k]) < at[2]
      BY <1>1, <1>2, <1>3, <2>1, <2>3 DEF Key
    <3>2. j < at[2]
      BY <1>2, <1>3, <3>1
    <3> QED BY <2>1, <2>3, <3>2 DEF Visited
  <2> QED BY <2>1, <2>2, <2>3 DEF Visited
<1> QED BY <1>5, <1>6

(* At the end of a pass all rules have been visited, and at its start none.*)
LEMMA VisitedAll ==
  ASSUME Reading, KeysListed, Costing, at[1] > Len(grammar.keys), NEW k \in Keys, NEW j
  PROVE  Visited(k, j)
<1>1. PICK p \in 1..Len(grammar.keys) : grammar.keys[p] = k
  BY DEF KeysListed
<1>2. p < at[1]
  BY <1>1, AtTyping, GrammarTyping
<1> QED BY <1>1, <1>2 DEF Visited

LEMMA VisitedNone ==
  ASSUME Reading, grammar' = grammar, at' = <<1, 1>>, NEW k \in Keys, NEW j \in Nat, j > 0
  PROVE  ~ Visited(k, j)'
<1>1. at'[1] = 1 /\ at'[2] = 1
  OBVIOUS
<1>2. ~ (\E p \in 1..Len(grammar.keys) : p < 1 \/ (p = 1 /\ j < 1))
  BY GrammarTyping
<1> QED BY <1>1, <1>2 DEF Visited

-----------------------------------------------------------------------------
(* Steps that leave the grammar alone.                                     *)
LEMMA ReadingStays ==
  ASSUME Reading, KeysListed, UNCHANGED <<file, called, grammar>>, pc' \in Phases,
         pc' # "read" => pc # "read" \/ called = Len(Calls[file])
  PROVE  Reading' /\ KeysListed'
<1>1. Keys' = Keys /\ FileRules(file)' = FileRules(file)
  BY DEF Keys
<1>2. KeysListed'
  BY <1>1 DEF KeysListed
<1>3. grammar' \in [keys : Seq(Keys'), rules : [Keys' -> Seq(FileRules(file)')]]
  BY <1>1 DEF Reading
<1>4. Keys' = {Calls[file]'[n].key : n \in 1..called'}
  BY <1>1 DEF Reading
<1>5. file' \in Grammars /\ called' \in 0..Len(Calls[file]')
      /\ (pc' # "read" => called' = Len(Calls[file]'))
  BY DEF Reading
<1> QED BY <1>2, <1>3, <1>4, <1>5 DEF Reading

LEMMA LoadGrammarCosting ==
  ASSUME Reading, KeysListed, Costing, LoadGrammar
  PROVE  Reading' /\ KeysListed' /\ Costing'
<1>1. /\ pc = "read" /\ called = Len(Calls[file]) /\ pc' = "cost"
      /\ cost_' = [k \in Keys |-> <<>>]
      /\ UNCHANGED <<file, called, grammar, at, key_cost, cost>>
  BY DEF LoadGrammar
<1>2. Reading' /\ KeysListed'
  BY <1>1, ReadingStays DEF Phases
<1>3. Keys' = Keys
  BY <1>1 DEF Keys
<1>4. cost_' \in [Keys -> Seq(Entry)] /\ \A k \in Keys : cost_'[k] = <<>>
  BY <1>1
<1>5. NotedIn(cost_)'
  BY <1>3, <1>4 DEF NotedIn, EntriesOf, IdsDiffer
<1>6. \A k \in Keys : \A n \in 1..Len(cost_'[k]) : Visited(k, cost_[k][n].id)'
  BY <1>4
<1>7. /\ at \in (Nat \ {0}) \X (Nat \ {0}) /\ IsTable(key_cost) /\ DOMAIN key_cost \subseteq Keys
      /\ key_cost = NoEntry /\ cost_ = NoEntry /\ cost = NoEntry
  BY <1>1 DEF Costing
<1> QED BY <1>1, <1>2, <1>3, <1>4, <1>5, <1>6, <1>7 DEF Costing, IsTable

(* A rule that is visited is noted as one more entry.                      *)
LEMMA EntriesGrow ==
  ASSUME NEW k, NEW entries, EntriesOf(entries, k), NEW e \in Entry,
         e.id \in 1..Len(grammar.rules[k]), e.id \notin Ids(entries)
  PROVE  EntriesOf(Append(entries, e), k)
<1> DEFINE L == Len(entries)
           s == Append(entries, e)
<1>1. /\ entries \in Seq(Entry) /\ IdsDiffer(entries)
      /\ \A n \in 1..L : entries[n].id \in 1..Len(grammar.rules[k])
  BY DEF EntriesOf
<1>2. L \in Nat /\ DOMAIN entries = 1..L
  BY <1>1, EntryTyping
<1>3. /\ s \in Seq(Entry) /\ Len(s) = L+1 /\ DOMAIN s = 1..(L+1)
      /\ (\A n \in 1..L : s[n] = entries[n]) /\ s[L+1] = e
  <2> HIDE DEF Entry
  <2> QED BY <1>1
<1> HIDE DEF L, s
<1>4. \A n \in 1..(L+1) : n = L+1 \/ n \in 1..L
  BY <1>2
<1>5. \A n \in 1..L : entries[n].id # e.id
  BY <1>2 DEF Ids
<1>6. \A m, n \in 1..L : m # n => entries[m].id # entries[n].id
  BY <1>1, <1>2 DEF IdsDiffer
<1>7. \A m, n \in 1..(L+1) : m # n => s[m].id # s[n].id
  BY <1>3, <1>4, <1>5, <1>6
<1>8. IdsDiffer(s)
  BY <1>3, <1>7 DEF IdsDiffer
<1>9. \A n \in 1..(L+1) : s[n].id \in 1..Len(grammar.rules[k])
  BY <1>1, <1>3, <1>4
<1> QED BY <1>3, <1>8, <1>9 DEF EntriesOf, s

LEMMA VisitRuleCosting ==
  ASSUME Reading, KeysListed, Costing, VisitRule
  PROVE  Reading' /\ KeysListed' /\ Costing'
<1>0. PICK k : k = Key
  OBVIOUS
<1>00. PICK i : i = at[2]
  OBVIOUS
<1> DEFINE r == grammar.rules[k][i]
           c == ExpansionCost(r, key_cost)
<1>1. /\ pc = "cost" /\ k \in Keys /\ i \in 1..Len(grammar.rules[k])
      /\ at' = <<at[1], i+1>>
      /\ UNCHANGED <<file, called, grammar, pc, cost, poolVars>>
      /\ \/ ~ HasCost(r, key_cost) /\ UNCHANGED <<key_cost, cost_>>
         \/ /\ HasCost(r, key_cost) /\ c \in Nat
            /\ key_cost' = CheaperKey(k, c)
            /\ Noted(i, c) \in Entry
            /\ cost_' = Note(k, Noted(i, c))
  BY <1>0, <1>00, VisitFacts
<1> HIDE DEF r, c
<1>2. Reading' /\ KeysListed'
  BY <1>1, ReadingStays DEF Phases
<1>3. Keys' = Keys
  BY <1>1 DEF Keys
<1>4. /\ at \in (Nat \ {0}) \X (Nat \ {0}) /\ IsTable(key_cost) /\ DOMAIN key_cost \subseteq Keys
      /\ cost_ \in [Keys -> Seq(Entry)] /\ NotedIn(cost_) /\ (cost = NoEntry \/ NotedIn(cost))
      /\ \A x \in Keys : \A n \in 1..Len(cost_[x]) : Visited(x, cost_[x][n].id)
  BY <1>1 DEF Costing
<1>5. /\ ~ Visited(k, i) /\ Visited(k, i)'
      /\ \A x : \A j \in Nat : Visited(x, j) => Visited(x, j)'
  BY <1>0, <1>00, VisitedOnce
<1>6. \A x \in Keys : \A n \in 1..Len(cost_[x]) : cost_[x][n].id \in Nat
  <2> TAKE x \in Keys
  <2>1. cost_[x] \in Seq(Entry)
    BY <1>4
  <2> QED BY <2>1, EntryTyping
<1>7. ASSUME NEW x \in Keys, NEW n \in 1..Len(cost_[x]), NEW j, j = cost_[x][n].id
      PROVE  Visited(x, j)'
  <2>1. j \in Nat /\ Visited(x, j)
    BY <1>4, <1>6, <1>7
  <2> QED BY <1>5, <2>1
<1>8. at' \in (Nat \ {0}) \X (Nat \ {0})
  <2>1. at[1] \in Nat /\ at[1] > 0 /\ at[2] \in Nat /\ at[2] > 0
    BY AtTyping
  <2> QED BY <1>00, <1>1, <2>1
<1>9. (cost = NoEntry \/ NotedIn(cost))'
  BY <1>1, <1>3, <1>4 DEF NotedIn, EntriesOf
<1>10. CASE UNCHANGED <<key_cost, cost_>>
  <2>1. NotedIn(cost_)'
    BY <1>1, <1>3, <1>4, <1>10 DEF NotedIn, EntriesOf
  <2>2. ASSUME NEW x \in Keys, NEW n \in 1..Len(cost_'[x])
        PROVE  Visited(x, cost_[x][n].id)'
    <3>1. PICK j : j = cost_'[x][n].id
      OBVIOUS
    <3>2. Visited(x, j)'
      BY <1>7, <1>10, <3>1
    <3> QED BY <3>1, <3>2 DEF Visited
  <2> QED BY <1>1, <1>2, <1>3, <1>4, <1>8, <1>9, <1>10, <2>1, <2>2 DEF Costing, IsTable
<1>11. CASE HasCost(r, key_cost) /\ c \in Nat /\ key_cost' = CheaperKey(k, c)
            /\ Noted(i, c) \in Entry /\ cost_' = Note(k, Noted(i, c))
  <2> DEFINE e == Noted(i, c)
  <2>1. e.id = i
    BY DEF Noted
  <2> HIDE DEF e
  <2>2. cost_' = Note(k, e) /\ e \in Entry
    BY <1>11 DEF e
  <2>3. /\ cost_' \in [Keys -> Seq(Entry)]
        /\ \A x \in Keys : x # k => cost_'[x] = cost_[x]
        /\ cost_'[k] = Append(cost_[k], e)
        /\ Len(cost_[k]) \in Nat /\ Len(cost_'[k]) = Len(cost_[k]) + 1
        /\ \A n \in 1..Len(cost_[k]) : cost_'[k][n] = cost_[k][n]
        /\ cost_'[k][Len(cost_[k]) + 1] = e
    <3>1. cost_ \in [Keys -> Seq(Entry)] /\ k \in Keys /\ e \in Entry
      BY <1>1, <1>4, <2>2
    <3> QED BY <2>2, <3>1, NoteFacts, Zenon
  <2>4. e.id \notin Ids(cost_[k])
    <3>1. DOMAIN cost_[k] = 1..Len(cost_[k])
      <4>1. cost_[k] \in Seq(Entry)
        BY <1>1, <1>4
      <4> QED BY <4>1, EntryTyping
    <3> QED BY <1>1, <1>4, <1>5, <2>1, <3>1 DEF Ids
  <2>5. \A x \in Keys : EntriesOf(cost_[x], x)
    BY <1>4 DEF NotedIn
  <2>6. EntriesOf(Append(cost_[k], e), k)
    BY <1>1, <2>1, <2>2, <2>4, <2>5, EntriesGrow
  <2>7. \A x \in Keys : EntriesOf(cost_'[x], x)
    BY <2>3, <2>5, <2>6
  <2>8. NotedIn(cost_)'
    BY <1>1, <1>3, <2>3, <2>7 DEF NotedIn, EntriesOf
  <2>9. \A x \in Keys : \A n \in 1..Len(cost_'[x]) : Visited(x, cost_[x][n].id)'
    <3>1. ASSUME NEW x \in Keys, x # k, NEW n \in 1..Len(cost_'[x])
          PROVE  Visited(x, cost_[x][n].id)'
      <4>1. cost_'[x] = cost_[x]
        BY <2>3, <3>1
      <4>2. n \in 1..Len(cost_[x])
        BY <3>1, <4>1
      <4>3. PICK j : j = cost_[x][n].id
        OBVIOUS
      <4>4. Visited(x, j)' /\ cost_'[x][n].id = j
        BY <1>7, <4>1, <4>2, <4>3
      <4> QED BY <4>4 DEF Visited
    <3>2. ASSUME NEW n \in 1..Len(cost_'[k]) PROVE Visited(k, cost_[k][n].id)'
      <4>1. PICK j : j = cost_'[k][n].id
        OBVIOUS
      <4>2. CASE n = Len(cost_[k]) + 1
        <5>1. j = i
          BY <2>1, <2>3, <4>1, <4>2
        <5> QED BY <1>5, <4>1, <5>1 DEF Visited
      <4>3. CASE n # Len(cost_[k]) + 1
        <5>1. n \in 1..Len(cost_[k])
          BY <2>3, <4>3
        <5>2. j = cost_[k][n].id
          BY <2>3, <4>1, <5>1
        <5>3. Visited(k, j)'
          BY <1>1, <1>7, <5>1, <5>2
        <5> QED BY <4>1, <5>3 DEF Visited
      <4> QED BY <4>2, <4>3
    <3> QED BY <3>1, <3>2
  <2>10. IsTable(key_cost)' /\ DOMAIN key_cost' \subseteq Keys
    <3>1. IsTable(CheaperKey(k, c)) /\ DOMAIN CheaperKey(k, c) = DOMAIN key_cost \cup {k}
      BY <1>4, <1>11, CheaperFacts
    <3> QED BY <1>1, <1>4, <1>11, <3>1 DEF IsTable
  <2> QED BY <1>1, <1>2, <1>3, <1>8, <1>9, <2>3, <2>8, <2>9, <2>10 DEF Costing
<1> QED BY <1>1, <1>10, <1>11

LEMMA NextKeyCosting ==
  ASSUME Reading, KeysListed, Costing, NextKey
  PROVE  Reading' /\ KeysListed' /\ Costing'
<1>1. /\ pc = "cost" /\ at' = <<at[1]+1, 1>>
      /\ UNCHANGED <<file, called, grammar, pc, key_cost, cost_, cost>>
  BY DEF NextKey
<1>2. Reading' /\ KeysListed'
  BY <1>1, ReadingStays DEF Phases
<1>3. Keys' = Keys
  BY <1>1 DEF Keys
<1>4. /\ IsTable(key_cost) /\ DOMAIN key_cost \subseteq Keys
      /\ cost_ \in [Keys -> Seq(Entry)] /\ NotedIn(cost_) /\ (cost = NoEntry \/ NotedIn(cost))
      /\ \A x \in Keys : \A n \in 1..Len(cost_[x]) : Visited(x, cost_[x][n].id)
  BY <1>1 DEF Costing
<1>5. at' \in (Nat \ {0}) \X (Nat \ {0})
  <2>1. at[1] \in Nat /\ at[1] > 0
    BY AtTyping
  <2> QED BY <1>1, <2>1
<1>6. NotedIn(cost_)' /\ (cost = NoEntry \/ NotedIn(cost))'
  BY <1>1, <1>3, <1>4 DEF NotedIn, EntriesOf
<1>7. ASSUME NEW x \in Keys, NEW n \in 1..Len(cost_'[x])
      PROVE  Visited(x, cost_[x][n].id)'
  <2>1. PICK j : j = cost_[x][n].id
    OBVIOUS
  <2>2. cost_[x] \in Seq(Entry) /\ n \in 1..Len(cost_[x])
    BY <1>1, <1>4, <1>7
  <2>3. j \in Nat
    BY <2>1, <2>2, EntryTyping
  <2>4. Visited(x, j)
    BY <1>4, <2>1, <2>2
  <2>5. Visited(x, j)'
    BY <2>3, <2>4, VisitedStays
  <2> QED BY <1>1, <2>1, <2>5 DEF Visited
<1> QED BY <1>1, <1>2, <1>3, <1>4, <1>5, <1>6, <1>7 DEF Costing, IsTable

LEMMA EndPassCosting ==
  ASSUME Reading, KeysListed, Costing, EndPass
  PROVE  Reading' /\ KeysListed' /\ Costing'
<1>1. /\ pc = "cost" /\ pc' \in Phases /\ pc' # "read"
      /\ UNCHANGED <<file, called, grammar, key_cost>>
      /\ \/ /\ cost_ = cost /\ cost' = [k \in Keys |-> Sorted(cost[k])]
            /\ pc' = "order" /\ UNCHANGED <<at, cost_>>
         \/ /\ cost_ # cost /\ cost' = cost_ /\ cost_' = [k \in Keys |-> <<>>]
            /\ at' = <<1, 1>> /\ pc' = "cost"
  BY DEF EndPass, Phases, PassChangedNothing
<1>2. Reading' /\ KeysListed'
  BY <1>1, ReadingStays DEF Phases
<1>3. Keys' = Keys
  BY <1>1 DEF Keys
<1>4. /\ at \in (Nat \ {0}) \X (Nat \ {0})
      /\ IsTable(key_cost) /\ DOMAIN key_cost \subseteq Keys
      /\ cost_ \in [Keys -> Seq(Entry)] /\ NotedIn(cost_)
  BY <1>1 DEF Costing
<1>5. CASE pc' = "order"
  <2>1. cost_ = cost /\ cost' = [k \in Keys |-> Sorted(cost[k])] /\ UNCHANGED <<at, cost_>>
    BY <1>1, <1>5
  <2>2. \A k \in Keys : EntriesOf(cost[k], k) /\ cost'[k] = Sorted(cost[k])
    BY <1>4, <2>1 DEF NotedIn
  <2>3. ASSUME NEW k \in Keys PROVE cost'[k] \in Seq(Entry) /\ EntriesOf(cost'[k], k)
    <3> DEFINE s == cost[k]
               u == Sorted(s)
    <3>1. /\ s \in Seq(Entry) /\ IdsDiffer(s)
          /\ \A n \in 1..Len(s) : s[n].id \in 1..Len(grammar.rules[k])
      BY <2>2 DEF EntriesOf
    <3> HIDE DEF s
    <3>2. /\ u \in Seq(Entry) /\ Len(u) = Len(s) /\ IdsDiffer(u)
          /\ \A n \in 1..Len(s) : \E m \in 1..Len(s) : u[n] = s[m]
      BY <3>1, SortedEntries
    <3> HIDE DEF u
    <3>3. \A n \in 1..Len(u) : u[n].id \in 1..Len(grammar.rules[k])
      BY <3>1, <3>2
    <3>4. EntriesOf(u, k)
      BY <3>2, <3>3 DEF EntriesOf
    <3> QED BY <2>2, <3>2, <3>4 DEF u, s
  <2>4. cost' \in [Keys -> Seq(Entry)]
    <3>1. cost' = [k \in Keys |-> cost'[k]]
      BY <2>1
    <3> QED BY <2>3, <3>1
  <2>5. NotedIn(cost)'
    BY <1>1, <1>3, <2>3, <2>4 DEF NotedIn, EntriesOf
  <2> QED BY <1>1, <1>2, <1>3, <1>4, <1>5, <2>1, <2>5 DEF Costing, IsTable
<1>6. CASE pc' = "cost"
  <2>1. cost' = cost_ /\ cost_' = [k \in Keys |-> <<>>] /\ at' = <<1, 1>>
    BY <1>1, <1>6
  <2>2. cost_' \in [Keys -> Seq(Entry)] /\ \A k \in Keys : cost_'[k] = <<>>
    BY <2>1
  <2>3. NotedIn(cost_)'
    BY <1>3, <2>2 DEF NotedIn, EntriesOf, IdsDiffer
  <2>4. \A k \in Keys : \A n \in 1..Len(cost_'[k]) : Visited(k, cost_[k][n].id)'
    BY <2>2
  <2>5. NotedIn(cost)'
    BY <1>1, <1>3, <1>4, <2>1 DEF NotedIn, EntriesOf
  <2>6. at' \in (Nat \ {0}) \X (Nat \ {0})
    BY <2>1
  <2> QED BY <1>1, <1>2, <1>3, <1>4, <1>6, <2>2, <2>3, <2>4, <2>5, <2>6 DEF Costing, IsTable
<1> QED BY <1>1, <1>5, <1>6

LEMMA RulesOfTyping ==
  ASSUME Reading, NEW k \in Keys, NEW entries, EntriesOf(entries, k)
  PROVE  /\ RulesOf(entries, k) \in Seq(FileRules(file))
         /\ Len(entries) \in Nat /\ DOMAIN entries = 1..Len(entries)
         /\ Len(RulesOf(entries, k)) = Len(entries)
         /\ DOMAIN RulesOf(entries, k) = 1..Len(entries)
         /\ \A n \in 1..Len(entries) :
              /\ entries[n].id \in 1..Len(grammar.rules[k])
              /\ RulesOf(entries, k)[n] = grammar.rules[k][entries[n].id]
<1> DEFINE R == FileRules(file)
           L == Len(entries)
           s == RulesOf(entries, k)
<1>1. entries \in Seq(Entry) /\ \A n \in 1..L : entries[n].id \in 1..Len(grammar.rules[k])
  BY DEF EntriesOf
<1>2. L \in Nat /\ DOMAIN entries = 1..L
  BY <1>1, EntryTyping
<1>3. \A i \in 1..Len(grammar.rules[k]) : grammar.rules[k][i] \in R
  BY GrammarTyping
<1>4. s = [n \in 1..L |-> grammar.rules[k][entries[n].id]]
  BY <1>2 DEF RulesOf
<1>5. \A n \in 1..L : s[n] \in R /\ s[n] = grammar.rules[k][entries[n].id]
  BY <1>1, <1>3, <1>4
<1> HIDE DEF R, L, s
<1>6. s \in [1..L -> R]
  BY <1>4, <1>5
<1>7. s \in Seq(R) /\ Len(s) = L
  BY <1>2, <1>6
<1> QED BY <1>1, <1>2, <1>5, <1>6, <1>7 DEF R, L, s

LEMMA OrderRulesCosting ==
  ASSUME Reading, KeysListed, Costing, OrderRules
  PROVE  Reading' /\ KeysListed' /\ Costing'
<1>1. /\ pc = "order" /\ UNCHANGED <<file, called, at, key_cost, cost_, cost>>
      /\ \/ pc' = "failed" /\ UNCHANGED grammar
         \/ /\ pc' = "complete"
            /\ grammar' = [grammar EXCEPT !.rules = [k \in Keys |-> OrderedRules(k)]]
  BY DEF OrderRules, costVars
<1>2. /\ at \in (Nat \ {0}) \X (Nat \ {0}) /\ IsTable(key_cost) /\ DOMAIN key_cost \subseteq Keys
      /\ cost_ \in [Keys -> Seq(Entry)] /\ NotedIn(cost) /\ cost \in [Keys -> Seq(Entry)]
  BY <1>1 DEF Costing, NotedIn
<1>3. CASE pc' = "failed" /\ UNCHANGED grammar
  <2>1. Reading' /\ KeysListed'
    BY <1>1, <1>3, ReadingStays DEF Phases
  <2>2. Keys' = Keys
    BY <1>3 DEF Keys
  <2> QED BY <1>1, <1>2, <1>3, <2>1, <2>2 DEF Costing, IsTable
<1>4. CASE pc' = "complete"
           /\ grammar' = [grammar EXCEPT !.rules = [k \in Keys |-> OrderedRules(k)]]
  <2> DEFINE K == Keys
             R == FileRules(file)
             new == [k \in K |-> OrderedRules(k)]
  <2>1. \A k \in Keys : EntriesOf(cost[k], k)
    BY <1>2 DEF NotedIn
  <2>2. ASSUME NEW k \in Keys PROVE OrderedRules(k) \in Seq(R)
    BY <2>1, RulesOfTyping DEF OrderedRules
  <2>3. new \in [K -> Seq(R)]
    BY <2>2
  <2>4. grammar \in [keys : Seq(K), rules : [K -> Seq(R)]]
    BY DEF Reading
  <2>5. R' = R
    BY <1>1 DEF FileRules, FileKeys
  <2>6. grammar' = [grammar EXCEPT !.rules = new]
    BY <1>4
  <2> HIDE DEF K, R, new
  <2>7. /\ grammar' \in [keys : Seq(K), rules : [K -> Seq(R)]]
        /\ grammar'.keys = grammar.keys /\ grammar'.rules = new
    BY <2>3, <2>4, <2>6
  <2>8. Keys' = Keys
    BY <2>3, <2>7 DEF Keys, K
  <2>9. KeysListed'
    BY <2>7, <2>8 DEF KeysListed
  <2>10. Reading'
    <3>1. /\ file \in Grammars /\ called \in 0..Len(Calls[file])
          /\ Keys = {Calls[file][n].key : n \in 1..called}
          /\ called = Len(Calls[file])
      BY <1>1 DEF Reading
    <3>2. grammar' \in [keys : Seq(Keys'), rules : [Keys' -> Seq(FileRules(file)')]]
      BY <2>5, <2>7, <2>8 DEF K, R
    <3> QED BY <1>1, <1>4, <2>8, <3>1, <3>2 DEF Reading, Phases
  <2>11. Costing'
    BY <1>1, <1>2, <1>4, <2>8 DEF Costing, IsTable
  <2> QED BY <2>9, <2>10, <2>11
<1> QED BY <1>1, <1>3, <1>4

LEMMA OtherStepsCosting ==
  ASSUME Reading, KeysListed, Costing, UNCHANGED <<file, called, grammar, costVars>>,
         pc' = pc \/ (pc = "complete" /\ pc' = "ready")
  PROVE  Reading' /\ KeysListed' /\ Costing'
<1>1. UNCHANGED <<at, key_cost, cost_, cost>>
  BY DEF costVars
<1>2. pc' \in Phases /\ (pc' # "read" => pc # "read" \/ called = Len(Calls[file]))
  BY DEF Reading, Phases
<1>3. Reading' /\ KeysListed'
  BY <1>2, ReadingStays
<1>4. Keys' = Keys
  BY DEF Keys
<1>5. \A k, j : Visited(k, j)' <=> Visited(k, j)
  BY <1>1 DEF Visited
<1>6. NotedIn(cost)' = NotedIn(cost) /\ NotedIn(cost_)' = NotedIn(cost_)
  BY <1>1, <1>4 DEF NotedIn, EntriesOf
<1>7. CASE pc' = pc
  <2>1. \A k \in Keys : \A n \in 1..Len(cost_[k]) :
          Visited(k, cost_[k][n].id)' <=> Visited(k, cost_[k][n].id)
    BY <1>1 DEF Visited
  <2> QED BY <1>1, <1>3, <1>4, <1>6, <1>7, <2>1 DEF Costing, IsTable
<1>8. CASE pc = "complete" /\ pc' = "ready"
  BY <1>1, <1>3, <1>4, <1>8 DEF Costing, IsTable
<1> QED BY <1>7, <1>8

-----------------------------------------------------------------------------
(* The costs that a pass notes are never below key_cost.  While the pass   *)
(* under way has noted nothing but what the pass before noted, it has not  *)
(* changed key_cost either, and all it noted is exact.                     *)
Bounds(entries, k, costs) ==
  \A n \in 1..Len(entries) : k \in DOMAIN costs /\ costs[k] <= entries[n].cost

Exact(entries, rs, costs) ==
  \A n \in 1..Len(entries) :
    /\ HasCost(rs[entries[n].id], costs)
    /\ entries[n].cost = ExpansionCost(rs[entries[n].id], costs)

Covered(entries, r, i, costs) ==
  HasCost(r, costs) => \E n \in 1..Len(entries) : entries[n].id = i

Among(entries, others) ==
  \A n \in 1..Len(entries) : \E m \in 1..Len(others) : entries[n] = others[m]

Repeats == cost # NoEntry /\ \A k \in Keys : Among(cost_[k], cost[k])

Accurate(k) ==
  /\ Exact(cost_[k], grammar.rules[k], key_cost)
  /\ \A i \in 1..Len(grammar.rules[k]) :
       Visited(k, i) => Covered(cost_[k], grammar.rules[k][i], i, key_cost)

Ascending(entries) ==
  \A n \in 2..Len(entries) : entries[n-1].cost <= entries[n].cost

Priced(k) ==
  /\ Bounds(cost[k], k, key_cost) /\ Ascending(cost[k])
  /\ Exact(cost[k], grammar.rules[k], key_cost)
  /\ \A i \in 1..Len(grammar.rules[k]) :
       Covered(cost[k], grammar.rules[k][i], i, key_cost)

Pricing ==
  /\ pc = "cost" =>
       /\ \A k \in Keys : Bounds(cost_[k], k, key_cost)
       /\ cost # NoEntry => \A k \in Keys : Bounds(cost[k], k, key_cost)
       /\ Repeats => \A k \in Keys : Accurate(k)
  /\ pc = "order" => \A k \in Keys : Priced(k)

LEMMA BoundsFall ==
  ASSUME NEW entries \in Seq(Entry), NEW k, NEW costs, NEW lower,
         Lowers(lower, costs), Bounds(entries, k, costs)
  PROVE  Bounds(entries, k, lower)
<1> SUFFICES ASSUME NEW n \in 1..Len(entries)
             PROVE  k \in DOMAIN lower /\ lower[k] <= entries[n].cost
  BY DEF Bounds
<1>1. k \in DOMAIN costs /\ costs[k] <= entries[n].cost
  BY DEF Bounds
<1>2. entries[n].cost \in Nat
  BY EntryTyping
<1>3. lower[k] \in Nat /\ costs[k] \in Nat /\ k \in DOMAIN lower /\ lower[k] <= costs[k]
  BY <1>1 DEF Lowers, IsTable
<1> QED BY <1>1, <1>2, <1>3

LEMMA InitPricing == BuildInit => Pricing
BY DEF BuildInit, Pricing

LEMMA LoadGrammarPricing ==
  ASSUME Costing, LoadGrammar
  PROVE  Pricing'
<1>1. /\ pc = "read" /\ pc' = "cost" /\ cost_' = [k \in Keys |-> <<>>]
      /\ UNCHANGED <<grammar, cost>> /\ cost = NoEntry
  BY DEF LoadGrammar, Costing
<1>2. Keys' = Keys
  BY <1>1 DEF Keys
<1>3. \A k \in Keys : Bounds(cost_[k], k, key_cost)'
  BY <1>1 DEF Bounds
<1>4. ~ Repeats'
  BY <1>1 DEF Repeats
<1> QED BY <1>1, <1>2, <1>3, <1>4 DEF Pricing

LEMMA NextKeyPricing ==
  ASSUME Reading, Costing, Pricing, NextKey
  PROVE  Pricing'
<1>1. pc = "cost" /\ UNCHANGED <<grammar, pc, key_cost, cost_, cost>>
  BY DEF NextKey
<1>2. Keys' = Keys
  BY <1>1 DEF Keys
<1>3. /\ \A k \in Keys : Bounds(cost_[k], k, key_cost)
      /\ cost # NoEntry => \A k \in Keys : Bounds(cost[k], k, key_cost)
      /\ Repeats => \A k \in Keys : Accurate(k)
  BY <1>1 DEF Pricing
<1>4. Repeats' = Repeats
  BY <1>1, <1>2 DEF Repeats
<1>5. ASSUME NEW k \in Keys, Accurate(k) PROVE Accurate(k)'
  <2>1. \A j \in 1..Len(grammar.rules[k]) : Visited(k, j)' => Visited(k, j)
    BY VisitedStays
  <2> QED BY <1>1, <1>5, <2>1 DEF Accurate
<1>6. /\ \A k \in Keys : Bounds(cost_[k], k, key_cost)'
      /\ cost' # NoEntry => \A k \in Keys : Bounds(cost[k], k, key_cost)'
  BY <1>1, <1>3
<1> QED BY <1>1, <1>2, <1>3, <1>4, <1>5, <1>6 DEF Pricing

(* The case of a rule that has a cost.                                     *)
LEMMA VisitPricing ==
  ASSUME Reading, KeysListed, Costing, Pricing, VisitRule,
         NEW k, k = Key, NEW i, i = at[2], NEW r, r = grammar.rules[k][i],
         HasCost(r, key_cost)
  PROVE  Pricing'
<1> DEFINE c == ExpansionCost(r, key_cost)
           e == Noted(i, c)
<1>1. /\ pc = "cost" /\ k \in Keys /\ i \in 1..Len(grammar.rules[k])
      /\ UNCHANGED <<grammar, pc, cost>>
      /\ c \in Nat /\ key_cost' = CheaperKey(k, c)
      /\ e \in Entry /\ cost_' = Note(k, e)
  BY VisitFacts
<1>2. e.id = i /\ e.cost = c
  BY DEF Noted
<1>3. Keys' = Keys
  BY <1>1 DEF Keys
<1>4. /\ IsTable(key_cost) /\ cost_ \in [Keys -> Seq(Entry)]
      /\ cost = NoEntry \/ NotedIn(cost)
      /\ \A x \in Keys : Bounds(cost_[x], x, key_cost)
      /\ cost # NoEntry => \A x \in Keys : Bounds(cost[x], x, key_cost)
      /\ Repeats => \A x \in Keys : Accurate(x)
  BY <1>1 DEF Costing, Pricing
<1> HIDE DEF e
<1>5. /\ Lowers(key_cost', key_cost) /\ key_cost'[k] <= c
      /\ k \in DOMAIN key_cost'
      /\ key_cost' = key_cost \/ (k \in DOMAIN key_cost => c < key_cost[k])
  <2> HIDE DEF c
  <2>1. IsTable(key_cost) /\ c \in Nat /\ key_cost' = CheaperKey(k, c)
    BY <1>1, <1>4
  <2> DEFINE new == CheaperKey(k, c)
  <2>2. /\ DOMAIN new = DOMAIN key_cost \cup {k}
        /\ Lowers(new, key_cost)
        /\ new[k] <= c
        /\ new = key_cost \/ (k \in DOMAIN key_cost => c < key_cost[k])
    BY <2>1, CheaperFacts, Zenon
  <2> HIDE DEF new
  <2>3. key_cost' = new
    BY <2>1 DEF new
  <2> QED BY <2>2, <2>3
<1>6. k \in DOMAIN key_cost /\ key_cost[k] <= c => key_cost' = key_cost
  BY <1>1 DEF CheaperKey
<1> HIDE DEF c
<1>7. /\ \A x \in Keys : x # k => cost_'[x] = cost_[x]
      /\ Len(cost_[k]) \in Nat /\ Len(cost_'[k]) = Len(cost_[k]) + 1
      /\ \A n \in 1..Len(cost_[k]) : cost_'[k][n] = cost_[k][n]
      /\ cost_'[k][Len(cost_[k]) + 1] = e
  <2>1. cost_ \in [Keys -> Seq(Entry)] /\ k \in Keys /\ e \in Entry
    BY <1>1, <1>4
  <2>2. cost_' = Note(k, e)
    BY <1>1
  <2>3. /\ \A x \in Keys : x # k => Note(k, e)[x] = cost_[x]
        /\ Len(cost_[k]) \in Nat /\ Len(Note(k, e)[k]) = Len(cost_[k]) + 1
        /\ \A n \in 1..Len(cost_[k]) : Note(k, e)[k][n] = cost_[k][n]
        /\ Note(k, e)[k][Len(cost_[k]) + 1] = e
    BY <2>1, NoteFacts, Zenon
  <2> QED BY <2>2, <2>3
<1> DEFINE L == Len(cost_[k])
           old == cost_[k]
           new == cost_'[k]
<1>8. L \in Nat /\ \A n \in 1..(L+1) : n = L+1 \/ n \in 1..L
  BY <1>7
<1>9. \A n \in 1..L : n \in 1..(L+1)
  BY <1>8
<1>10. L+1 \in 1..(L+1)
  BY <1>8
<1>11. \A x \in Keys : Bounds(cost_[x], x, key_cost')
  <2> TAKE x \in Keys
  <2>1. cost_[x] \in Seq(Entry) /\ Bounds(cost_[x], x, key_cost)
    BY <1>4
  <2> QED BY <1>5, <2>1, BoundsFall
<1>12. \A x \in Keys : Bounds(cost_'[x], x, key_cost')
  <2>1. ASSUME NEW x \in Keys, x # k PROVE Bounds(cost_'[x], x, key_cost')
    BY <1>7, <1>11, <2>1
  <2>2. Bounds(new, k, key_cost')
    <3>1. \A n \in 1..L : k \in DOMAIN key_cost' /\ key_cost'[k] <= old[n].cost
      BY <1>1, <1>11 DEF Bounds
    <3> QED BY <1>2, <1>5, <1>7, <1>8, <3>1 DEF Bounds
  <2> QED BY <2>1, <2>2
<1>13. ASSUME cost # NoEntry, NEW x \in Keys PROVE Bounds(cost[x], x, key_cost')
  <2>1. cost[x] \in Seq(Entry) /\ Bounds(cost[x], x, key_cost)
    BY <1>4, <1>13 DEF NotedIn
  <2> QED BY <1>5, <2>1, BoundsFall
<1>14. ASSUME Repeats' PROVE Repeats /\ key_cost' = key_cost
  <2>1. cost # NoEntry /\ \A x \in Keys : Among(cost_'[x], cost[x])
    BY <1>1, <1>3, <1>14 DEF Repeats
  <2>2. Among(old, cost[k])
    <3>1. Among(new, cost[k])
      BY <1>1, <2>1
    <3> QED BY <1>7, <1>9, <3>1 DEF Among
  <2>3. ASSUME NEW x \in Keys PROVE Among(cost_[x], cost[x])
    BY <1>7, <2>1, <2>2
  <2>4. Repeats
    BY <2>1, <2>3 DEF Repeats
  <2>5. PICK m \in 1..Len(cost[k]) : e = cost[k][m]
    <3>1. Among(new, cost[k])
      BY <1>1, <2>1
    <3> QED BY <1>7, <1>10, <3>1 DEF Among
  <2>6. k \in DOMAIN key_cost /\ key_cost[k] <= e.cost
    BY <1>1, <1>4, <2>1, <2>5 DEF Bounds
  <2> QED BY <1>2, <1>6, <2>4, <2>6
<1>15. ASSUME Repeats', NEW x \in Keys PROVE Accurate(x)'
  <2>1. key_cost' = key_cost /\ Accurate(x) /\ grammar' = grammar
    BY <1>1, <1>4, <1>14, <1>15
  <2> DEFINE rs == grammar.rules[x]
  <2>2. /\ Exact(cost_[x], rs, key_cost)
        /\ \A j \in 1..Len(rs) : Visited(x, j) => Covered(cost_[x], rs[j], j, key_cost)
    BY <2>1 DEF Accurate
  <2>3. \A j \in 1..Len(rs) : Visited(x, j)' => Visited(x, j) \/ (x = k /\ j = i)
    <3>1. \A j \in Nat : Visited(x, j)' => Visited(x, j) \/ (x = k /\ j = i)
      BY VisitedOnce
    <3>2. Len(rs) \in Nat
      BY GrammarTyping
    <3> QED BY <3>1, <3>2
  <2>4. CASE x # k
    BY <1>7, <2>1, <2>2, <2>3, <2>4 DEF Accurate
  <2>5. CASE x = k
    <3>1. Exact(new, rs, key_cost)
      <4>1. e.cost = ExpansionCost(rs[e.id], key_cost) /\ HasCost(rs[e.id], key_cost)
        BY <1>2, <2>5 DEF c
      <4>2. \A n \in 1..L : /\ HasCost(rs[old[n].id], key_cost)
                            /\ old[n].cost = ExpansionCost(rs[old[n].id], key_cost)
        BY <2>2, <2>5 DEF Exact
      <4> QED BY <1>7, <1>8, <4>1, <4>2, SMTT(30) DEF Exact
    <3>2. \A j \in 1..Len(rs) : Covered(old, rs[j], j, key_cost) => Covered(new, rs[j], j, key_cost)
      BY <1>7, <1>9 DEF Covered
    <3>3. Covered(new, rs[i], i, key_cost)
      BY <1>2, <1>7, <1>10 DEF Covered
    <3>4. \A j \in 1..Len(rs) : Visited(x, j)' => Covered(new, rs[j], j, key_cost)
      BY <2>2, <2>3, <2>5, <3>2, <3>3
    <3> QED BY <2>1, <2>5, <3>1, <3>4 DEF Accurate
  <2> QED BY <2>4, <2>5
<1> QED BY <1>1, <1>3, <1>12, <1>13, <1>15 DEF Pricing

LEMMA VisitRulePricing ==
  ASSUME Reading, KeysListed, Costing, Pricing, VisitRule
  PROVE  Pricing'
<1>1. PICK k : k = Key
  OBVIOUS
<1>2. PICK i : i = at[2]
  OBVIOUS
<1>3. PICK r : r = grammar.rules[k][i]
  OBVIOUS
<1>4. CASE HasCost(r, key_cost)
  BY <1>1, <1>2, <1>3, <1>4, VisitPricing
<1>5. CASE ~ HasCost(r, key_cost)
  <2>1. pc = "cost" /\ UNCHANGED <<grammar, pc, cost, key_cost, cost_>>
    BY <1>1, <1>2, <1>3, <1>5, VisitFacts
  <2>2. Keys' = Keys
    BY <2>1 DEF Keys
  <2>3. /\ \A x \in Keys : Bounds(cost_[x], x, key_cost)
        /\ cost # NoEntry => \A x \in Keys : Bounds(cost[x], x, key_cost)
        /\ Repeats => \A x \in Keys : Accurate(x)
    BY <2>1 DEF Pricing
  <2>4. Repeats' = Repeats
    BY <2>1, <2>2 DEF Repeats
  <2>5. ASSUME NEW x \in Keys, Accurate(x) PROVE Accurate(x)'
    <3>1. \A j \in Nat : Visited(x, j)' => Visited(x, j) \/ (x = k /\ j = i)
      BY <1>1, <1>2, VisitedOnce
    <3>2. Len(grammar.rules[x]) \in Nat
      BY GrammarTyping
    <3>3. \A j \in 1..Len(grammar.rules[x]) : Visited(x, j)' => Visited(x, j) \/ (x = k /\ j = i)
      BY <3>1, <3>2
    <3>4. x = k => Covered(cost_[x], grammar.rules[x][i], i, key_cost)
      BY <1>3, <1>5 DEF Covered
    <3> QED BY <2>1, <2>5, <3>3, <3>4 DEF Accurate
  <2>6. /\ \A x \in Keys : Bounds(cost_[x], x, key_cost)'
        /\ cost' # NoEntry => \A x \in Keys : Bounds(cost[x], x, key_cost)'
    BY <2>1, <2>3
  <2> QED BY <2>1, <2>2, <2>3, <2>4, <2>5, <2>6 DEF Pricing
<1> QED BY <1>4, <1>5

(* sorted() keeps what is true of every entry.                             *)
LEMMA SortedPriced ==
  ASSUME NEW k, NEW entries \in Seq(Entry), IdsDiffer(entries), NEW rs, NEW costs,
         Bounds(entries, k, costs), Exact(entries, rs, costs)
  PROVE  /\ Bounds(Sorted(entries), k, costs) /\ Exact(Sorted(entries), rs, costs)
         /\ Ascending(Sorted(entries))
         /\ \A i : Covered(entries, rs[i], i, costs) => Covered(Sorted(entries), rs[i], i, costs)
<1> DEFINE s == Sorted(entries)
           L == Len(entries)
<1>1. /\ s \in Seq(Entry) /\ Len(s) = L /\ Ids(s) = Ids(entries)
      /\ \A n \in 1..L : \E m \in 1..L : s[n] = entries[m]
      /\ \A n \in 2..L : s[n-1].cost <= s[n].cost
  BY SortedEntries
<1>2. DOMAIN entries = 1..L
  BY EntryTyping
<1> HIDE DEF s, L
<1>3. DOMAIN s = 1..L
  BY <1>1, EntryTyping
<1>4. Bounds(s, k, costs)
  BY <1>1 DEF Bounds, L
<1>5. Exact(s, rs, costs)
  BY <1>1 DEF Exact, L
<1>6. Ascending(s)
  BY <1>1 DEF Ascending
<1>7. ASSUME NEW i, Covered(entries, rs[i], i, costs) PROVE Covered(s, rs[i], i, costs)
  <2> SUFFICES ASSUME HasCost(rs[i], costs) PROVE \E n \in 1..Len(s) : s[n].id = i
    BY DEF Covered
  <2>1. \E n \in 1..L : entries[n].id = i
    BY <1>7 DEF Covered, L
  <2>2. i \in Ids(s)
    BY <1>1, <1>2, <2>1 DEF Ids
  <2> QED BY <1>1, <1>3, <2>2 DEF Ids
<1> QED BY <1>4, <1>5, <1>6, <1>7 DEF s

LEMMA EndPassPricing ==
  ASSUME Reading, KeysListed, Costing, Pricing, EndPass
  PROVE  Pricing'
<1>1. /\ pc = "cost" /\ at[1] > Len(grammar.keys)
      /\ UNCHANGED <<grammar, key_cost>>
      /\ \/ /\ cost_ = cost /\ cost' = [k \in Keys |-> Sorted(cost[k])]
            /\ pc' = "order"
         \/ /\ cost' = cost_ /\ cost_' = [k \in Keys |-> <<>>]
            /\ at' = <<1, 1>> /\ pc' = "cost"
  BY DEF EndPass, PassChangedNothing
<1>2. Keys' = Keys
  BY <1>1 DEF Keys
<1>3. /\ cost_ \in [Keys -> Seq(Entry)] /\ NotedIn(cost_)
      /\ \A k \in Keys : Bounds(cost_[k], k, key_cost)
      /\ Repeats => \A k \in Keys : Accurate(k)
  BY <1>1 DEF Costing, Pricing
<1>4. CASE pc' = "order"
  <2>1. cost_ = cost /\ cost' = [k \in Keys |-> Sorted(cost[k])]
    BY <1>1, <1>4
  <2>2. ASSUME NEW k \in Keys PROVE Priced(k)'
    <3>1. cost # NoEntry
      BY <1>3, <2>1, <2>2 DEF NoEntry
    <3>2. \A x \in Keys : Among(cost_[x], cost[x])
      BY <2>1 DEF Among
    <3>3. Accurate(k)
      BY <1>3, <2>2, <3>1, <3>2 DEF Repeats
    <3> DEFINE s == cost[k]
               rs == grammar.rules[k]
    <3>4. /\ s \in Seq(Entry) /\ IdsDiffer(s) /\ Bounds(s, k, key_cost)
          /\ Exact(s, rs, key_cost)
          /\ \A i \in 1..Len(rs) : Covered(s, rs[i], i, key_cost)
      <4>1. \A i \in 1..Len(rs) : Visited(k, i)
        BY <1>1, <2>2, VisitedAll
      <4> QED BY <1>3, <2>1, <2>2, <3>3, <4>1 DEF NotedIn, EntriesOf, Accurate
    <3>5. cost'[k] = Sorted(s)
      BY <2>1, <2>2
    <3> HIDE DEF s, rs
    <3>6. /\ Bounds(Sorted(s), k, key_cost) /\ Exact(Sorted(s), rs, key_cost)
          /\ Ascending(Sorted(s))
          /\ \A i : Covered(s, rs[i], i, key_cost) => Covered(Sorted(s), rs[i], i, key_cost)
      BY <3>4, SortedPriced
    <3>7. \A i \in 1..Len(rs) : Covered(Sorted(s), rs[i], i, key_cost)
      BY <3>4, <3>6
    <3>8. rs = grammar'.rules[k] /\ key_cost' = key_cost
      BY <1>1 DEF rs
    <3> HIDE DEF rs
    <3> QED BY <3>5, <3>6, <3>7, <3>8 DEF Priced
  <2> QED BY <1>2, <1>4, <2>2 DEF Pricing
<1>5. CASE pc' = "cost"
  <2>1. cost' = cost_ /\ cost_' = [k \in Keys |-> <<>>] /\ at' = <<1, 1>>
    BY <1>1, <1>5
  <2>2. \A k \in Keys : Bounds(cost_[k], k, key_cost)' /\ Bounds(cost[k], k, key_cost)'
    BY <1>1, <1>3, <2>1 DEF Bounds
  <2>3. ASSUME NEW k \in Keys PROVE Accurate(k)'
    <3>1. \A i \in 1..Len(grammar.rules[k]) : ~ Visited(k, i)'
      <4>1. Len(grammar.rules[k]) \in Nat
        BY GrammarTyping
      <4>2. \A i \in 1..Len(grammar.rules[k]) : i \in Nat /\ i > 0
        BY <4>1
      <4> QED BY <1>1, <2>1, <4>2, VisitedNone
    <3>2. Exact(cost_[k], grammar.rules[k], key_cost)'
      BY <2>1 DEF Exact
    <3> QED BY <1>1, <3>1, <3>2 DEF Accurate
  <2> QED BY <1>2, <1>5, <2>2, <2>3 DEF Pricing
<1> QED BY <1>1, <1>4, <1>5

LEMMA OtherStepsPricing ==
  ASSUME Pricing, pc # "cost", UNCHANGED <<grammar, key_cost, cost>>, pc' # "cost",
         pc' = "order" => pc = "order"
  PROVE  Pricing'
<1>1. Keys' = Keys
  BY DEF Keys
<1>2. ASSUME NEW k \in Keys, Priced(k) PROVE Priced(k)'
  BY <1>2 DEF Priced
<1> QED BY <1>1, <1>2 DEF Pricing

-----------------------------------------------------------------------------
(* Every cost is that of some rule, or was until that rule got cheaper;    *)
(* the keys of the rule had their costs before.                            *)
Supports(r, k, rho, costs) ==
  /\ HasCost(r, costs)
  /\ \/ ExpansionCost(r, costs) < costs[k]
     \/ /\ ExpansionCost(r, costs) = costs[k]
        /\ \A j \in DOMAIN r.keys : rho[r.keys[j]] < rho[k]

Ranking(rho, b, rules, costs) ==
  /\ rho \in [DOMAIN costs -> Nat] /\ b \in Nat
  /\ \A k \in DOMAIN costs : rho[k] < b
  /\ \A k, l \in DOMAIN costs : rho[k] = rho[l] => k = l
  /\ \A k \in DOMAIN costs :
       \E i \in 1..Len(rules[k]) : Supports(rules[k][i], k, rho, costs)

Deriving ==
  pc \in {"read", "cost", "order"} =>
    \E rho, b : Ranking(rho, b, grammar.rules, key_cost)

LEMMA NoRanking ==
  ASSUME NEW rules
  PROVE  \E rho, b : Ranking(rho, b, rules, NoEntry)
<1>1. Ranking(NoEntry, 0, rules, NoEntry)
  BY DEF Ranking, NoEntry
<1> QED BY <1>1

LEMMA SupportStays ==
  ASSUME NEW f, NEW r \in FileRules(f), NEW costs, NEW lower, Lowers(lower, costs),
         NEW k, NEW x \in DOMAIN costs, NEW rho, NEW rho2, Supports(r, x, rho, costs),
         x # k, lower[x] = costs[x],
         \A y \in DOMAIN costs : y # k => rho2[y] = rho[y],
         k \in DOMAIN costs => lower[k] < costs[k]
  PROVE  Supports(r, x, rho2, lower)
<1>1. HasCost(r, costs) /\ IsTable(costs) /\ IsTable(lower)
  BY DEF Supports, Lowers
<1>2. /\ HasCost(r, lower) /\ ExpansionCost(r, lower) <= ExpansionCost(r, costs)
      /\ \A j \in 1..Len(r.keys) : lower[r.keys[j]] < costs[r.keys[j]] =>
           ExpansionCost(r, lower) < ExpansionCost(r, costs)
  BY <1>1, CostFalls
<1>3. ExpansionCost(r, costs) \in Nat /\ ExpansionCost(r, lower) \in Nat
  BY <1>1, <1>2, WeightsNat
<1>4. DOMAIN r.keys = 1..Len(r.keys)
  BY RuleTyping
<1>5. costs[x] \in Nat
  BY <1>1 DEF IsTable
<1> DEFINE a == ExpansionCost(r, lower)
           b == ExpansionCost(r, costs)
           c == costs[x]
<1> HIDE DEF a, b, c
<1>6. a \in Nat /\ b \in Nat /\ c \in Nat /\ a <= b /\ b <= c
  BY <1>2, <1>3, <1>5 DEF Supports, a, b, c
<1>7. CASE a < c
  BY <1>2, <1>7 DEF Supports, a, c
<1>8. CASE a >= c
  <2>1. a = c /\ b = c /\ a = b
    BY <1>6, <1>8
  <2>2. \A j \in 1..Len(r.keys) : ~ (lower[r.keys[j]] < costs[r.keys[j]])
    BY <1>2, <1>6, <2>1 DEF a, b
  <2>3. \A j \in 1..Len(r.keys) : r.keys[j] # k /\ r.keys[j] \in DOMAIN costs
    BY <1>1, <1>4, <2>2 DEF HasCost
  <2>4. \A j \in 1..Len(r.keys) : rho[r.keys[j]] < rho[x]
    BY <1>4, <1>6, <2>1 DEF Supports, b, c
  <2>5. \A j \in DOMAIN r.keys : rho2[r.keys[j]] < rho2[x]
    BY <1>4, <2>3, <2>4
  <2> QED BY <1>2, <2>1, <2>5 DEF Supports, a, c
<1> QED BY <1>6, <1>7, <1>8

LEMMA RankingGrows ==
  ASSUME NEW f, NEW rules, NEW costs, NEW lower, Lowers(lower, costs),
         \A x \in DOMAIN lower : \A n \in 1..Len(rules[x]) : rules[x][n] \in FileRules(f),
         NEW rho, NEW b, Ranking(rho, b, rules, costs),
         NEW k, NEW i \in 1..Len(rules[k]), HasCost(rules[k][i], costs),
         DOMAIN lower = DOMAIN costs \cup {k},
         lower[k] = ExpansionCost(rules[k][i], costs),
         k \in DOMAIN costs => lower[k] < costs[k],
         \A x \in DOMAIN costs : x # k => lower[x] = costs[x]
  PROVE  Ranking(Put(rho, k, b), b+1, rules, lower)
<1> DEFINE rho2 == Put(rho, k, b)
           r == rules[k][i]
<1>1. /\ rho \in [DOMAIN costs -> Nat] /\ b \in Nat /\ IsTable(costs) /\ IsTable(lower)
      /\ (\A x \in DOMAIN costs : rho[x] < b)
      /\ (\A x, y \in DOMAIN costs : rho[x] = rho[y] => x = y)
      /\ \A x \in DOMAIN costs : \E n \in 1..Len(rules[x]) : Supports(rules[x][n], x, rho, costs)
  BY DEF Ranking, Lowers
<1>2. /\ rho2[k] = b /\ \A x \in DOMAIN costs : x # k => rho2[x] = rho[x]
      /\ rho2 = [x \in DOMAIN lower |-> rho2[x]]
  BY <1>1 DEF Put
<1> HIDE DEF rho2
<1>3. \A x \in DOMAIN costs : rho[x] \in Nat
  BY <1>1
<1>4. \A x \in DOMAIN lower : x = k \/ (x \in DOMAIN costs /\ x # k /\ rho2[x] = rho[x])
  BY <1>2
<1>5. \A x \in DOMAIN lower : rho2[x] \in Nat /\ rho2[x] < b+1 /\ (x # k => rho2[x] < b)
  BY <1>1, <1>2, <1>3, <1>4
<1>6. rho2 \in [DOMAIN lower -> Nat]
  BY <1>2, <1>5
<1>7. \A x, y \in DOMAIN lower : rho2[x] = rho2[y] => x = y
  BY <1>1, <1>2, <1>3, <1>4
<1>8. Supports(r, k, rho2, lower)
  <2>1. r \in FileRules(f) /\ k \in DOMAIN lower
    OBVIOUS
  <2>2. HasCost(r, lower) /\ ExpansionCost(r, lower) <= ExpansionCost(r, costs)
    BY <2>1, CostFalls
  <2>3. \A j \in 1..Len(r.keys) : costs[r.keys[j]] <= ExpansionCost(r, costs)
    BY <1>1, <2>1, CostAboveKeys
  <2>4. DOMAIN r.keys = 1..Len(r.keys)
    BY <2>1, RuleTyping
  <2>5. ExpansionCost(r, costs) \in Nat /\ ExpansionCost(r, lower) \in Nat
    BY <1>1, <2>1, <2>2, WeightsNat
  <2>6. \A j \in DOMAIN r.keys : r.keys[j] \in DOMAIN costs
    BY DEF HasCost
  <2>7. \A x \in DOMAIN costs : costs[x] \in Nat
    BY <1>1 DEF IsTable
  <2>8. \A j \in DOMAIN r.keys : r.keys[j] # k
    <3> SUFFICES ASSUME NEW j \in DOMAIN r.keys, r.keys[j] = k PROVE FALSE
      OBVIOUS
    <3>1. k \in DOMAIN costs /\ costs[k] <= ExpansionCost(r, costs)
      BY <2>3, <2>4, <2>6
    <3>2. ExpansionCost(r, costs) < costs[k]
      BY <3>1
    <3> QED BY <2>5, <2>7, <3>1, <3>2
  <2>9. \A j \in DOMAIN r.keys : rho2[r.keys[j]] < rho2[k]
    BY <1>2, <1>5, <2>6, <2>8
  <2>10. ExpansionCost(r, lower) < lower[k] \/ ExpansionCost(r, lower) = lower[k]
    <3> DEFINE u == ExpansionCost(r, lower)
               v == ExpansionCost(r, costs)
    <3>1. u \in Nat /\ v \in Nat /\ u <= v /\ lower[k] = v
      BY <2>2, <2>5
    <3> HIDE DEF u, v
    <3>2. u < v \/ u = v
      BY <3>1
    <3> QED BY <3>1, <3>2 DEF u
  <2> QED BY <2>2, <2>9, <2>10 DEF Supports
<1>9. ASSUME NEW x \in DOMAIN costs, x # k
      PROVE  \E n \in 1..Len(rules[x]) : Supports(rules[x][n], x, rho2, lower)
  <2>1. PICK n \in 1..Len(rules[x]) : Supports(rules[x][n], x, rho, costs)
    BY <1>1, <1>9
  <2>2. rules[x][n] \in FileRules(f)
    BY <1>9
  <2>3. Supports(rules[x][n], x, rho2, lower)
    <3>1. PICK s : s = rules[x][n]
      OBVIOUS
    <3>2. s \in FileRules(f) /\ Supports(s, x, rho, costs) /\ lower[x] = costs[x]
      BY <1>9, <2>1, <2>2, <3>1
    <3>3. \A y \in DOMAIN costs : y # k => rho2[y] = rho[y]
      BY <1>2
    <3>4. Supports(s, x, rho2, lower)
      BY <1>9, <3>2, <3>3, SupportStays
    <3> QED BY <3>1, <3>4
  <2> QED BY <2>3
<1>10. \A x \in DOMAIN lower :
         \E n \in 1..Len(rules[x]) : Supports(rules[x][n], x, rho2, lower)
  BY <1>4, <1>8, <1>9
<1>11. b+1 \in Nat
  BY <1>1
<1> QED BY <1>5, <1>6, <1>7, <1>10, <1>11 DEF Ranking, rho2

LEMMA VisitRuleDeriving ==
  ASSUME Reading, KeysListed, Costing, Deriving, VisitRule
  PROVE  Deriving'
<1>1. PICK k : k = Key
  OBVIOUS
<1>2. PICK i : i = at[2]
  OBVIOUS
<1>3. PICK r : r = grammar.rules[k][i]
  OBVIOUS
<1> DEFINE c == ExpansionCost(r, key_cost)
           rs == grammar.rules
           new == CheaperKey(k, c)
<1>4. /\ pc = "cost" /\ i \in 1..Len(rs[k]) /\ k \in Keys
      /\ UNCHANGED <<grammar, pc>>
      /\ \/ ~ HasCost(r, key_cost) /\ UNCHANGED key_cost
         \/ HasCost(r, key_cost) /\ c \in Nat /\ key_cost' = new
  BY <1>1, <1>2, <1>3, VisitFacts
<1>5. IsTable(key_cost) /\ DOMAIN key_cost \subseteq Keys
  BY DEF Costing
<1>6. PICK rho, b : Ranking(rho, b, rs, key_cost)
  BY <1>4 DEF Deriving
<1>7. CASE key_cost' = key_cost
  BY <1>4, <1>6, <1>7 DEF Deriving
<1>8. CASE HasCost(r, key_cost) /\ c \in Nat /\ key_cost' = new /\ new # key_cost
  <2> HIDE DEF c
  <2>1. /\ DOMAIN new = DOMAIN key_cost \cup {k}
        /\ Lowers(new, key_cost)
        /\ \A x \in DOMAIN key_cost : x # k => new[x] = key_cost[x]
        /\ new[k] = c /\ (k \in DOMAIN key_cost => c < key_cost[k])
    <3>1. c \in Nat /\ new # key_cost
      BY <1>8
    <3>2. /\ DOMAIN new = DOMAIN key_cost \cup {k}
          /\ Lowers(new, key_cost)
          /\ \A x \in DOMAIN key_cost : x # k => new[x] = key_cost[x]
          /\ \/ new = key_cost
             \/ new[k] = c /\ (k \in DOMAIN key_cost => c < key_cost[k])
      BY <1>5, <3>1, CheaperFacts, ZenonT(30)
    <3> QED BY <3>1, <3>2
  <2> HIDE DEF new
  <2>2. \A x \in Keys : \A n \in 1..Len(rs[x]) : rs[x][n] \in FileRules(file)
    BY GrammarTyping
  <2>3. \A x \in DOMAIN new : \A n \in 1..Len(rs[x]) : rs[x][n] \in FileRules(file)
    BY <1>4, <1>5, <2>1, <2>2
  <2>4. new[k] = ExpansionCost(rs[k][i], key_cost) /\ HasCost(rs[k][i], key_cost)
    BY <1>3, <1>8, <2>1 DEF c
  <2>5. k \in DOMAIN key_cost => new[k] < key_cost[k]
    BY <2>1
  <2> HIDE DEF rs
  <2>6. Ranking(Put(rho, k, b), b+1, rs, new)
    BY <1>4, <1>6, <2>1, <2>3, <2>4, <2>5, RankingGrows
  <2> QED BY <1>4, <1>8, <2>6 DEF Deriving, rs
<1> QED BY <1>4, <1>7, <1>8

LEMMA OtherStepsDeriving ==
  ASSUME Deriving, \/ UNCHANGED <<grammar, key_cost>> /\ pc \in {"read", "cost", "order"}
                   \/ pc' \notin {"read", "cost", "order"}
                   \/ key_cost' = NoEntry
  PROVE  Deriving'
<1>1. CASE UNCHANGED <<grammar, key_cost>> /\ pc \in {"read", "cost", "order"}
  BY <1>1 DEF Deriving
<1>2. CASE key_cost' = NoEntry
  <2>1. \E rho, b : Ranking(rho, b, grammar'.rules, NoEntry)
    BY NoRanking
  <2> QED BY <1>2, <2>1 DEF Deriving
<1> QED BY <1>1, <1>2 DEF Deriving

-----------------------------------------------------------------------------
(* The invariant of compute_cost, for all steps of the build.              *)
CostInv == Reading /\ KeysListed /\ Costing /\ Pricing /\ Deriving

LEMMA InitCostInv == BuildInit => CostInv
<1> SUFFICES ASSUME BuildInit PROVE CostInv
  OBVIOUS
<1>1. key_cost = NoEntry
  BY DEF BuildInit
<1>2. Deriving
  BY <1>1, NoRanking DEF Deriving
<1> QED BY <1>2, InitCosting, InitPricing DEF CostInv

LEMMA NextCostInv ==
  ASSUME CostInv, [Build]_buildVars
  PROVE  CostInv'
<1> USE DEF CostInv
<1>0. pc \in Phases
  BY DEF Reading
<1>1. CASE Rule
  <2>1. pc = "read" /\ pc' = "read" /\ UNCHANGED <<key_cost>> /\ key_cost = NoEntry
    BY <1>1 DEF Rule, costVars, Costing
  <2>2. Pricing' /\ Deriving'
    BY <2>1, OtherStepsDeriving DEF Pricing
  <2> QED BY <1>1, <2>2, RuleInv
<1>2. CASE LoadGrammar
  <2>1. pc = "read" /\ UNCHANGED <<grammar, key_cost>>
    BY <1>2 DEF LoadGrammar
  <2> QED BY <1>2, <2>1, LoadGrammarCosting, LoadGrammarPricing, OtherStepsDeriving
<1>3. CASE VisitRule
  BY <1>3, VisitRuleCosting, VisitRulePricing, VisitRuleDeriving
<1>4. CASE NextKey
  <2>1. pc = "cost" /\ UNCHANGED <<grammar, key_cost>>
    BY <1>4 DEF NextKey
  <2> QED BY <1>4, <2>1, NextKeyCosting, NextKeyPricing, OtherStepsDeriving
<1>5. CASE EndPass
  <2>1. pc = "cost" /\ UNCHANGED <<grammar, key_cost>>
    BY <1>5 DEF EndPass
  <2> QED BY <1>5, <2>1, EndPassCosting, EndPassPricing, OtherStepsDeriving
<1>6. CASE OrderRules
  <2>1. pc = "order" /\ pc' \in {"failed", "complete"}
    BY <1>6 DEF OrderRules
  <2>2. Pricing' /\ Deriving'
    BY <2>1, OtherStepsDeriving DEF Pricing
  <2> QED BY <1>6, <2>2, OrderRulesCosting
<1>7. ASSUME UNCHANGED <<file, called, grammar, costVars>>,
             pc' = pc \/ (pc = "complete" /\ pc' = "ready")
      PROVE  CostInv'
  <2>1. Reading' /\ KeysListed' /\ Costing'
    BY <1>7, OtherStepsCosting
  <2>2. UNCHANGED <<at, key_cost, cost_, cost>>
    BY <1>7 DEF costVars
  <2>3. Deriving'
    <3>1. \/ pc \in {"read", "cost", "order"}
          \/ pc' \notin {"read", "cost", "order"}
      BY <1>7
    <3> QED BY <1>7, <2>2, <3>1, OtherStepsDeriving
  <2>4. Pricing'
    <3>1. CASE pc # "cost"
      BY <1>7, <2>2, <3>1, OtherStepsPricing
    <3>2. CASE pc = "cost"
      BY <1>7, <2>2, <3>2 DEF Pricing, Repeats, Accurate, Visited, Keys
    <3> QED BY <3>1, <3>2
  <2> QED BY <2>1, <2>3, <2>4
<1>8. CASE Translate
  BY <1>7, <1>8 DEF Translate
<1>9. CASE CompleteKey \/ CallSubnode \/ NextCheapRule \/ ReturnTrees
  BY <1>7, <1>9 DEF CompleteKey, CallSubnode, NextCheapRule, ReturnTrees
<1>10. CASE WriteSource
  BY <1>7, <1>10 DEF WriteSource
<1>11. CASE UNCHANGED buildVars
  BY <1>7, <1>11 DEF buildVars
<1> QED BY <1>1, <1>2, <1>3, <1>4, <1>5, <1>6, <1>8, <1>9, <1>10, <1>11 DEF Build

LEMMA BuildKeepsCostInv == BuildSpec => []CostInv
<1>1. CostInv /\ [Build]_buildVars => CostInv'
  BY NextCostInv
<1> QED BY InitCostInv, <1>1, PTL DEF BuildSpec

-----------------------------------------------------------------------------
(* What OrderRules makes of the costs.                                     *)
LEMMA AscendingAll ==
  ASSUME NEW entries \in Seq(Entry), Ascending(entries),
         NEW m \in 1..Len(entries), NEW n \in m..Len(entries)
  PROVE  entries[m].cost <= entries[n].cost
<1> DEFINE L == Len(entries)
           S == {d \in 0..(L-m) : entries[m].cost <= entries[m+d].cost}
<1>1. L \in Nat /\ \A i \in 1..L : entries[i].cost \in Nat
  BY EntryTyping
<1> HIDE DEF L
<1>2. m \in 1..L /\ n \in m..L /\ L-m \in Nat
  BY <1>1 DEF L
<1>3. 0 \in S
  <2>1. m+0 = m /\ entries[m].cost \in Nat
    BY <1>1, <1>2
  <2> QED BY <1>2, <2>1
<1>4. ASSUME NEW d \in 1..(L-m), d-1 \in S PROVE d \in S
  <2>1. m+d \in 2..L /\ (m+d)-1 = m+(d-1) /\ m+d \in 1..L /\ m+(d-1) \in 1..L
    BY <1>1, <1>2
  <2>2. entries[m+(d-1)].cost <= entries[m+d].cost
    BY <2>1 DEF Ascending, L
  <2>3. entries[m].cost <= entries[m+(d-1)].cost
    BY <1>4
  <2>4. \A a, b, c \in Nat : a <= b /\ b <= c => a <= c
    OBVIOUS
  <2>5. entries[m].cost <= entries[m+d].cost
    BY <1>1, <1>2, <2>1, <2>2, <2>3, <2>4
  <2> QED BY <1>1, <1>2, <2>5
<1>5. 0..(L-m) \subseteq S
  <2> HIDE DEF S
  <2> QED BY <1>2, <1>3, <1>4, NatClosed
<1>6. n-m \in S
  <2>1. n-m \in 0..(L-m)
    BY <1>1, <1>2
  <2> HIDE DEF S
  <2> QED BY <1>5, <2>1
<1>7. m+(n-m) = n
  BY <1>1, <1>2
<1> QED BY <1>6, <1>7

(* The cheapest rule of a key costs what key_cost says.                    *)
LEMMA CheapestCost ==
  ASSUME CostInv, pc = "order", NEW k \in Keys, cost[k] # <<>>
  PROVE  /\ k \in DOMAIN key_cost /\ cost[k][1].cost = key_cost[k]
         /\ Len(cost[k]) \in Nat /\ Len(cost[k]) > 0
<1> DEFINE s == cost[k]
           rs == grammar.rules[k]
<1>1. /\ s \in Seq(Entry) /\ EntriesOf(s, k)
      /\ Bounds(s, k, key_cost) /\ Ascending(s) /\ Exact(s, rs, key_cost)
      /\ \A i \in 1..Len(rs) : Covered(s, rs[i], i, key_cost)
  BY DEF CostInv, Costing, NotedIn, EntriesOf, Pricing, Priced
<1> HIDE DEF s
<1>2. Len(s) \in Nat /\ \A n \in 1..Len(s) : s[n].cost \in Nat
  BY <1>1, EntryTyping
<1>3. Len(s) > 0 /\ 1 \in 1..Len(s)
  <2>1. s # <<>>
    BY DEF s
  <2>2. Len(s) # 0
    BY <1>1, <2>1
  <2> QED BY <1>2, <2>2
<1>4. k \in DOMAIN key_cost /\ key_cost[k] <= s[1].cost
  BY <1>1, <1>3 DEF Bounds
<1>5. PICK rho, b : Ranking(rho, b, grammar.rules, key_cost)
  BY DEF CostInv, Deriving
<1>6. PICK i \in 1..Len(rs) : Supports(rs[i], k, rho, key_cost)
  BY <1>4, <1>5 DEF Ranking
<1>7. rs[i] \in FileRules(file)
  BY GrammarTyping DEF CostInv
<1>8. IsTable(key_cost)
  BY DEF CostInv, Costing
<1>9. HasCost(rs[i], key_cost) /\ ExpansionCost(rs[i], key_cost) \in Nat
  BY <1>6, <1>7, <1>8, WeightsNat DEF Supports
<1>10. key_cost[k] \in Nat
  BY <1>4, <1>8 DEF IsTable
<1>11. ExpansionCost(rs[i], key_cost) <= key_cost[k]
  BY <1>6, <1>9, <1>10 DEF Supports
<1>12. PICK n \in 1..Len(s) : s[n].id = i
  BY <1>1, <1>9 DEF Covered
<1>13. s[n].cost = ExpansionCost(rs[i], key_cost)
  BY <1>1, <1>12 DEF Exact
<1>14. n \in 1..Len(s)
  BY <1>2
<1>15. s[1].cost <= s[n].cost
  BY <1>1, <1>3, <1>14, AscendingAll
<1>16. s[1].cost = key_cost[k]
  BY <1>2, <1>3, <1>4, <1>9, <1>10, <1>11, <1>13, <1>15
<1> QED BY <1>2, <1>3, <1>4, <1>16 DEF s

(* compute_cost leaves no rule that makes a shorter text.                  *)
LEMMA NoCheaperRule ==
  ASSUME CostInv, pc = "order", NEW k \in Keys,
         NEW i \in 1..Len(grammar.rules[k]), NEW r, r = grammar.rules[k][i],
         HasCost(r, key_cost)
  PROVE  k \in DOMAIN key_cost /\ key_cost[k] <= ExpansionCost(r, key_cost)
<1> DEFINE s == cost[k]
           rs == grammar.rules[k]
<1>1. Bounds(s, k, key_cost) /\ Exact(s, rs, key_cost) /\ Covered(s, rs[i], i, key_cost)
  BY DEF CostInv, Pricing, Priced
<1>2. PICK n \in 1..Len(s) : s[n].id = i
  BY <1>1 DEF Covered
<1>3. s[n].cost = ExpansionCost(r, key_cost)
  BY <1>1, <1>2 DEF Exact
<1> QED BY <1>1, <1>3 DEF Bounds

(* The tables of PooledFuzzer: rule i stands beside its cost, the cheap    *)
(* rules are the first ones.                                               *)
Tabled(k) ==
  /\ cost[k] \in Seq(Entry) /\ Len(cost[k]) > 0 /\ Ascending(cost[k])
  /\ DOMAIN grammar.rules[k] = 1..Len(cost[k])
  /\ \A i \in 1..Len(cost[k]) :
       /\ HasCost(grammar.rules[k][i], key_cost)
       /\ cost[k][i].cost = ExpansionCost(grammar.rules[k][i], key_cost)
  /\ k \in DOMAIN key_cost /\ cost[k][1].cost = key_cost[k]

Cheap(k) ==
  /\ c_grammar[k] \in Seq(FileRules(file)) /\ Len(c_grammar[k]) > 0
  /\ \A i \in 1..Len(c_grammar[k]) :
       /\ HasCost(c_grammar[k][i], key_cost)
       /\ ExpansionCost(c_grammar[k][i], key_cost) = key_cost[k]
  /\ \A i \in 1..Len(c_grammar[k]) :
       i \in DOMAIN grammar.rules[k] /\ c_grammar[k][i] = grammar.rules[k][i]

Tabling ==
  /\ pc \in {"complete", "ready"} =>
       DOMAIN c_grammar = Keys /\ \A k \in Keys : Tabled(k) /\ Cheap(k)
  /\ pc \notin {"complete", "ready"} => c_grammar = NoEntry

(* The first entries are those that cost as much as the first one.         *)
LEMMA CheapFirst ==
  ASSUME NEW s \in Seq(Entry), Len(s) > 0, Ascending(s),
         NEW S, S = {n \in DOMAIN s : s[n].cost = s[1].cost}
  PROVE  /\ Selected(s, S) \in Seq(Entry)
         /\ Len(Selected(s, S)) \in 1..Len(s)
         /\ \A i \in 1..Len(Selected(s, S)) :
              /\ i \in 1..Len(s) /\ Selected(s, S)[i] = s[i]
              /\ s[i].cost = s[1].cost
<1>1. /\ Len(s) \in Nat /\ DOMAIN s = 1..Len(s)
      /\ \A n \in 1..Len(s) : s[n].cost \in Nat
  BY EntryTyping
<1> DEFINE u == Selected(s, S)
<1>2. /\ u \in Seq(Entry) /\ Len(u) \in 0..Len(s)
      /\ \A i \in 1..Len(u) : \E n \in 1..Len(s) : n \in S /\ u[i] = s[n]
      /\ 1 \in S /\ Len(s) > 0 => Len(u) > 0
      /\ (\A n \in 1..Len(s) : n \in S => \A m \in 1..n : m \in S) =>
           \A i \in 1..Len(u) : u[i] = s[i]
  <2>1. u \in Seq(Entry) /\ IsSelection(u, s, S)
    BY SelectedFacts, Zenon
  <2> HIDE DEF u
  <2> QED BY <2>1 DEF IsSelection
<1> HIDE DEF u
<1>3. ASSUME NEW n \in 1..Len(s), n \in S, NEW m \in 1..n PROVE m \in S
  <2>1. m \in 1..Len(s) /\ n \in m..Len(s) /\ 1 \in 1..Len(s) /\ m \in 1..Len(s)
    BY <1>1
  <2>2. s[m].cost <= s[n].cost
    BY <2>1, AscendingAll
  <2>3. s[1].cost <= s[m].cost
    BY <2>1, AscendingAll
  <2>4. s[n].cost = s[1].cost
    BY <1>3
  <2>5. s[m].cost = s[1].cost
    BY <1>1, <2>1, <2>2, <2>3, <2>4
  <2> QED BY <1>1, <2>1, <2>5
<1>4. \A i \in 1..Len(u) : u[i] = s[i]
  BY <1>2, <1>3
<1>5. 1 \in S
  BY <1>1
<1>6. Len(u) \in 1..Len(s)
  BY <1>1, <1>2, <1>5
<1>7. ASSUME NEW i \in 1..Len(u)
      PROVE  i \in 1..Len(s) /\ u[i] = s[i] /\ s[i].cost = s[1].cost
  <2>1. i \in 1..Len(s)
    BY <1>1, <1>6
  <2>2. PICK n \in 1..Len(s) : n \in S /\ u[i] = s[n]
    BY <1>2
  <2>3. s[n].cost = s[1].cost
    BY <2>2
  <2> QED BY <1>4, <2>1, <2>2, <2>3
<1> QED BY <1>2, <1>6, <1>7 DEF u

LEMMA OrderRulesTabling ==
  ASSUME CostInv, Tabling, OrderRules
  PROVE  Tabling'
<1>1. /\ pc = "order" /\ UNCHANGED <<file, cost, key_cost>>
      /\ \/ pc' = "failed" /\ UNCHANGED c_grammar
         \/ /\ pc' = "complete" /\ Unproductive = {}
            /\ c_grammar' = [k \in Keys |-> CheapRules(k)]
            /\ grammar' = [grammar EXCEPT !.rules = [k \in Keys |-> OrderedRules(k)]]
  BY DEF OrderRules, costVars
<1>2. CASE pc' = "failed" /\ UNCHANGED c_grammar
  BY <1>1, <1>2 DEF Tabling
<1>3. CASE /\ pc' = "complete" /\ Unproductive = {}
           /\ c_grammar' = [k \in Keys |-> CheapRules(k)]
           /\ grammar' = [grammar EXCEPT !.rules = [k \in Keys |-> OrderedRules(k)]]
  <2>1. \A k \in Keys : grammar'.rules[k] = OrderedRules(k)
    <3>1. grammar \in [keys : Seq(Keys), rules : [Keys -> Seq(FileRules(file))]]
      BY DEF CostInv, Reading
    <3> DEFINE new == [k \in Keys |-> OrderedRules(k)]
               K == Keys
               R == FileRules(file)
    <3>2. grammar' = [grammar EXCEPT !.rules = new]
      BY <1>3
    <3>3. \A k \in Keys : new[k] = OrderedRules(k)
      OBVIOUS
    <3> HIDE DEF new, K, R
    <3>4. grammar'.rules = new
      <4>1. grammar \in [keys : Seq(K), rules : [K -> Seq(R)]]
        BY <3>1 DEF K, R
      <4> QED BY <3>2, <4>1
    <3> QED BY <3>3, <3>4
  <2>2. Keys' = Keys
    <3>1. Keys' = DOMAIN grammar'.rules
      BY DEF Keys
    <3>2. grammar \in [keys : Seq(Keys), rules : [Keys -> Seq(FileRules(file))]]
      BY DEF CostInv, Reading
    <3> DEFINE new == [k \in Keys |-> OrderedRules(k)]
    <3>3. grammar' = [grammar EXCEPT !.rules = new] /\ DOMAIN new = Keys
      BY <1>3
    <3> HIDE DEF new
    <3>4. grammar'.rules = new
      BY <3>2, <3>3
    <3> QED BY <3>1, <3>3, <3>4
  <2>3. FileRules(file)' = FileRules(file)
    BY <1>1 DEF FileRules, FileKeys
  <2>4. DOMAIN c_grammar' = Keys /\ \A k \in Keys : c_grammar'[k] = CheapRules(k)
    BY <1>3
  <2>5. ASSUME NEW k \in Keys PROVE Tabled(k)' /\ Cheap(k)'
    <3> DEFINE s == cost[k]
               rs == grammar.rules[k]
               new == OrderedRules(k)
               S == {n \in DOMAIN s : s[n].cost = s[1].cost}
               u == Selected(s, S)
    <3>1. s # <<>>
      BY <1>3 DEF Unproductive
    <3>2. /\ k \in DOMAIN key_cost /\ s[1].cost = key_cost[k]
          /\ Len(s) \in Nat /\ Len(s) > 0
      BY <1>1, <3>1, CheapestCost
    <3>3. /\ s \in Seq(Entry) /\ EntriesOf(s, k) /\ Ascending(s) /\ Exact(s, rs, key_cost)
      BY <1>1 DEF CostInv, Costing, NotedIn, EntriesOf, Pricing, Priced
    <3>4. /\ new \in Seq(FileRules(file))
          /\ DOMAIN new = 1..Len(s)
          /\ \A n \in 1..Len(s) : new[n] = rs[s[n].id]
      BY <3>3, RulesOfTyping DEF OrderedRules, CostInv
    <3>5. \A n \in 1..Len(s) : /\ HasCost(rs[s[n].id], key_cost)
                               /\ s[n].cost = ExpansionCost(rs[s[n].id], key_cost)
      BY <3>3 DEF Exact
    <3>6. CheapRules(k) = RulesOf(u, k)
      BY DEF CheapRules
    <3>7. grammar'.rules[k] = new /\ c_grammar'[k] = RulesOf(u, k)
          /\ cost'[k] = s /\ key_cost' = key_cost
      BY <1>1, <2>1, <2>4, <3>6
    <3> HIDE DEF s, new
    <3>8. /\ u \in Seq(Entry) /\ Len(u) \in 1..Len(s)
          /\ \A i \in 1..Len(u) : i \in 1..Len(s) /\ u[i] = s[i] /\ s[i].cost = s[1].cost
      BY <3>2, <3>3, CheapFirst
    <3> HIDE DEF u
    <3>9. EntriesOf(u, k)
      <4>1. DOMAIN u = 1..Len(u) /\ DOMAIN s = 1..Len(s)
        BY <3>3, <3>8, EntryTyping
      <4>2. IdsDiffer(u)
        BY <3>3, <3>8, <4>1 DEF EntriesOf, IdsDiffer
      <4> QED BY <3>3, <3>8, <4>2 DEF EntriesOf
    <3> DEFINE cr == RulesOf(u, k)
    <3>10. /\ cr \in Seq(FileRules(file)) /\ Len(cr) = Len(u)
           /\ \A n \in 1..Len(u) : cr[n] = rs[u[n].id]
      BY <3>9, RulesOfTyping DEF CostInv
    <3> HIDE DEF cr, rs
    <3>11. \A n \in 1..Len(u) : cr[n] = rs[s[n].id] /\ n \in 1..Len(s) /\ s[n].cost = s[1].cost
      BY <3>8, <3>10
    <3>12. Len(cr) > 0
      BY <3>2, <3>8, <3>10
    <3>13. \A n \in 1..Len(cr) : /\ HasCost(cr[n], key_cost)
                                 /\ ExpansionCost(cr[n], key_cost) = key_cost[k]
                                 /\ n \in DOMAIN new /\ cr[n] = new[n]
      BY <3>2, <3>4, <3>5, <3>10, <3>11
    <3>14. Cheap(k)'
      BY <2>3, <3>7, <3>10, <3>12, <3>13 DEF Cheap, cr
    <3>15. Tabled(k)'
      BY <3>2, <3>3, <3>4, <3>5, <3>7 DEF Tabled
    <3> QED BY <3>14, <3>15
  <2> QED BY <1>3, <2>2, <2>4, <2>5 DEF Tabling
<1> QED BY <1>1, <1>2, <1>3

LEMMA OtherStepsTabling ==
  ASSUME Tabling, UNCHANGED <<file, cost, key_cost, c_grammar>>,
         \/ pc \in {"complete", "ready"} /\ pc' \in {"complete", "ready"} /\ UNCHANGED grammar
         \/ pc \notin {"complete", "ready"} /\ pc' \notin {"complete", "ready"}
  PROVE  Tabling'
<1>1. CASE pc \in {"complete", "ready"} /\ pc' \in {"complete", "ready"} /\ UNCHANGED grammar
  <2>1. Keys' = Keys /\ FileRules(file)' = FileRules(file)
    BY <1>1 DEF Keys, FileRules, FileKeys
  <2>2. ASSUME NEW k \in Keys, Tabled(k), Cheap(k) PROVE Tabled(k)' /\ Cheap(k)'
    BY <1>1, <2>1, <2>2 DEF Tabled, Cheap
  <2> QED BY <1>1, <2>1, <2>2 DEF Tabling
<1>2. CASE pc \notin {"complete", "ready"} /\ pc' \notin {"complete", "ready"}
  BY <1>2 DEF Tabling
<1> QED BY <1>1, <1>2

LEMMA NextTabling ==
  ASSUME CostInv, Tabling, [Build]_buildVars
  PROVE  Tabling'
<1>1. CASE OrderRules
  BY <1>1, OrderRulesTabling
<1>2. CASE Rule \/ LoadGrammar \/ VisitRule \/ NextKey \/ EndPass
  <2>1. /\ pc \notin {"complete", "ready"} /\ pc' \notin {"complete", "ready"}
        /\ UNCHANGED c_grammar
    <3>1. CASE EndPass
      BY <3>1 DEF EndPass, poolVars
    <3> QED BY <1>2, <3>1 DEF Rule, LoadGrammar, VisitRule, NextKey, poolVars
  <2> QED BY <2>1 DEF Tabling
<1>3. CASE \/ Translate \/ CompleteKey \/ CallSubnode \/ NextCheapRule \/ ReturnTrees
           \/ WriteSource \/ UNCHANGED buildVars
  <2>1. UNCHANGED <<file, cost, key_cost, c_grammar, grammar>>
    BY <1>3 DEF Translate, CompleteKey, CallSubnode, NextCheapRule, ReturnTrees,
                WriteSource, costVars, poolVars, buildVars
  <2>2. pc' = pc \/ (pc = "complete" /\ pc' = "ready")
    BY <1>3 DEF Translate, CompleteKey, CallSubnode, NextCheapRule, ReturnTrees,
                WriteSource, buildVars
  <2> QED BY <2>1, <2>2, OtherStepsTabling
<1> QED BY <1>1, <1>2, <1>3 DEF Build

LEMMA InitTabling == BuildInit => Tabling
BY DEF BuildInit, Tabling

-----------------------------------------------------------------------------
(* The costs noted down by the pass that compute_cost (f1_common.py) ends  *)
(* with are those of the final key_cost, and the tables that PooledFuzzer  *)
(* (f1_c_gen.py) orders by them keep each rule beside its cost.            *)
LEMMA CostsBelong == CostInv /\ Tabling => CostsBelongToRules
<1> SUFFICES ASSUME CostInv, Tabling PROVE CostsBelongToRules
  OBVIOUS
<1>1. ASSUME pc = "order", NEW k \in Keys
      PROVE  /\ {cost[k][n].id : n \in DOMAIN cost[k]} =
                  {i \in DOMAIN grammar.rules[k] : HasCost(grammar.rules[k][i], key_cost)}
             /\ \A m, n \in DOMAIN cost[k] : m # n => cost[k][m].id # cost[k][n].id
  <2> DEFINE s == cost[k]
             rs == grammar.rules[k]
  <2>1. /\ s \in Seq(Entry) /\ IdsDiffer(s)
        /\ \A n \in 1..Len(s) : s[n].id \in 1..Len(rs)
        /\ Exact(s, rs, key_cost)
        /\ \A i \in 1..Len(rs) : Covered(s, rs[i], i, key_cost)
    BY <1>1 DEF CostInv, Costing, NotedIn, EntriesOf, Pricing, Priced
  <2>2. DOMAIN s = 1..Len(s)
    BY <2>1, EntryTyping
  <2>3. DOMAIN rs = 1..Len(rs)
    BY GrammarTyping DEF CostInv
  <2> HIDE DEF s, rs
  <2>4. \A n \in DOMAIN s : s[n].id \in DOMAIN rs /\ HasCost(rs[s[n].id], key_cost)
    BY <2>1, <2>2, <2>3 DEF Exact
  <2>5. \A i \in DOMAIN rs : HasCost(rs[i], key_cost) => \E n \in DOMAIN s : s[n].id = i
    BY <2>1, <2>2, <2>3 DEF Covered
  <2>6. {s[n].id : n \in DOMAIN s} = {i \in DOMAIN rs : HasCost(rs[i], key_cost)}
    BY <2>4, <2>5
  <2> QED BY <2>1, <2>6 DEF IdsDiffer, s, rs
<1>2. ASSUME pc \in {"complete", "ready"}, NEW k \in Keys
      PROVE  /\ DOMAIN cost[k] = DOMAIN grammar.rules[k]
             /\ \A i \in DOMAIN cost[k] :
                  /\ cost[k][i].cost = ExpansionCost(grammar.rules[k][i], key_cost)
                  /\ i > 1 => cost[k][i - 1].cost <= cost[k][i].cost
  <2>1. Tabled(k)
    BY <1>2 DEF Tabling
  <2>2. DOMAIN cost[k] = 1..Len(cost[k]) /\ Len(cost[k]) \in Nat
    BY <2>1, EntryTyping DEF Tabled
  <2>3. \A i \in 1..Len(cost[k]) : i > 1 => i \in 2..Len(cost[k])
    BY <2>2
  <2> QED BY <2>1, <2>2, <2>3 DEF Tabled, Ascending
<1> QED BY <1>1, <1>2 DEF CostsBelongToRules

THEOREM TablesAreExact == BuildSpec => []CostsBelongToRules
<1>1. CostInv /\ Tabling /\ [Build]_buildVars => CostInv' /\ Tabling'
  BY NextCostInv, NextTabling
<1> QED BY InitCostInv, InitTabling, <1>1, CostsBelong, PTL DEF BuildSpec

-----------------------------------------------------------------------------
(* Keys have places in the list of keys.                                   *)
LEMMA KeysCount ==
  ASSUME Reading, KeysListed
  PROVE  IsFiniteSet(Keys) /\ Cardinality(Keys) = Len(grammar.keys)
<1> DEFINE f == [i \in 1..Len(grammar.keys) |-> grammar.keys[i]]
           N == Len(grammar.keys)
<1>1. N \in Nat /\ \A i \in 1..N : grammar.keys[i] \in Keys
  BY GrammarTyping
<1>2. f \in [1..N -> Keys] /\ (\A k \in Keys : \E i \in 1..N : f[i] = k)
      /\ \A i, j \in 1..N : f[i] = f[j] => i = j
  BY <1>1 DEF KeysListed
<1> HIDE DEF f, N
<1>3. f \in Bijection(1..N, Keys)
  BY <1>2 DEF Bijection, Injection, IsInjective, Surjection
<1>4. ExistsBijection(1..N, Keys)
  BY <1>3 DEF ExistsBijection
<1>5. Cardinality(Keys) = N
  BY <1>1, <1>4, FS_CountingElements
<1>6. IsFiniteSet(Keys)
  BY <1>1, <1>4, FS_NatBijection
<1> QED BY <1>5, <1>6 DEF N

(* Derived follows its recursion.                                          *)
LEMMA DerivedSteps ==
  ASSUME Len(grammar.keys) \in Nat
  PROVE  \E D : /\ Derived = D[Len(grammar.keys)] /\ D[0] = {}
                /\ \A n \in 1..Len(grammar.keys) : D[n] = Reached(D[n-1])
<1> DEFINE N == Len(grammar.keys)
           V == SUBSET Keys
           Body(f) == [n \in 0..N |-> IF n = 0 THEN {} ELSE Reached(f[n-1])]
           F == CHOOSE f : f = Body(f)
<1>1. Derived = F[N]
  BY DEF Derived
<1>2. {} \in V /\ \A v : Reached(v) \in V
  BY DEF Reached
<1>3. \E f : f = Body(f)
  <2> DEFINE h == [p \in (1..N) \X V |-> Reached(p[2])]
  <2> HIDE DEF V
  <2>1. h \in [(1..N) \X V -> V]
    BY <1>2
  <2>2. \A k \in 1..N, v \in V : h[<<k, v>>] = Reached(v)
    OBVIOUS
  <2> HIDE DEF h, N
  <2>3. PICK f \in [0..N -> V] : f[0] = {} /\ \A k \in 1..N : f[k] = h[<<k, f[k-1]>>]
    <3>1. {} \in V /\ IsStep(h, N, V)
      BY <1>2, <2>1 DEF IsStep
    <3>2. N \in Nat
      BY DEF N
    <3>3. \E f \in [0..N -> V] : Follows(f, h, N, {})
      BY <3>1, <3>2, RecursionExists
    <3> QED BY <3>3 DEF Follows
  <2>4. \A n \in 0..N : f[n] = IF n = 0 THEN {} ELSE Reached(f[n-1])
    <3> TAKE n \in 0..N
    <3>1. n # 0 => n \in 1..N /\ n-1 \in 0..N
      BY DEF N
    <3>2. n # 0 => f[n-1] \in V
      BY <2>3, <3>1
    <3> QED BY <2>2, <2>3, <3>1, <3>2
  <2>5. f = Body(f)
    BY <2>3, <2>4
  <2> QED BY <2>5
<1>4. F = Body(F)
  <2> HIDE DEF Body
  <2> QED BY <1>3
<1> HIDE DEF F
<1>5. F[0] = {} /\ \A n \in 1..N : F[n] = Reached(F[n-1])
  <2>1. 0 \in 0..N /\ \A n \in 1..N : n \in 0..N /\ n # 0
    OBVIOUS
  <2> QED BY <1>4, <2>1
<1> QED BY <1>1, <1>5

(* compute_cost (f1_common.py) ends with the length of the shortest text   *)
(* of every key.  The keys in the order in which they got their costs are  *)
(* an order of derivation.                                                 *)
LEMMA CostsLeast == CostInv => CostsAreLeast
<1> SUFFICES ASSUME CostInv, pc = "order"
             PROVE  /\ DOMAIN key_cost = Derived
                    /\ \A k \in Keys : \A i \in DOMAIN grammar.rules[k] :
                         HasCost(grammar.rules[k][i], key_cost) =>
                           /\ k \in DOMAIN key_cost
                           /\ key_cost[k] <= ExpansionCost(grammar.rules[k][i], key_cost)
  BY DEF CostsAreLeast
<1> DEFINE D == DOMAIN key_cost
           N == Len(grammar.keys)
           rs == grammar.rules
<1>1. /\ D \subseteq Keys /\ IsTable(key_cost) /\ Reading /\ KeysListed
      /\ N \in Nat
      /\ \A k \in Keys : /\ DOMAIN rs[k] = 1..Len(rs[k])
                         /\ \A i \in 1..Len(rs[k]) : rs[k][i] \in FileRules(file)
  <2>1. Reading /\ KeysListed /\ Costing
    BY DEF CostInv
  <2> QED BY <2>1, GrammarTyping DEF Costing
<1>2. ASSUME NEW k \in Keys, NEW i \in 1..Len(rs[k]), HasCost(rs[k][i], key_cost)
      PROVE  k \in D /\ key_cost[k] <= ExpansionCost(rs[k][i], key_cost)
  BY <1>2, NoCheaperRule
<1>3. PICK rho, b : Ranking(rho, b, rs, key_cost)
  BY DEF CostInv, Deriving
<1>4. /\ \A k \in D : rho[k] \in Nat
      /\ \A k, l \in D : rho[k] = rho[l] => k = l
      /\ \A k \in D : \E i \in 1..Len(rs[k]) : Supports(rs[k][i], k, rho, key_cost)
  BY <1>3 DEF Ranking
<1>5. ASSUME NEW k \in D
      PROVE  \E i \in 1..Len(rs[k]) :
               /\ ExpansionCost(rs[k][i], key_cost) = key_cost[k]
               /\ \A j \in DOMAIN rs[k][i].keys :
                    rs[k][i].keys[j] \in D /\ rho[rs[k][i].keys[j]] < rho[k]
  <2>1. PICK i \in 1..Len(rs[k]) : Supports(rs[k][i], k, rho, key_cost)
    BY <1>4
  <2> DEFINE r == rs[k][i]
  <2>2. k \in Keys /\ r \in FileRules(file)
    BY <1>1
  <2>3. HasCost(r, key_cost)
    BY <2>1 DEF Supports
  <2>4. key_cost[k] <= ExpansionCost(r, key_cost)
    BY <1>2, <2>2, <2>3
  <2>5. ExpansionCost(r, key_cost) \in Nat
    BY <1>1, <2>2, <2>3, WeightsNat
  <2>6. key_cost[k] \in Nat
    BY <1>1 DEF IsTable
  <2> HIDE DEF r
  <2>7. ~ (ExpansionCost(r, key_cost) < key_cost[k])
    BY <2>4, <2>5, <2>6
  <2>8. /\ ExpansionCost(r, key_cost) = key_cost[k]
        /\ \A j \in DOMAIN r.keys : rho[r.keys[j]] < rho[k]
    BY <2>1, <2>7 DEF Supports, r
  <2>9. \A j \in DOMAIN r.keys : r.keys[j] \in D
    BY <2>3 DEF HasCost
  <2> QED BY <2>8, <2>9 DEF r
<1> DEFINE below == [k \in D |-> {l \in D : rho[l] < rho[k]}]
           rank(k) == Cardinality(below[k])
           M == Cardinality(D)
<1>6. OrdersAll(D, below)
  <2> HIDE DEF D
  <2>1. \A k \in D : ~ (rho[k] < rho[k])
    BY <1>4
  <2>2. \A k, l \in D : k = l \/ rho[k] < rho[l] \/ rho[l] < rho[k]
    BY <1>4
  <2>3. \A k, l, m \in D : rho[k] < rho[l] /\ rho[l] < rho[m] => rho[k] < rho[m]
    BY <1>4
  <2> QED BY <2>1, <2>2, <2>3 DEF OrdersAll
<1>7. IsFiniteSet(D) /\ M <= N /\ M \in Nat
  <2>1. IsFiniteSet(Keys) /\ Cardinality(Keys) = N
    BY <1>1, KeysCount
  <2> HIDE DEF D
  <2>2. IsFiniteSet(D) /\ Cardinality(D) <= N
    BY <1>1, <2>1, FS_Subset
  <2> QED BY <2>2, FS_CardinalityType
<1>8. RanksAll(D, below)
  <2> HIDE DEF D, below
  <2> QED BY <1>6, <1>7, Ranks
<1>9. PICK F : Derived = F[N] /\ F[0] = {} /\ \A n \in 1..N : F[n] = Reached(F[n-1])
  BY <1>1, DerivedSteps
<1>10. /\ \A k \in D : rank(k) \in Nat /\ rank(k) < M
       /\ \A k, l \in D : rho[l] < rho[k] => rank(l) < rank(k)
  <2>1. \A k, l \in D : rho[l] < rho[k] => l \in below[k]
    OBVIOUS
  <2> HIDE DEF D, below
  <2> QED BY <1>7, <1>8, <2>1 DEF RanksAll
<1> HIDE DEF below, rank, M, D, N
<1> DEFINE S == {n \in 0..N : \A k \in D : rank(k) < n => k \in F[n]}
<1>11. 0..N \subseteq S
  <2>1. 0 \in S
    BY <1>1, <1>10
  <2>2. ASSUME NEW n \in 1..N, n-1 \in S PROVE n \in S
    <3>1. n \in Nat /\ n-1 \in Nat /\ n \in 0..N
      BY <1>1
    <3>2. \A k \in D : rank(k) < n-1 => k \in F[n-1]
      BY <2>2
    <3>3. ASSUME NEW k \in D, rank(k) < n PROVE k \in F[n]
      <4>1. PICK i \in 1..Len(rs[k]) :
               /\ ExpansionCost(rs[k][i], key_cost) = key_cost[k]
               /\ \A j \in DOMAIN rs[k][i].keys :
                    rs[k][i].keys[j] \in D /\ rho[rs[k][i].keys[j]] < rho[k]
        BY <1>5
      <4>2. \A l \in D : rho[l] < rho[k] => rank(l) < n-1
        <5> TAKE l \in D
        <5>1. rho[l] < rho[k] => rank(l) < rank(k)
          BY <1>10
        <5>2. rank(l) \in Nat /\ rank(k) \in Nat
          BY <1>10
        <5> QED BY <3>1, <3>3, <5>1, <5>2
      <4>3. \A j \in DOMAIN rs[k][i].keys : rs[k][i].keys[j] \in F[n-1]
        BY <3>2, <4>1, <4>2
      <4>4. k \in Keys /\ i \in DOMAIN rs[k]
        BY <1>1
      <4>5. k \in Reached(F[n-1])
        BY <4>1, <4>3, <4>4 DEF Reached, D
      <4> QED BY <1>9, <4>5
    <3> QED BY <3>1, <3>3
  <2> HIDE DEF S
  <2> QED BY <1>1, <2>1, <2>2, NatClosed
<1>12. D \subseteq F[N]
  <2>1. N \in S
    <3> HIDE DEF S
    <3> QED BY <1>1, <1>11
  <2>2. \A k \in D : rank(k) < N
    BY <1>1, <1>7, <1>10
  <2> QED BY <2>1, <2>2
<1>13. F[N] \subseteq D
  <2>1. CASE N = 0
    BY <1>9, <2>1
  <2>2. CASE N # 0
    <3>1. N \in 1..N
      BY <1>1, <2>2
    <3> QED BY <1>9, <3>1 DEF Reached, D
  <2> QED BY <2>1, <2>2
<1> QED BY <1>1, <1>2, <1>9, <1>12, <1>13 DEF D

THEOREM ShortestCosts == BuildSpec => []CostsAreLeast
BY BuildKeepsCostInv, CostsLeast, PTL

-----------------------------------------------------------------------------
(* Rule numbers, and the parser's start.  The start symbol is the key of   *)
(* the first rule of the file; a parser can start from it if no rule uses  *)
(* it.                                                                     *)
StartUnused ==
  /\ Len(Calls[file]) > 0
  /\ \A n \in DOMAIN Calls[file] : \A j \in DOMAIN Calls[file][n].rule.keys :
       Calls[file][n].rule.keys[j] # Calls[file][1].key

(* The grammar holds rules of the file, and its first key is the start.    *)
OfTheFile(r) == \E n \in 1..Len(Calls[file]) : r = Calls[file][n].rule

Origin ==
  pc \in {"read", "cost", "order"} =>
    /\ called > 0 => Len(grammar.keys) > 0 /\ grammar.keys[1] = Calls[file][1].key
    /\ \A k \in Keys : \A i \in 1..Len(grammar.rules[k]) : OfTheFile(grammar.rules[k][i])

Parsing ==
  /\ pc \in {"read", "cost"} => parser = NoParser
  /\ pc \in {"complete", "ready", "failed"} => parser # NoParser
  /\ parser # NoParser =>
       /\ DOMAIN parser.rules = Keys /\ parser.entry \subseteq Keys
       /\ StartUnused => grammar.keys[1] \in parser.entry

LEMMA RuleOrigin ==
  ASSUME CostInv, Origin, Rule
  PROVE  Origin'
<1> DEFINE k == Calls[file][called+1].key
           r == Calls[file][called+1].rule
           ks == grammar.keys
           rs == grammar.rules
           R == FileRules(file)
<1>1. /\ pc = "read" /\ called < Len(Calls[file]) /\ grammar' = WithRule(grammar, k, r)
      /\ called' = called + 1 /\ UNCHANGED <<file, pc>>
  BY DEF Rule
<1>2. /\ Reading /\ called \in Nat /\ called+1 \in 1..Len(Calls[file])
      /\ Len(Calls[file]) \in Nat
  <2>1. Reading
    BY DEF CostInv
  <2>2. file \in Grammars /\ called \in 0..Len(Calls[file])
    BY <2>1 DEF Reading
  <2>3. Len(Calls[file]) \in Nat
    BY <2>2, FileTyping
  <2> QED BY <1>1, <2>1, <2>2, <2>3
<1>3. r \in R
  BY <1>2, FileTyping DEF Reading
<1>4. /\ ks \in Seq(Keys) /\ Len(ks) \in Nat /\ rs \in [Keys -> Seq(R)]
      /\ \A c \in Keys : rs[c] \in Seq(R)
  BY <1>2, GrammarTyping
<1>5. grammar \in [keys : Seq(Keys), rules : [Keys -> Seq(R)]]
  BY <1>2 DEF Reading
<1>6. OfTheFile(r)
  BY <1>2 DEF OfTheFile
<1>7. /\ called > 0 => Len(ks) > 0 /\ ks[1] = Calls[file][1].key
      /\ \A x \in Keys : \A i \in 1..Len(rs[x]) : OfTheFile(rs[x][i])
  BY <1>1 DEF Origin
<1>8. called = 0 => k = Calls[file][1].key /\ Keys = {}
  <2> SUFFICES ASSUME called = 0 PROVE k = Calls[file][1].key /\ Keys = {}
    OBVIOUS
  <2>1. called+1 = 1
    OBVIOUS
  <2>2. Keys = {Calls[file][n].key : n \in 1..called}
    BY <1>2 DEF Reading
  <2> QED BY <2>1, <2>2
<1> HIDE DEF k, r, R
<1>9. \A x : OfTheFile(x)' <=> OfTheFile(x)
  BY <1>1 DEF OfTheFile
<1>10. CASE k \in Keys
  <2>1. grammar' = [grammar EXCEPT !.rules[k] = Append(@, r)]
    BY <1>1, <1>10 DEF WithRule, Keys
  <2>2. grammar'.keys = ks /\ grammar'.rules = [rs EXCEPT ![k] = Append(rs[k], r)]
    BY <1>5, <2>1
  <2>3. Keys' = Keys
    BY <1>4, <2>2 DEF Keys
  <2>4. called > 0
    BY <1>2, <1>8, <1>10
  <2>5. ASSUME NEW x \in Keys, NEW i \in 1..Len(grammar'.rules[x])
        PROVE  OfTheFile(grammar'.rules[x][i])
    <3>1. CASE x # k
      <4>1. grammar'.rules[x] = rs[x]
        BY <1>4, <2>2, <3>1
      <4> QED BY <1>7, <4>1
    <3>2. CASE x = k
      <4>1. grammar'.rules[x] = Append(rs[k], r)
        BY <1>4, <1>10, <2>2, <3>2
      <4> DEFINE s == rs[k]
                 u == grammar'.rules[x]
      <4>2. s \in Seq(R) /\ \A j \in 1..Len(s) : OfTheFile(s[j])
        BY <1>4, <1>7, <1>10
      <4>3. u = Append(s, r) /\ i \in 1..Len(u)
        BY <2>5, <4>1
      <4> HIDE DEF s, u
      <4>4. Len(u) = Len(s)+1 /\ u[Len(s)+1] = r /\ (\A j \in 1..Len(s) : u[j] = s[j])
            /\ Len(s) \in Nat
        BY <1>3, <4>2, <4>3
      <4>5. i = Len(s)+1 \/ i \in 1..Len(s)
        BY <4>3, <4>4
      <4>6. OfTheFile(u[i])
        BY <1>6, <4>2, <4>4, <4>5
      <4> QED BY <4>6 DEF u
    <3> QED BY <3>1, <3>2
  <2>6. \A x \in Keys' : \A i \in 1..Len(grammar'.rules[x]) : OfTheFile(grammar.rules[x][i])'
    <3> SUFFICES ASSUME NEW x \in Keys, NEW i \in 1..Len(grammar'.rules[x])
                 PROVE  OfTheFile(grammar.rules[x][i])'
      BY <2>3
    <3>1. OfTheFile(grammar'.rules[x][i])
      BY <2>5
    <3> QED BY <1>1, <3>1 DEF OfTheFile
  <2> QED BY <1>1, <1>7, <2>2, <2>4, <2>6 DEF Origin
<1>11. CASE k \notin Keys
  <2>1. grammar' = [keys |-> Append(ks, k), rules |-> Put(rs, k, <<r>>)]
    BY <1>1, <1>11 DEF WithRule, Keys
  <2>2. grammar'.keys = Append(ks, k) /\ grammar'.rules = Put(rs, k, <<r>>)
    BY <2>1
  <2>3. DOMAIN rs = Keys
    BY <1>4
  <2>4. /\ grammar'.rules[k] = <<r>> /\ \A x \in Keys : grammar'.rules[x] = rs[x]
        /\ Keys' = Keys \cup {k}
    BY <1>11, <2>2, <2>3 DEF Put, Keys
  <2>5. ASSUME NEW x \in Keys', NEW i \in 1..Len(grammar'.rules[x])
        PROVE  OfTheFile(grammar'.rules[x][i])
    <3>1. CASE x = k
      <4>1. Len(<<r>>) = 1 /\ <<r>>[1] = r
        OBVIOUS
      <4>2. Len(grammar'.rules[x]) = 1
        BY <2>4, <3>1, <4>1
      <4>3. i = 1
        <5> DEFINE N == Len(grammar'.rules[x])
        <5>1. N = 1 /\ i \in 1..N
          BY <4>2
        <5> HIDE DEF N
        <5> QED BY <5>1
      <4> QED BY <1>6, <2>4, <3>1, <4>1, <4>3
    <3>2. CASE x # k
      BY <1>7, <2>4, <2>5, <3>2
    <3> QED BY <3>1, <3>2
  <2>6. \A x \in Keys' : \A i \in 1..Len(grammar'.rules[x]) : OfTheFile(grammar.rules[x][i])'
    BY <1>1, <2>5 DEF OfTheFile
  <2>7. Len(grammar'.keys) > 0 /\ grammar'.keys[1] = Calls[file][1].key
    <3>1. /\ Len(Append(ks, k)) = Len(ks)+1 /\ Append(ks, k)[Len(ks)+1] = k
          /\ \A i \in 1..Len(ks) : Append(ks, k)[i] = ks[i]
      <4>1. ks \in Seq(Keys \cup {k})
        BY <1>4
      <4> HIDE DEF ks
      <4> QED BY <4>1
    <3>2. CASE called = 0
      <4>1. Len(ks) = 0
        <5> SUFFICES ASSUME Len(ks) # 0 PROVE FALSE
          OBVIOUS
        <5>1. 1 \in 1..Len(ks)
          BY <1>4
        <5>2. ks[1] \in Keys
          BY <1>2, <5>1, GrammarTyping
        <5> QED BY <1>8, <3>2, <5>2
      <4> QED BY <1>8, <2>2, <3>1, <3>2, <4>1
    <3>3. CASE called # 0
      <4>1. called > 0
        BY <1>2, <3>3
      <4>2. 1 \in 1..Len(ks)
        BY <1>4, <1>7, <4>1
      <4> QED BY <1>4, <1>7, <2>2, <3>1, <4>1, <4>2
    <3> QED BY <3>2, <3>3
  <2> QED BY <1>1, <2>6, <2>7 DEF Origin
<1> QED BY <1>10, <1>11

LEMMA NextOrigin ==
  ASSUME CostInv, Origin, [Build]_buildVars
  PROVE  Origin'
<1>1. CASE Rule
  BY <1>1, RuleOrigin
<1>2. CASE OrderRules
  BY <1>2 DEF OrderRules, Origin
<1>3. CASE ~ Rule /\ ~ OrderRules
  <2>1. UNCHANGED <<file, called, grammar>>
    BY <1>3 DEF Build, LoadGrammar, VisitRule, NextKey, EndPass, Translate, CompleteKey,
       CallSubnode, NextCheapRule, ReturnTrees, WriteSource, buildVars
  <2>2. pc' \in {"read", "cost", "order"} => pc \in {"read", "cost", "order"}
    <3>1. CASE EndPass
      BY <3>1 DEF EndPass
    <3> QED BY <1>3, <3>1 DEF Build, LoadGrammar, VisitRule, NextKey, Translate,
       CompleteKey, CallSubnode, NextCheapRule, ReturnTrees, WriteSource, buildVars
  <2>3. Keys' = Keys /\ \A x : OfTheFile(x)' <=> OfTheFile(x)
    BY <2>1 DEF Keys, OfTheFile
  <2>4. ASSUME NEW k \in Keys, NEW i \in 1..Len(grammar.rules[k]), OfTheFile(grammar.rules[k][i])
        PROVE  OfTheFile(grammar.rules[k][i])'
    BY <2>1, <2>4 DEF OfTheFile
  <2> QED BY <2>1, <2>2, <2>3, <2>4 DEF Origin
<1> QED BY <1>1, <1>2, <1>3

LEMMA StartIsEntry ==
  ASSUME CostInv, Origin, pc = "order", StartUnused
  PROVE  grammar.keys[1] \in EntryKeys
<1>1. Reading /\ Costing
  BY DEF CostInv
<1>2. /\ Len(Calls[file]) \in Nat /\ DOMAIN Calls[file] = 1..Len(Calls[file])
      /\ called = Len(Calls[file]) /\ called > 0
  <2>1. called = Len(Calls[file]) /\ file \in Grammars
    BY <1>1 DEF Reading
  <2> QED BY <2>1, FileTyping DEF StartUnused
<1>3. /\ Len(grammar.keys) > 0 /\ grammar.keys[1] = Calls[file][1].key
      /\ \A k \in Keys : \A i \in 1..Len(grammar.rules[k]) : OfTheFile(grammar.rules[k][i])
  BY <1>2 DEF Origin
<1>4. grammar.keys[1] \in Keys
  <2>1. 1 \in 1..Len(grammar.keys)
    BY <1>1, <1>3, GrammarTyping
  <2> QED BY <1>1, <2>1, GrammarTyping
<1>5. ASSUME NEW r, OfTheFile(r), NEW j \in DOMAIN r.keys PROVE r.keys[j] # grammar.keys[1]
  BY <1>2, <1>3, <1>5 DEF OfTheFile, StartUnused
<1>6. ASSUME NEW l \in Keys, NEW i \in DOMAIN OrderedRules(l)
      PROVE  OfTheFile(OrderedRules(l)[i])
  <2>1. EntriesOf(cost[l], l)
    BY <1>1 DEF Costing, NotedIn
  <2>2. /\ DOMAIN OrderedRules(l) = 1..Len(cost[l])
        /\ cost[l][i].id \in 1..Len(grammar.rules[l])
        /\ OrderedRules(l)[i] = grammar.rules[l][cost[l][i].id]
    <3>1. DOMAIN OrderedRules(l) = 1..Len(cost[l])
      BY <1>1, <2>1, RulesOfTyping DEF OrderedRules
    <3>2. i \in 1..Len(cost[l])
      BY <3>1
    <3> QED BY <1>1, <2>1, <3>1, <3>2, RulesOfTyping DEF OrderedRules
  <2> QED BY <1>3, <2>2
<1> QED BY <1>4, <1>5, <1>6 DEF EntryKeys

LEMMA NextParsing ==
  ASSUME CostInv, Origin, Parsing, [Build]_buildVars
  PROVE  Parsing'
<1>1. CASE Rule \/ LoadGrammar \/ VisitRule \/ NextKey \/ EndPass
  <2>1. /\ pc \in {"read", "cost"} /\ pc' \in {"read", "cost", "order"}
        /\ UNCHANGED parser
    <3>1. CASE EndPass
      BY <3>1 DEF EndPass, poolVars
    <3> QED BY <1>1, <3>1 DEF Rule, LoadGrammar, VisitRule, NextKey, poolVars
  <2> QED BY <2>1 DEF Parsing, NoParser
<1>2. CASE Translate
  <2>1. /\ pc = "order" /\ parser = NoParser /\ UNCHANGED <<file, grammar, pc, cost>>
        /\ parser' = [symbols |-> <<"entry">> \o grammar.keys,
                      rules |-> [k \in Keys |-> ParserRules(k)],
                      entry |-> EntryKeys]
    BY <1>2 DEF Translate, costVars
  <2>2. Keys' = Keys /\ StartUnused' = StartUnused
    BY <2>1 DEF Keys, StartUnused
  <2>3. EntryKeys \subseteq Keys
    BY DEF EntryKeys
  <2>4. StartUnused => grammar.keys[1] \in EntryKeys
    BY <2>1, StartIsEntry
  <2>5. DOMAIN parser'.rules = Keys /\ parser'.entry = EntryKeys
    BY <2>1
  <2> QED BY <2>1, <2>2, <2>3, <2>4, <2>5 DEF Parsing
<1>3. CASE OrderRules
  <2>1. /\ pc = "order" /\ parser # NoParser /\ UNCHANGED <<file, parser>>
        /\ \/ pc' = "failed" /\ UNCHANGED grammar
           \/ /\ pc' = "complete"
              /\ grammar' = [grammar EXCEPT !.rules = [k \in Keys |-> OrderedRules(k)]]
    BY <1>3 DEF OrderRules
  <2>2. StartUnused' = StartUnused
    BY <2>1 DEF StartUnused
  <2>3. CASE pc' = "failed" /\ UNCHANGED grammar
    BY <2>1, <2>2, <2>3 DEF Parsing, Keys
  <2>4. CASE pc' = "complete"
             /\ grammar' = [grammar EXCEPT !.rules = [k \in Keys |-> OrderedRules(k)]]
    <3> DEFINE new == [k \in Keys |-> OrderedRules(k)]
               K == Keys
    <3>1. grammar \in [keys : Seq(K), rules : [K -> Seq(FileRules(file))]]
      BY DEF CostInv, Reading
    <3>2. grammar' = [grammar EXCEPT !.rules = new] /\ DOMAIN new = K
      BY <2>1, <2>4
    <3> HIDE DEF new, K
    <3>3. grammar'.rules = new /\ grammar'.keys = grammar.keys
      BY <3>1, <3>2
    <3>4. Keys' = Keys
      BY <3>2, <3>3 DEF Keys, K
    <3> QED BY <2>1, <2>2, <2>4, <3>3, <3>4 DEF Parsing
  <2> QED BY <2>1, <2>3, <2>4
<1>4. CASE CompleteKey \/ CallSubnode \/ NextCheapRule \/ ReturnTrees \/ WriteSource
           \/ UNCHANGED buildVars
  <2>1. /\ UNCHANGED <<file, grammar, parser>>
        /\ pc' = pc \/ (pc = "complete" /\ pc' = "ready")
    BY <1>4 DEF CompleteKey, CallSubnode, NextCheapRule, ReturnTrees, WriteSource,
                buildVars, poolVars
  <2>2. StartUnused' = StartUnused /\ Keys' = Keys
    BY <2>1 DEF StartUnused, Keys
  <2> QED BY <2>1, <2>2 DEF Parsing
<1> QED BY <1>1, <1>2, <1>3, <1>4 DEF Build

LEMMA InitParsing == BuildInit => Origin /\ Parsing
<1> SUFFICES ASSUME BuildInit PROVE Origin /\ Parsing
  OBVIOUS
<1>1. Keys = {}
  BY DEF BuildInit, Keys, NoEntry
<1> QED BY <1>1 DEF BuildInit, Origin, Parsing

(* The number of a rule in the cheap grammar, from which the pools are     *)
(* made, is its number in the ordered grammar, from which gen_node_* and   *)
(* the parser grammar are made: the sort of compute_cost puts the cheapest *)
(* rules of every key before the others.                                   *)
THEOREM PoolRuleIds == BuildSpec => []PoolRulesComeFirst
<1>1. CostInv /\ Tabling => PoolRulesComeFirst
  <2> SUFFICES ASSUME CostInv, Tabling,
                      NEW k \in DOMAIN c_grammar, NEW i \in DOMAIN c_grammar[k]
               PROVE  i \in DOMAIN grammar.rules[k] /\ c_grammar[k][i] = grammar.rules[k][i]
    BY DEF PoolRulesComeFirst
  <2>1. pc \in {"complete", "ready"}
    BY DEF Tabling, NoEntry
  <2>2. Cheap(k)
    BY <2>1 DEF Tabling
  <2>3. DOMAIN c_grammar[k] = 1..Len(c_grammar[k])
    <3> DEFINE R == FileRules(file)
    <3>1. c_grammar[k] \in Seq(R)
      BY <2>2 DEF Cheap
    <3> HIDE DEF R
    <3> QED BY <3>1
  <2> QED BY <2>2, <2>3 DEF Cheap
<1>2. CostInv /\ Tabling /\ [Build]_buildVars => (CostInv /\ Tabling)'
  BY NextCostInv, NextTabling
<1>3. BuildInit => CostInv /\ Tabling
  BY InitCostInv, InitTabling
<1> QED BY <1>1, <1>2, <1>3, PTL DEF BuildSpec

(* When no rule uses the key the generator starts from, that key is among  *)
(* those the parser can start from: what gen_init__ makes can be parsed to *)
(* a tree of its own kind.                                                 *)
THEOREM StartCanBeParsed ==
  BuildSpec =>
    [](StartUnused => (pc \in {"complete", "ready"} => grammar.keys[1] \in parser.entry))
<1> DEFINE Inv == CostInv /\ Origin /\ Parsing
           Parsed == StartUnused =>
                       (pc \in {"complete", "ready"} => grammar.keys[1] \in parser.entry)
<1>1. BuildInit => Inv
  BY InitCostInv, InitParsing
<1>2. Inv /\ [Build]_buildVars => Inv'
  BY NextCostInv, NextOrigin, NextParsing
<1>3. Inv => Parsed
  BY DEF Parsing
<1> QED BY <1>1, <1>2, <1>3, PTL DEF BuildSpec

-----------------------------------------------------------------------------
(* The pools.  A call of get_trees_for_key has combined the trees of the   *)
(* subnodes before sub: all its texts have the same length.                *)
SubText(r, n) == r.text + PartialSums(Weights(r, key_cost))[n]

StackCall == [key : Keys, rule : Nat, sub : Nat,
              text : (SUBSET Nat) \ {{}}, all : SUBSET Nat]

RuleAt(c) == c_grammar[c.key][c.rule]

Frame(c) ==
  /\ c.key \in Keys /\ c.rule \in 1..Len(c_grammar[c.key])
  /\ c.sub \in 1..(Len(RuleAt(c).keys) + 1)
  /\ c.text = {SubText(RuleAt(c), c.sub - 1)}
  /\ c.all \subseteq {key_cost[c.key]}

Chained(c, d) ==
  c.sub <= Len(RuleAt(c).keys) /\ d.key = RuleAt(c).keys[c.sub]

StackOK(s) ==
  /\ s \in Seq(StackCall)
  /\ \A i \in 1..Len(s) : Frame(s[i])
  /\ \A i \in 1..(Len(s) - 1) : Chained(s[i], s[i+1])

Pooling ==
  /\ StackOK(stack)
  /\ pc # "complete" => stack = <<>>
  /\ pc \notin {"complete", "ready"} => pool = NoEntry
  /\ pool = [k \in DOMAIN pool |-> pool[k]] /\ DOMAIN pool \subseteq Keys
  /\ \A k \in DOMAIN pool : pool[k] = {key_cost[k]}

(* The text of rule r grows, key by key, to length c.                      *)
GrowsTo(r, c) ==
  /\ r.text \in Nat /\ Len(r.keys) \in Nat
  /\ c \in Nat
  /\ SubText(r, 0) = r.text
  /\ SubText(r, Len(r.keys)) = c
  /\ \A n \in 0..Len(r.keys) : SubText(r, n) \in Nat
  /\ \A n \in 1..Len(r.keys) :
       /\ r.keys[n] \in Keys /\ key_cost[r.keys[n]] \in Nat
       /\ SubText(r, n) = SubText(r, n-1) + key_cost[r.keys[n]]

LEMMA CheapRuleFacts ==
  ASSUME CostInv, Tabling, pc = "complete", NEW k \in Keys,
         NEW i \in 1..Len(c_grammar[k]), NEW r, r = c_grammar[k][i]
  PROVE  GrowsTo(r, key_cost[k])
<1> DEFINE w == Weights(r, key_cost)
           P == PartialSums(w)
           N == Len(r.keys)
           R == FileRules(file)
<1>1. /\ c_grammar[k] \in Seq(R) /\ HasCost(r, key_cost)
      /\ ExpansionCost(r, key_cost) = key_cost[k]
  BY DEF Tabling, Cheap
<1>2. r \in R
  <2> DEFINE s == c_grammar[k]
  <2>1. s \in Seq(R) /\ i \in 1..Len(s) /\ r = s[i]
    BY <1>1
  <2> HIDE DEF s, R
  <2> QED BY <2>1, ElementOfSeq
<1>3. IsTable(key_cost) /\ Keys = FileKeys(file)
  BY GrammarTyping DEF CostInv, Costing
<1>4. /\ w \in Seq(Nat) /\ Len(w) = N
      /\ \A j \in 1..N : w[j] = key_cost[r.keys[j]] /\ key_cost[r.keys[j]] \in Nat
      /\ ExpansionCost(r, key_cost) = r.text + SumSeq(w)
      /\ ExpansionCost(r, key_cost) \in Nat
  BY <1>1, <1>2, <1>3, WeightsNat
<1>5. r.text \in Nat /\ N \in Nat /\ \A j \in 1..N : r.keys[j] \in Keys
  BY <1>2, <1>3, RuleTyping
<1>6. w \in Seq(Int)
  <2> HIDE DEF w
  <2> QED BY <1>4
<1>7. /\ P[0] = 0 /\ (\A n \in 1..N : P[n] = P[n-1] + w[n])
      /\ \A n \in 0..N : P[n] \in Nat
  <2> HIDE DEF w
  <2>1. Len(w) = N
    BY <1>4
  <2>2. P[0] = 0 /\ \A n \in 1..Len(w) : P[n] = P[n-1] + w[n]
    BY <1>6, PartialSumsStep
  <2>3. \A n \in 0..Len(w) : P[n] \in Nat
    BY <1>4, PartialSumsNat
  <2> QED BY <2>1, <2>2, <2>3
<1>8. \A n : SubText(r, n) = r.text + P[n]
  BY DEF SubText
<1>9. SumSeq(w) = P[N]
  BY <1>4 DEF SumSeq
<1> HIDE DEF w, P, N
<1>10. ASSUME NEW n \in 0..N PROVE SubText(r, n) \in Nat
  <2>1. PICK u, v : u = r.text /\ v = P[n]
    OBVIOUS
  <2>2. u \in Nat /\ v \in Nat
    BY <1>5, <1>7, <2>1
  <2>3. u + v \in Nat
    BY <2>2
  <2> QED BY <1>8, <2>1, <2>3
<1>11. \A n \in 1..N : SubText(r, n) = SubText(r, n-1) + key_cost[r.keys[n]]
  <2> TAKE n \in 1..N
  <2>1. n-1 \in 0..N /\ n \in 0..N
    BY <1>5
  <2>2. P[n] = P[n-1] + w[n] /\ w[n] = key_cost[r.keys[n]] /\ w[n] \in Nat
    BY <1>4, <1>7
  <2>3. P[n-1] \in Nat
    BY <1>7, <2>1
  <2> QED BY <1>5, <1>8, <2>2, <2>3
<1>12. SubText(r, 0) = r.text
  BY <1>5, <1>7, <1>8
<1>13. r.text \in Nat /\ N \in Nat
  BY <1>5
<1>14. key_cost[k] \in Nat /\ SubText(r, N) = key_cost[k]
  <2>1. ExpansionCost(r, key_cost) = r.text + P[N]
    BY <1>4, <1>9
  <2>2. SubText(r, N) = ExpansionCost(r, key_cost)
    BY <1>8, <2>1
  <2> QED BY <1>1, <1>4, <2>2
<1>15. \A n \in 1..N : r.keys[n] \in Keys /\ key_cost[r.keys[n]] \in Nat
  BY <1>4, <1>5
<1> QED BY <1>10, <1>11, <1>12, <1>13, <1>14, <1>15 DEF N, GrowsTo

LEMMA CallOK ==
  ASSUME CostInv, Tabling, pc = "complete", NEW k \in Keys, NEW n \in 1..Len(c_grammar[k]),
         NEW all, all \subseteq {key_cost[k]}, NEW c,
         c = [key |-> k, rule |-> n, sub |-> 1, text |-> {c_grammar[k][n].text}, all |-> all]
  PROVE  c \in StackCall /\ Frame(c)
<1> DEFINE r == c_grammar[k][n]
<1>1. /\ r.text \in Nat /\ Len(r.keys) \in Nat /\ SubText(r, 0) = r.text
      /\ key_cost[k] \in Nat
  <2>1. GrowsTo(r, key_cost[k])
    BY CheapRuleFacts
  <2> HIDE DEF r
  <2> QED BY <2>1 DEF GrowsTo
<1>2. c_grammar[k] \in Seq(FileRules(file))
  BY DEF Tabling, Cheap
<1>3. n \in Nat
  OBVIOUS
<1>4. RuleAt(c) = r
  BY DEF RuleAt
<1> HIDE DEF r
<1>5. {r.text} \in (SUBSET Nat) \ {{}} /\ all \in SUBSET Nat
  BY <1>1
<1>6. c.text = {SubText(RuleAt(c), c.sub - 1)}
  <2>1. c.text = {r.text} /\ c.sub - 1 = 0
    BY DEF r
  <2> QED BY <1>1, <1>4, <2>1
<1>7. c.sub \in 1..(Len(RuleAt(c).keys) + 1)
  BY <1>1, <1>4
<1>8. c \in StackCall
  BY <1>3, <1>5 DEF StackCall, r
<1> QED BY <1>6, <1>7, <1>8 DEF Frame

-----------------------------------------------------------------------------
(* Stacks of calls.                                                        *)
LEMMA FrontOfSeq ==
  ASSUME NEW V, NEW s \in Seq(V), Len(s) > 0
  PROVE  /\ SubSeq(s, 1, Len(s) - 1) \in Seq(V)
         /\ Len(SubSeq(s, 1, Len(s) - 1)) = Len(s) - 1
         /\ \A i \in 1..(Len(s) - 1) : SubSeq(s, 1, Len(s) - 1)[i] = s[i]
<1> DEFINE N == Len(s) - 1
           u == SubSeq(s, 1, N)
<1>1. N \in Nat /\ 1 \in Int /\ N \in Int /\ \A i \in 1..N : i \in 1..Len(s)
  OBVIOUS
<1>2. \A i \in 1..N : s[i] \in V
  BY <1>1, ElementOfSeq
<1> HIDE DEF N
<1>3. /\ u \in Seq(V) /\ Len(u) = IF 1 <= N THEN N-1+1 ELSE 0
      /\ \A i \in 1..(N-1+1) : u[i] = s[1+i-1]
  BY <1>1, <1>2, SubSeqProperties
<1>4. N-1+1 = N /\ (\A i \in 1..N : 1+i-1 = i) /\ (~ (1 <= N) => N = 0)
  BY <1>1
<1> HIDE DEF u
<1>5. Len(u) = N /\ \A i \in 1..N : u[i] = s[i]
  BY <1>3, <1>4
<1> QED BY <1>3, <1>5 DEF u, N

LEMMA PushOK ==
  ASSUME NEW s, StackOK(s), NEW c \in StackCall, Frame(c),
         Len(s) > 0 => Chained(s[Len(s)], c)
  PROVE  StackOK(Append(s, c))
<1> DEFINE C == StackCall
           u == Append(s, c)
           N == Len(s)
<1>1. /\ s \in Seq(C) /\ (\A i \in 1..N : Frame(s[i]))
      /\ \A i \in 1..(N-1) : Chained(s[i], s[i+1])
  BY DEF StackOK
<1> HIDE DEF C
<1>2. c \in C
  BY DEF C
<1>3. /\ u \in Seq(C) /\ Len(u) = N+1 /\ N \in Nat /\ u[N+1] = c
      /\ \A i \in 1..N : u[i] = s[i]
  BY <1>1, <1>2
<1> HIDE DEF u, N
<1>4. \A i \in 1..(N+1) : i = N+1 \/ i \in 1..N
  BY <1>3
<1>5. \A i \in 1..(N+1) : Frame(u[i])
  BY <1>1, <1>3, <1>4
<1>6. ASSUME NEW i \in 1..N PROVE Chained(u[i], u[i+1])
  <2>1. CASE i = N
    <3>1. N > 0
      BY <1>3, <1>6
    <3> QED BY <1>3, <2>1, <3>1 DEF N
  <2>2. CASE i # N
    <3>1. i \in 1..(N-1) /\ i+1 \in 1..N
      BY <1>3, <2>2
    <3> QED BY <1>1, <1>3, <3>1
  <2> QED BY <2>1, <2>2
<1>7. Len(u)-1 = N
  BY <1>3
<1> QED BY <1>3, <1>5, <1>6, <1>7 DEF StackOK, C, u

LEMMA FrontOK ==
  ASSUME NEW s, StackOK(s), Len(s) > 0
  PROVE  StackOK(SubSeq(s, 1, Len(s) - 1))
<1> DEFINE C == StackCall
           u == SubSeq(s, 1, Len(s) - 1)
           N == Len(s)
<1>1. /\ s \in Seq(C) /\ (\A i \in 1..N : Frame(s[i]))
      /\ \A i \in 1..(N-1) : Chained(s[i], s[i+1])
  BY DEF StackOK
<1> HIDE DEF C
<1>2. u \in Seq(C) /\ Len(u) = N-1 /\ \A i \in 1..(N-1) : u[i] = s[i]
  BY <1>1, FrontOfSeq
<1>3. N \in Nat
  BY <1>1
<1> HIDE DEF u, N
<1>4. \A i \in 1..(N-1) : i \in 1..N
  BY <1>3
<1>5. \A i \in 1..((N-1)-1) : i \in 1..(N-1) /\ i+1 \in 1..(N-1)
  BY <1>3
<1>6. \A i \in 1..Len(u) : Frame(u[i])
  BY <1>1, <1>2, <1>4
<1>7. \A i \in 1..(Len(u)-1) : Chained(u[i], u[i+1])
  BY <1>1, <1>2, <1>5
<1> QED BY <1>2, <1>6, <1>7 DEF StackOK, C, u, N

LEMMA ReplaceOK ==
  ASSUME NEW s, StackOK(s), Len(s) > 0, NEW c \in StackCall, Frame(c),
         c.key = s[Len(s)].key
  PROVE  StackOK([s EXCEPT ![Len(s)] = c])
<1> DEFINE C == StackCall
           N == Len(s)
           u == [s EXCEPT ![N] = c]
<1>1. /\ s \in Seq(C) /\ (\A i \in 1..N : Frame(s[i]))
      /\ \A i \in 1..(N-1) : Chained(s[i], s[i+1])
  BY DEF StackOK
<1> HIDE DEF C
<1>2. c \in C /\ N \in Nat /\ N \in 1..N
  BY <1>1 DEF C
<1>3. /\ u \in Seq(C) /\ Len(u) = N /\ u[N] = c
      /\ \A i \in 1..N : i # N => u[i] = s[i]
  BY <1>1, <1>2
<1> HIDE DEF u
<1>4. \A i \in 1..N : Frame(u[i])
  BY <1>1, <1>3
<1>5. ASSUME NEW i \in 1..(N-1) PROVE Chained(u[i], u[i+1])
  <2>1. i \in 1..N /\ i # N /\ i+1 \in 1..N
    BY <1>2
  <2>2. u[i] = s[i] /\ u[i+1].key = s[i+1].key
    BY <1>3, <2>1
  <2> QED BY <1>1, <2>2 DEF Chained
<1> QED BY <1>3, <1>4, <1>5 DEF StackOK, C, u, N

-----------------------------------------------------------------------------
(* The steps of completion_trees.                                          *)
LEMMA TopFacts ==
  ASSUME Pooling, stack # <<>>
  PROVE  /\ pc = "complete"
         /\ Len(stack) \in Nat /\ Len(stack) > 0 /\ stack \in Seq(StackCall)
         /\ Top \in StackCall /\ Frame(Top) /\ TopRule = RuleAt(Top)
<1> DEFINE C == StackCall
<1>1. stack \in Seq(C) /\ \A i \in 1..Len(stack) : Frame(stack[i])
  BY DEF Pooling, StackOK
<1> HIDE DEF C
<1>2. Len(stack) \in Nat /\ Len(stack) > 0 /\ Len(stack) \in 1..Len(stack)
  BY <1>1
<1>3. stack[Len(stack)] \in C
  BY <1>1, <1>2, ElementOfSeq
<1> QED BY <1>1, <1>2, <1>3 DEF Pooling, Top, TopRule, RuleAt, C

LEMMA CompleteKeyStack ==
  ASSUME CostInv, Tabling, Pooling, CompleteKey
  PROVE  StackOK(stack')
<1> DEFINE k == grammar.keys[Cardinality(DOMAIN pool) + 1]
<1>1. /\ pc = "complete" /\ Cardinality(DOMAIN pool) < Len(grammar.keys)
      /\ stack' = <<Call(k)>>
  BY DEF CompleteKey
<1>2. k \in Keys
  <2>1. Reading /\ KeysListed
    BY DEF CostInv
  <2>2. IsFiniteSet(Keys)
    BY <2>1, KeysCount
  <2>3. DOMAIN pool \subseteq Keys
    BY DEF Pooling
  <2>4. IsFiniteSet(DOMAIN pool)
    BY <2>2, <2>3, FS_Subset
  <2>5. Cardinality(DOMAIN pool) \in Nat
    BY <2>4, FS_CardinalityType
  <2>6. Len(grammar.keys) \in Nat
    BY <2>1, GrammarTyping
  <2>7. Cardinality(DOMAIN pool) + 1 \in 1..Len(grammar.keys)
    BY <1>1, <2>5, <2>6
  <2> QED BY <2>1, <2>7, GrammarTyping
<1> HIDE DEF k
<1>3. c_grammar[k] \in Seq(FileRules(file)) /\ Len(c_grammar[k]) > 0
  BY <1>1, <1>2 DEF Tabling, Cheap
<1>4. 1 \in 1..Len(c_grammar[k])
  <2>1. Len(c_grammar[k]) \in Nat
    <3> DEFINE R == FileRules(file)
    <3>1. c_grammar[k] \in Seq(R)
      BY <1>3
    <3> HIDE DEF R
    <3> QED BY <3>1
  <2> QED BY <1>3, <2>1
<1>5. Call(k) \in StackCall /\ Frame(Call(k))
  <2>1. {} \subseteq {key_cost[k]}
    OBVIOUS
  <2>2. Call(k) = [key |-> k, rule |-> 1, sub |-> 1,
                   text |-> {c_grammar[k][1].text}, all |-> {}]
    BY DEF Call
  <2> QED BY <1>1, <1>2, <1>4, <2>1, <2>2, CallOK
<1>6. <<Call(k)>> \in Seq(StackCall) /\ Len(<<Call(k)>>) = 1 /\ <<Call(k)>>[1] = Call(k)
  <2> DEFINE C == StackCall
             c == Call(k)
  <2>1. c \in C
    BY <1>5
  <2> HIDE DEF C, c
  <2>2. <<c>> \in Seq(C) /\ Len(<<c>>) = 1 /\ <<c>>[1] = c
    BY <2>1
  <2> QED BY <2>2 DEF C, c
<1>7. \A i \in 1..1 : i = 1
  OBVIOUS
<1> DEFINE s == <<Call(k)>>
<1>8. \A i \in 1..Len(s) : Frame(s[i])
  BY <1>5, <1>6, <1>7
<1>9. \A i \in 1..(Len(s)-1) : FALSE
  BY <1>6
<1> HIDE DEF s
<1>10. s \in Seq(StackCall) /\ stack' = s
  BY <1>1, <1>6 DEF s
<1> QED BY <1>8, <1>9, <1>10 DEF StackOK

LEMMA CallSubnodeStack ==
  ASSUME CostInv, Tabling, Pooling, CallSubnode
  PROVE  StackOK(stack')
<1> DEFINE r == RuleAt(Top)
           k == r.keys[Top.sub]
<1>1. stack # <<>> /\ Top.sub <= Len(r.keys) /\ stack' = Append(stack, Call(k))
  <2>1. stack # <<>>
    BY DEF CallSubnode
  <2>2. TopRule = r
    BY <2>1, TopFacts
  <2> QED BY <2>1, <2>2 DEF CallSubnode, MoreSubnodes
<1>2. /\ pc = "complete" /\ Frame(Top) /\ StackOK(stack) /\ Len(stack) > 0
  BY <1>1, TopFacts DEF Pooling
<1>3. Top.key \in Keys /\ Top.rule \in 1..Len(c_grammar[Top.key])
      /\ Top.sub \in 1..(Len(r.keys)+1) /\ r = c_grammar[Top.key][Top.rule]
  BY <1>2 DEF Frame, RuleAt
<1> HIDE DEF r
<1>4. Len(r.keys) \in Nat /\ \A n \in 1..Len(r.keys) : r.keys[n] \in Keys
  <2>1. GrowsTo(r, key_cost[Top.key])
    BY <1>2, <1>3, CheapRuleFacts
  <2> QED BY <2>1 DEF GrowsTo
<1>5. Top.sub \in 1..Len(r.keys)
  <2>1. PICK a, b : a = Top.sub /\ b = Len(r.keys)
    OBVIOUS
  <2>2. a \in 1..(b+1) /\ a <= b /\ b \in Nat
    BY <1>1, <1>3, <1>4, <2>1, Zenon
  <2>3. a \in 1..b
    BY <2>2
  <2> QED BY <2>1, <2>3
<1>6. k \in Keys
  BY <1>4, <1>5
<1> HIDE DEF k
<1>7. c_grammar[k] \in Seq(FileRules(file)) /\ Len(c_grammar[k]) > 0
  BY <1>2, <1>6 DEF Tabling, Cheap
<1>8. 1 \in 1..Len(c_grammar[k])
  <2>1. Len(c_grammar[k]) \in Nat
    <3> DEFINE R == FileRules(file)
    <3>1. c_grammar[k] \in Seq(R)
      BY <1>7
    <3> HIDE DEF R
    <3> QED BY <3>1
  <2> QED BY <1>7, <2>1
<1>9. Call(k) \in StackCall /\ Frame(Call(k))
  <2>1. {} \subseteq {key_cost[k]}
    OBVIOUS
  <2>2. Call(k) = [key |-> k, rule |-> 1, sub |-> 1,
                   text |-> {c_grammar[k][1].text}, all |-> {}]
    BY DEF Call
  <2> QED BY <1>2, <1>6, <1>8, <2>1, <2>2, CallOK
<1>10. Call(k).key = k
  BY DEF Call
<1>11. Chained(stack[Len(stack)], Call(k))
  BY <1>1, <1>10 DEF Chained, Top, r, k
<1>12. StackOK(Append(stack, Call(k)))
  <2> DEFINE c == Call(k)
  <2>1. c \in StackCall /\ Frame(c) /\ Chained(stack[Len(stack)], c)
    BY <1>9, <1>11
  <2> HIDE DEF c
  <2>2. StackOK(Append(stack, c))
    BY <1>2, <2>1, PushOK
  <2> QED BY <2>2 DEF c
<1> QED BY <1>1, <1>12

(* All trees of a rule have the length that key_cost says.                 *)
LEMMA TextDone ==
  ASSUME CostInv, Tabling, Pooling, stack # <<>>, ~ MoreSubnodes
  PROVE  Top.text = {key_cost[Top.key]}
<1> DEFINE r == RuleAt(Top)
<1>1. pc = "complete" /\ Frame(Top) /\ TopRule = r
  BY TopFacts
<1>2. /\ Top.key \in Keys /\ Top.rule \in 1..Len(c_grammar[Top.key])
      /\ Top.sub \in 1..(Len(r.keys)+1) /\ Top.text = {SubText(r, Top.sub - 1)}
      /\ r = c_grammar[Top.key][Top.rule]
  BY <1>1 DEF Frame, RuleAt
<1>3. Top.sub > Len(r.keys) \/ ~ (Top.sub <= Len(r.keys))
  BY <1>1 DEF MoreSubnodes
<1> HIDE DEF r
<1>4. Len(r.keys) \in Nat /\ SubText(r, Len(r.keys)) = key_cost[Top.key]
  <2>1. GrowsTo(r, key_cost[Top.key])
    BY <1>1, <1>2, CheapRuleFacts
  <2> QED BY <2>1 DEF GrowsTo
<1>5. Top.sub - 1 = Len(r.keys)
  <2> DEFINE a == Top.sub
             N == Len(r.keys)
  <2>1. a \in 1..(N+1) /\ N \in Nat /\ (a > N \/ ~ (a <= N))
    BY <1>2, <1>3, <1>4
  <2> HIDE DEF a, N
  <2>2. a - 1 = N
    BY <2>1
  <2> QED BY <2>2 DEF a, N
<1> QED BY <1>2, <1>4, <1>5

(* The records of get_trees_for_key, written out.                          *)
CallOf(k, i, n, text, all) ==
  [key |-> k, rule |-> i, sub |-> n, text |-> text, all |-> all]

Written(c) == c = CallOf(c.key, c.rule, c.sub, c.text, c.all)

AtRule(c, j, m, u, v) == [c EXCEPT !.rule = j, !.sub = m, !.text = u, !.all = v]

AtSubnode(c, m, u) == [c EXCEPT !.sub = m, !.text = u]

LEMMA NextRuleCall ==
  ASSUME NEW c, NEW j, NEW m, NEW u, NEW v, Written(c)
  PROVE  AtRule(c, j, m, u, v) = CallOf(c.key, j, m, u, v)
<1>1. PICK c1 : c1 = [c EXCEPT !.rule = j]
  OBVIOUS
<1>2. c1 = [key |-> c.key, rule |-> j, sub |-> c.sub, text |-> c.text, all |-> c.all]
  BY <1>1 DEF Written, CallOf
<1>3. PICK c2 : c2 = [c1 EXCEPT !.sub = m]
  OBVIOUS
<1>4. c2 = [key |-> c.key, rule |-> j, sub |-> m, text |-> c.text, all |-> c.all]
  BY <1>2, <1>3
<1>5. PICK c3 : c3 = [c2 EXCEPT !.text = u]
  OBVIOUS
<1>6. c3 = [key |-> c.key, rule |-> j, sub |-> m, text |-> u, all |-> c.all]
  BY <1>4, <1>5
<1>7. [c3 EXCEPT !.all = v] = [key |-> c.key, rule |-> j, sub |-> m, text |-> u, all |-> v]
  BY <1>6
<1> QED BY <1>1, <1>3, <1>5, <1>7, Zenon DEF AtRule, CallOf

LEMMA SubtreeCall ==
  ASSUME NEW c, NEW m, NEW u, Written(c)
  PROVE  AtSubnode(c, m, u) = CallOf(c.key, c.rule, m, u, c.all)
<1>1. PICK c1 : c1 = [c EXCEPT !.sub = m]
  OBVIOUS
<1>2. c1 = [key |-> c.key, rule |-> c.rule, sub |-> m, text |-> c.text, all |-> c.all]
  BY <1>1 DEF Written, CallOf
<1>3. [c1 EXCEPT !.text = u] =
        [key |-> c.key, rule |-> c.rule, sub |-> m, text |-> u, all |-> c.all]
  BY <1>2
<1> QED BY <1>1, <1>3, Zenon DEF AtSubnode, CallOf

Combined(text, lengths) == {a + b : a \in text, b \in lengths}

LEMMA WithSubtreeFolds ==
  ASSUME NEW c, NEW lengths
  PROVE  WithSubtree(c, lengths) =
           AtSubnode(c, c.sub + 1, Combined(c.text, lengths))
BY DEF WithSubtree, AtSubnode, Combined

LEMMA OneSum ==
  ASSUME NEW u, NEW v
  PROVE  Combined({u}, {v}) = {u + v}
BY DEF Combined

LEMMA NextCheapRuleStack ==
  ASSUME CostInv, Tabling, Pooling, NextCheapRule
  PROVE  StackOK(stack')
<1> DEFINE k == Top.key
           n == Top.rule + 1
           all == Top.all \cup Top.text
           c == [key |-> k, rule |-> n, sub |-> 1, text |-> {c_grammar[k][n].text},
                 all |-> all]
<1>1. /\ stack # <<>> /\ ~ MoreSubnodes /\ Top.rule < Len(c_grammar[k])
      /\ stack' = Append(Below, [Top EXCEPT !.rule = @ + 1, !.sub = 1,
                            !.text = {c_grammar[Top.key][Top.rule + 1].text},
                            !.all = @ \cup Top.text])
  BY DEF NextCheapRule
<1>2. /\ pc = "complete" /\ Len(stack) \in Nat /\ Len(stack) > 0 /\ stack \in Seq(StackCall)
      /\ Top \in StackCall /\ Frame(Top) /\ StackOK(stack)
  BY <1>1, TopFacts DEF Pooling
<1>3. stack' = Append(Below, c)
  <2>1. Top = [key |-> Top.key, rule |-> Top.rule, sub |-> Top.sub, text |-> Top.text,
               all |-> Top.all]
    BY <1>2 DEF StackCall
  <2>2. [Top EXCEPT !.rule = @ + 1, !.sub = 1,
                    !.text = {c_grammar[Top.key][Top.rule + 1].text},
                    !.all = @ \cup Top.text] = c
    <3>1. PICK w : w = Top
      OBVIOUS
    <3>2. PICK u : u = {c_grammar[Top.key][Top.rule + 1].text}
      OBVIOUS
    <3>3. PICK v : v = Top.all \cup Top.text
      OBVIOUS
    <3>4. PICK j : j = Top.rule + 1
      OBVIOUS
    <3>5. Written(w)
      BY <2>1, <3>1 DEF Written, CallOf
    <3>6. AtRule(w, j, 1, u, v) = CallOf(w.key, j, 1, u, v)
      BY <3>5, NextRuleCall
    <3>7. [Top EXCEPT !.rule = j, !.sub = 1, !.text = u, !.all = v] = c
      BY <3>1, <3>2, <3>3, <3>4, <3>6, Zenon DEF AtRule, CallOf
    <3> QED BY <3>2, <3>3, <3>4, <3>7, Zenon
  <2> QED BY <1>1, <2>2
<1>4. k \in Keys /\ Top.rule \in 1..Len(c_grammar[k]) /\ Top.all \subseteq {key_cost[k]}
  BY <1>2 DEF Frame
<1>5. Top.text = {key_cost[k]}
  BY <1>1, TextDone
<1>6. all \subseteq {key_cost[k]}
  BY <1>4, <1>5
<1>7. n \in 1..Len(c_grammar[k])
  <2>1. c_grammar[k] \in Seq(FileRules(file))
    BY <1>2, <1>4 DEF Tabling, Cheap
  <2>2. Len(c_grammar[k]) \in Nat
    <3> DEFINE R == FileRules(file)
    <3>1. c_grammar[k] \in Seq(R)
      BY <2>1
    <3> HIDE DEF R
    <3> QED BY <3>1
  <2> QED BY <1>1, <1>4, <2>2
<1>8. c.key = k
  OBVIOUS
<1>9. c \in StackCall /\ Frame(c)
  <2> HIDE DEF k, n, all
  <2> QED BY <1>2, <1>4, <1>6, <1>7, CallOK
<1> HIDE DEF c, n, all, k
<1>10. StackOK(Below)
  BY <1>2, FrontOK DEF Below
<1>11. Len(Below) > 0 => Chained(Below[Len(Below)], c)
  <2> SUFFICES ASSUME Len(Below) > 0 PROVE Chained(Below[Len(Below)], c)
    OBVIOUS
  <2>1. /\ Len(Below) = Len(stack) - 1
        /\ \A i \in 1..(Len(stack)-1) : Below[i] = stack[i]
    BY <1>2, FrontOfSeq DEF Below
  <2> DEFINE i == Len(stack) - 1
  <2>2. i \in 1..(Len(stack)-1) /\ i+1 = Len(stack)
    BY <1>2, <2>1
  <2>3. Chained(stack[i], stack[i+1])
    BY <1>2, <2>2 DEF StackOK
  <2>4. stack[i+1].key = c.key
    BY <1>8, <2>2 DEF Top, k
  <2>5. Chained(stack[i], c)
    BY <2>3, <2>4 DEF Chained
  <2> QED BY <2>1, <2>2, <2>5
<1>12. StackOK(Append(Below, c))
  <2> DEFINE b == Below
  <2>1. StackOK(b) /\ (Len(b) > 0 => Chained(b[Len(b)], c))
    BY <1>10, <1>11
  <2> HIDE DEF b
  <2>2. StackOK(Append(b, c))
    BY <1>9, <2>1, PushOK
  <2> QED BY <2>2 DEF b
<1> QED BY <1>3, <1>12

LEMMA EmptyStack == StackOK(<<>>)
BY DEF StackOK

LEMMA ReturnTreesStack ==
  ASSUME CostInv, Tabling, Pooling, ReturnTrees
  PROVE  /\ StackOK(stack')
         /\ Top.key \in Keys
         /\ \/ UNCHANGED pool
            \/ pool' = Put(pool, Top.key, {key_cost[Top.key]})
<1> DEFINE k == Top.key
           lengths == Top.all \cup Top.text
<1>1. /\ stack # <<>> /\ ~ MoreSubnodes
      /\ \/ /\ Len(stack) = 1 /\ stack' = <<>> /\ pool' = Put(pool, k, lengths)
         \/ /\ Len(stack) # 1 /\ UNCHANGED pool
            /\ stack' = [Below EXCEPT ![Len(Below)] = WithSubtree(@, lengths)]
  BY DEF ReturnTrees
<1>2. /\ pc = "complete" /\ Len(stack) \in Nat /\ Len(stack) > 0 /\ stack \in Seq(StackCall)
      /\ Frame(Top) /\ StackOK(stack)
  BY <1>1, TopFacts DEF Pooling
<1>3. k \in Keys /\ Top.all \subseteq {key_cost[k]}
  BY <1>2 DEF Frame
<1>4. lengths = {key_cost[k]}
  <2>1. Top.text = {key_cost[k]}
    BY <1>1, TextDone
  <2> QED BY <1>3, <2>1
<1> HIDE DEF lengths
<1>5. CASE Len(stack) = 1
  BY <1>1, <1>3, <1>4, <1>5, EmptyStack
<1>6. CASE Len(stack) # 1
  <2> DEFINE b == Below
             m == Len(b)
             c == b[m]
             r == RuleAt(c)
             d == WithSubtree(c, lengths)
  <2>1. /\ b \in Seq(StackCall) /\ m = Len(stack) - 1 /\ StackOK(b)
        /\ \A i \in 1..(Len(stack)-1) : b[i] = stack[i]
    BY <1>2, FrontOfSeq, FrontOK DEF Below
  <2>2. m \in Nat /\ m > 0 /\ m \in 1..(Len(stack)-1) /\ m+1 = Len(stack)
        /\ m \in 1..Len(stack)
    BY <1>2, <1>6, <2>1
  <2>3. c = stack[m] /\ stack[m+1] = Top
    BY <2>1, <2>2 DEF Top
  <2>4. Frame(c) /\ Chained(c, Top)
    <3>1. Frame(stack[m]) /\ Chained(stack[m], stack[m+1])
      BY <1>2, <2>2 DEF StackOK
    <3> QED BY <2>3, <3>1
  <2>5. c \in StackCall
    <3> DEFINE C == StackCall
    <3>1. b \in Seq(C) /\ m \in 1..Len(b)
      BY <2>1, <2>2
    <3> HIDE DEF C, b
    <3>2. b[m] \in C
      BY <3>1, ElementOfSeq
    <3> QED BY <3>2 DEF C
  <2>6. stack' = [b EXCEPT ![m] = d]
    BY <1>1, <1>6
  <2> HIDE DEF b, m
  <2>7. /\ c.key \in Keys /\ c.rule \in 1..Len(c_grammar[c.key])
        /\ c.sub \in 1..(Len(r.keys)+1) /\ c.text = {SubText(r, c.sub - 1)}
        /\ c.all \subseteq {key_cost[c.key]}
        /\ r = c_grammar[c.key][c.rule]
        /\ c.sub <= Len(r.keys) /\ k = r.keys[c.sub]
    BY <2>4 DEF Frame, Chained, RuleAt
  <2>8. c = [key |-> c.key, rule |-> c.rule, sub |-> c.sub, text |-> c.text, all |-> c.all]
        /\ c.sub \in Nat /\ c.rule \in Nat /\ c.all \in SUBSET Nat
    BY <2>5 DEF StackCall
  <2> HIDE DEF c, r
  <2>9. /\ Len(r.keys) \in Nat
        /\ \A n \in 0..Len(r.keys) : SubText(r, n) \in Nat
        /\ \A n \in 1..Len(r.keys) : SubText(r, n) = SubText(r, n-1) + key_cost[r.keys[n]]
    <3>1. PICK x : x = c.key
      OBVIOUS
    <3>2. PICK i : i = c.rule
      OBVIOUS
    <3>3. pc = "complete" /\ x \in Keys /\ i \in 1..Len(c_grammar[x]) /\ r = c_grammar[x][i]
      BY <1>2, <2>7, <3>1, <3>2
    <3>4. GrowsTo(r, key_cost[x])
      BY <3>3, CheapRuleFacts
    <3>5. /\ Len(r.keys) \in Nat
          /\ \A n \in 0..Len(r.keys) : SubText(r, n) \in Nat
      BY <3>4, Zenon DEF GrowsTo
    <3>6. \A n \in 1..Len(r.keys) :
            SubText(r, n) = SubText(r, n-1) + key_cost[r.keys[n]]
      BY <3>4, Zenon DEF GrowsTo
    <3> QED BY <3>5, <3>6
  <2>10. c.sub \in 1..Len(r.keys)
    <3>1. PICK j, z : j = c.sub /\ z = Len(r.keys)
      OBVIOUS
    <3>2. j \in 1..(z+1) /\ j <= z /\ z \in Nat
      BY <2>7, <2>9, <3>1, Zenon
    <3>3. j \in 1..z
      BY <3>2
    <3> QED BY <3>1, <3>3
  <2>11. SubText(r, c.sub) = SubText(r, c.sub - 1) + key_cost[k] /\ SubText(r, c.sub) \in Nat
    <3>1. c.sub \in 0..Len(r.keys)
      BY <2>9, <2>10
    <3> QED BY <2>7, <2>9, <2>10, <3>1
  <2> DEFINE t == Combined(c.text, lengths)
  <2>12. t = {SubText(r, c.sub)}
    <3>1. PICK u : u = SubText(r, c.sub - 1)
      OBVIOUS
    <3>2. PICK v : v = key_cost[k]
      OBVIOUS
    <3>3. c.text = {u} /\ lengths = {v}
      BY <1>4, <2>7, <3>1, <3>2
    <3>4. t = {u + v}
      BY <3>3, OneSum
    <3> QED BY <2>11, <3>1, <3>2, <3>4
  <2>13. d = [key |-> c.key, rule |-> c.rule, sub |-> c.sub + 1, text |-> t, all |-> c.all]
    <3>1. Written(c)
      BY <2>8 DEF Written, CallOf
    <3>2. d = AtSubnode(c, c.sub + 1, t)
      BY WithSubtreeFolds
    <3>3. PICK u : u = t
      OBVIOUS
    <3>4. PICK n : n = c.sub + 1
      OBVIOUS
    <3>5. AtSubnode(c, n, u) = CallOf(c.key, c.rule, n, u, c.all)
      BY <3>1, SubtreeCall
    <3> HIDE DEF t, d
    <3>6. d = CallOf(c.key, c.rule, n, u, c.all)
      BY <3>2, <3>3, <3>4, <3>5
    <3> QED BY <3>3, <3>4, <3>6, Zenon DEF CallOf
  <2> HIDE DEF t, d
  <2>14. t \in (SUBSET Nat) \ {{}}
    BY <2>11, <2>12
  <2>15. d \in StackCall
    BY <2>7, <2>8, <2>13, <2>14 DEF StackCall
  <2>16. RuleAt(d) = r /\ d.key = c.key
    BY <2>7, <2>13 DEF RuleAt
  <2>17. Frame(d)
    <3>1. d.sub - 1 = c.sub /\ d.sub \in 1..(Len(r.keys)+1)
      BY <2>9, <2>10, <2>13
    <3>2. d.text = {SubText(RuleAt(d), d.sub - 1)}
      BY <2>12, <2>13, <2>16, <3>1
    <3> QED BY <2>7, <2>13, <2>16, <3>1, <3>2 DEF Frame
  <2>18. StackOK([b EXCEPT ![m] = d])
    <3>1. Len(b) > 0 /\ d.key = b[Len(b)].key /\ m = Len(b)
      BY <2>2, <2>16 DEF c, m
    <3>2. StackOK([b EXCEPT ![Len(b)] = d])
      BY <2>1, <2>15, <2>17, <3>1, ReplaceOK
    <3> QED BY <3>1, <3>2
  <2> QED BY <1>1, <1>3, <1>6, <2>6, <2>18
<1> QED BY <1>5, <1>6

-----------------------------------------------------------------------------
(* Every step keeps Pooling.                                               *)
LEMMA StackStays ==
  ASSUME NEW s, StackOK(s), UNCHANGED <<grammar, key_cost, c_grammar>>
  PROVE  StackOK(s)'
<1>1. Keys' = Keys
  BY DEF Keys
<1>2. (StackCall)' = StackCall
  BY <1>1 DEF StackCall
<1>3. ASSUME NEW c, Frame(c) PROVE Frame(c)'
  <2>1. /\ c.key \in Keys /\ c.rule \in 1..Len(c_grammar[c.key])
        /\ c.sub \in 1..(Len(RuleAt(c).keys) + 1)
        /\ c.text = {SubText(RuleAt(c), c.sub - 1)}
        /\ c.all \subseteq {key_cost[c.key]}
    BY <1>3 DEF Frame
  <2>2. RuleAt(c)' = RuleAt(c)
    BY DEF RuleAt
  <2>3. SubText(RuleAt(c), c.sub - 1)' = SubText(RuleAt(c), c.sub - 1)
    BY <2>2 DEF SubText, Weights
  <2> QED BY <1>1, <2>1, <2>2, <2>3 DEF Frame
<1>4. ASSUME NEW c, NEW d, Chained(c, d) PROVE Chained(c, d)'
  BY <1>4 DEF Chained, RuleAt
<1>5. s \in Seq(StackCall)'
  BY <1>2 DEF StackOK
<1>6. \A i \in 1..Len(s) : Frame(s[i])'
  BY <1>3 DEF StackOK
<1>7. \A i \in 1..(Len(s) - 1) : Chained(s[i], s[i+1])'
  BY <1>4 DEF StackOK
<1> QED BY <1>5, <1>6, <1>7 DEF StackOK

LEMMA NoStackNoPool ==
  ASSUME stack' = <<>>, pool' = NoEntry
  PROVE  Pooling'
<1>1. StackOK(<<>>)'
  BY DEF StackOK
<1>2. StackOK(stack)'
  <2>1. PICK s : s = <<>>
    OBVIOUS
  <2>2. StackOK(s)' /\ stack' = s
    BY <1>1, <2>1
  <2> QED BY <2>2
<1>3. DOMAIN NoEntry = {} /\ NoEntry = [k \in DOMAIN NoEntry |-> NoEntry[k]]
  BY DEF NoEntry
<1> QED BY <1>2, <1>3 DEF Pooling

LEMMA BeforePooling ==
  ASSUME Pooling,
         \/ Rule \/ LoadGrammar \/ VisitRule \/ NextKey \/ EndPass
         \/ Translate \/ OrderRules
  PROVE  Pooling'
<1>1. pc \in {"read", "cost", "order"} /\ UNCHANGED <<stack, pool>>
  BY DEF Rule, LoadGrammar, VisitRule, NextKey, EndPass, Translate, OrderRules, poolVars
<1>2. stack = <<>> /\ pool = NoEntry
  BY <1>1 DEF Pooling
<1> QED BY <1>1, <1>2, NoStackNoPool

LEMMA PoolStays ==
  ASSUME Pooling, UNCHANGED <<grammar, key_cost, pool>>
  PROVE  /\ (pool = [k \in DOMAIN pool |-> pool[k]] /\ DOMAIN pool \subseteq Keys)'
         /\ (\A k \in DOMAIN pool : pool[k] = {key_cost[k]})'
BY DEF Pooling, Keys

LEMMA PoolGrows ==
  ASSUME Pooling, UNCHANGED <<grammar, key_cost>>, NEW k \in Keys,
         pool' = Put(pool, k, {key_cost[k]})
  PROVE  /\ (pool = [l \in DOMAIN pool |-> pool[l]] /\ DOMAIN pool \subseteq Keys)'
         /\ (\A l \in DOMAIN pool : pool[l] = {key_cost[l]})'
<1>1. pool' = [l \in DOMAIN pool \cup {k} |-> IF l = k THEN {key_cost[k]} ELSE pool[l]]
  BY DEF Put
<1>2. DOMAIN pool' = DOMAIN pool \cup {k}
  BY <1>1
<1>3. Keys' = Keys
  BY DEF Keys
<1>4. pool' = [l \in DOMAIN pool' |-> pool'[l]]
  BY <1>1
<1>5. DOMAIN pool' \subseteq Keys'
  BY <1>2, <1>3 DEF Pooling
<1>6. ASSUME NEW l \in DOMAIN pool' PROVE pool'[l] = {key_cost'[l]}
  <2>1. CASE l = k
    BY <1>1, <2>1
  <2>2. CASE l # k
    BY <1>1, <1>2, <2>2 DEF Pooling
  <2> QED BY <2>1, <2>2
<1> QED BY <1>4, <1>5, <1>6

LEMMA CompletePooling ==
  ASSUME CostInv, Tabling, Pooling,
         \/ CompleteKey \/ CallSubnode \/ NextCheapRule \/ ReturnTrees
  PROVE  Pooling'
<1>1. pc = "complete" /\ UNCHANGED <<grammar, pc, key_cost, c_grammar>>
  <2>1. CASE CompleteKey
    BY <2>1 DEF CompleteKey, costVars
  <2>2. CASE CallSubnode \/ NextCheapRule \/ ReturnTrees
    <3>1. stack # <<>> /\ UNCHANGED <<grammar, pc, key_cost, c_grammar>>
      BY <2>2 DEF CallSubnode, NextCheapRule, ReturnTrees, costVars
    <3> QED BY <3>1, TopFacts
  <2> QED BY <2>1, <2>2
<1>2. StackOK(stack')
  BY CompleteKeyStack, CallSubnodeStack, NextCheapRuleStack, ReturnTreesStack
<1>3. StackOK(stack)'
  <2>1. PICK s : s = stack'
    OBVIOUS
  <2>2. StackOK(s)
    BY <1>2, <2>1
  <2>3. StackOK(s)'
    BY <1>1, <2>2, StackStays
  <2> QED BY <2>1, <2>3
<1>4. /\ (pool = [k \in DOMAIN pool |-> pool[k]] /\ DOMAIN pool \subseteq Keys)'
      /\ (\A k \in DOMAIN pool : pool[k] = {key_cost[k]})'
  <2>1. CASE UNCHANGED pool
    BY <1>1, <2>1, PoolStays
  <2>2. CASE ReturnTrees /\ pool' # pool
    <3>1. Top.key \in Keys /\ pool' = Put(pool, Top.key, {key_cost[Top.key]})
      BY <2>2, ReturnTreesStack
    <3>2. PICK k : k = Top.key
      OBVIOUS
    <3>3. k \in Keys /\ pool' = Put(pool, k, {key_cost[k]})
      BY <3>1, <3>2
    <3> QED BY <1>1, <3>3, PoolGrows
  <2> QED BY <2>1, <2>2 DEF CompleteKey, CallSubnode, NextCheapRule
<1> QED BY <1>1, <1>3, <1>4 DEF Pooling

LEMMA WriteSourcePooling ==
  ASSUME Pooling, WriteSource \/ UNCHANGED buildVars
  PROVE  Pooling'
<1>1. /\ UNCHANGED <<grammar, key_cost, c_grammar, stack, pool>>
      /\ \/ pc = "complete" /\ pc' = "ready" /\ stack = <<>>
         \/ UNCHANGED pc
  BY DEF WriteSource, buildVars, costVars, poolVars
<1>2. StackOK(stack)'
  <2>1. PICK s : s = stack
    OBVIOUS
  <2>2. StackOK(s)
    BY <2>1 DEF Pooling
  <2>3. StackOK(s)'
    BY <1>1, <2>2, StackStays
  <2>4. stack' = s
    BY <1>1, <2>1
  <2> QED BY <2>3, <2>4
<1>3. /\ (pool = [k \in DOMAIN pool |-> pool[k]] /\ DOMAIN pool \subseteq Keys)'
      /\ (\A k \in DOMAIN pool : pool[k] = {key_cost[k]})'
  BY <1>1, PoolStays
<1> QED BY <1>1, <1>2, <1>3 DEF Pooling

LEMMA NextPooling == CostInv /\ Tabling /\ Pooling /\ [Build]_buildVars => Pooling'
BY BeforePooling, CompletePooling, WriteSourcePooling DEF Build

LEMMA InitPooling == BuildInit => Pooling
<1>1. StackOK(<<>>)
  BY EmptyStack
<1>2. DOMAIN NoEntry = {} /\ NoEntry = [k \in DOMAIN NoEntry |-> NoEntry[k]]
  BY DEF NoEntry
<1> QED BY <1>1, <1>2 DEF BuildInit, Pooling

(* completion_trees (f1_c_gen.py): whatever the grammar, the trees in the  *)
(* pool of a key all have the length key_cost says.                        *)
THEOREM ShortestPools == BuildSpec => []PoolTreesAreShortest
<1> DEFINE Inv == CostInv /\ Tabling /\ Pooling
<1>1. BuildInit => Inv
  BY InitCostInv, InitTabling, InitPooling
<1>2. Inv /\ [Build]_buildVars => Inv'
  BY NextCostInv, NextTabling, NextPooling
<1>3. Inv => PoolTreesAreShortest
  BY DEF Pooling, PoolTreesAreShortest
<1> QED BY <1>1, <1>2, <1>3, PTL DEF BuildSpec

-----------------------------------------------------------------------------
(* The types of the build's variables.                                     *)
LEMMA CostsTyped ==
  ASSUME Reading, Costing, NEW costs, costs = cost_ \/ costs = cost
  PROVE  costs \in [DOMAIN costs -> Seq(Entry)] /\ DOMAIN costs \in {{}, Keys}
<1>1. pc \in Phases
  BY DEF Reading
<1>2. costs = NoEntry \/ costs \in [Keys -> Seq(Entry)]
  BY <1>1 DEF Costing, NotedIn, Phases
<1>3. CASE costs = NoEntry
  BY <1>3 DEF NoEntry
<1>4. CASE costs \in [Keys -> Seq(Entry)]
  <2> DEFINE S == Seq(Entry)
  <2>1. costs \in [Keys -> S]
    BY <1>4
  <2> HIDE DEF S
  <2>2. DOMAIN costs = Keys
    BY <2>1
  <2> QED BY <2>1, <2>2 DEF S
<1> QED BY <1>2, <1>3, <1>4

LEMMA PoolTyped ==
  ASSUME Costing, Tabling, Pooling
  PROVE  pool \in [DOMAIN pool -> (SUBSET Nat) \ {{}}] /\ DOMAIN pool \subseteq Keys
<1>1. pool = [k \in DOMAIN pool |-> pool[k]] /\ DOMAIN pool \subseteq Keys
  BY DEF Pooling
<1>2. ASSUME NEW k \in DOMAIN pool PROVE pool[k] \in (SUBSET Nat) \ {{}}
  <2>1. k \in Keys /\ pool[k] = {key_cost[k]}
    BY <1>1 DEF Pooling
  <2>2. pc \in {"complete", "ready"}
    BY <1>2 DEF Pooling, NoEntry
  <2>3. k \in DOMAIN key_cost /\ IsTable(key_cost)
    BY <2>1, <2>2 DEF Tabling, Tabled, Costing
  <2>4. key_cost[k] \in Nat
    BY <2>3 DEF IsTable
  <2> QED BY <2>1, <2>4
<1> QED BY <1>1, <1>2

LEMMA BuildTyped ==
  ASSUME CostInv, Tabling, Parsing, Pooling
  PROVE  BuildTypeOK
<1>1. Reading /\ KeysListed /\ Costing
  BY DEF CostInv
<1>2. /\ file \in Grammars
      /\ called \in 0..Len(Calls[file])
      /\ grammar \in [keys : Seq(Keys), rules : [Keys -> Seq(FileRules(file))]]
      /\ pc \in {"read", "cost", "order", "complete", "ready", "failed"}
  BY <1>1 DEF Reading, Phases
<1>3. Cardinality(Keys) = Len(grammar.keys)
  BY <1>1, KeysCount
<1>4. at \in (Nat \ {0}) \X (Nat \ {0})
  BY <1>1 DEF Costing
<1>5. key_cost \in [DOMAIN key_cost -> Nat] /\ DOMAIN key_cost \subseteq Keys
  BY <1>1 DEF Costing, IsTable
<1>6. \A costs \in {cost_, cost} : /\ costs \in [DOMAIN costs -> Seq(Entry)]
                                   /\ DOMAIN costs \in {{}, Keys}
  BY <1>1, CostsTyped
<1>7. parser # NoParser => DOMAIN parser.rules = Keys /\ parser.entry \subseteq Keys
  BY DEF Parsing
<1>8. DOMAIN c_grammar \in {{}, Keys}
  BY DEF Tabling, NoEntry
<1>9. pool \in [DOMAIN pool -> (SUBSET Nat) \ {{}}] /\ DOMAIN pool \subseteq Keys
  BY <1>1, PoolTyped
<1>10. stack \in Seq([key : Keys, rule : Nat, sub : Nat,
                      text : (SUBSET Nat) \ {{}}, all : SUBSET Nat])
  BY DEF Pooling, StackOK, StackCall
<1> QED BY <1>2, <1>3, <1>4, <1>5, <1>6, <1>7, <1>8, <1>9, <1>10 DEF BuildTypeOK

(* All variables of the build have their types: the tables of costs have   *)
(* an entry for every key or none, each pool has a tree, and every call of *)
(* get_trees_for_key under way names a key and has a tree so far.          *)
THEOREM BuildTypes == BuildSpec => []BuildTypeOK
<1> DEFINE Inv == CostInv /\ Tabling /\ Origin /\ Parsing /\ Pooling
<1>1. BuildInit => Inv
  BY InitCostInv, InitTabling, InitParsing, InitPooling
<1>2. Inv /\ [Build]_buildVars => Inv'
  BY NextCostInv, NextTabling, NextOrigin, NextParsing, NextPooling
<1>3. Inv => BuildTypeOK
  BY BuildTyped
<1> QED BY <1>1, <1>2, <1>3, PTL DEF BuildSpec

-----------------------------------------------------------------------------
(* Calls inside each other: what is asked for becomes smaller.             *)
Falls(a, b, i, j) == a[j] < a[i] \/ (a[j] = a[i] /\ b[j] < b[i])

LEMMA FallsFurther ==
  ASSUME NEW N \in Nat, NEW a, NEW b, \A i \in 1..N : a[i] \in Int /\ b[i] \in Int,
         \A i \in 1..(N-1) : Falls(a, b, i, i+1),
         NEW i \in 1..N, NEW j \in (i+1)..N
  PROVE  Falls(a, b, i, j)
<1> DEFINE M == N-i
           S == {d \in 0..M : d = 0 \/ Falls(a, b, i, i+d)}
<1>1. M \in Nat /\ j-i \in 1..M /\ i+(j-i) = j
  OBVIOUS
<1> HIDE DEF M
<1>2. 0 \in S
  BY <1>1
<1>3. ASSUME NEW d \in 1..M, d-1 \in S PROVE d \in S
  <2>1. PICK m, n : m = i+(d-1) /\ n = i+d
    OBVIOUS
  <2>2. m \in 1..(N-1) /\ n = m+1 /\ m \in 1..N /\ n \in 1..N
    BY <2>1 DEF M
  <2>3. Falls(a, b, m, n)
    BY <2>2
  <2>4. m = i \/ Falls(a, b, i, m)
    BY <1>3, <2>1
  <2>5. /\ a[i] \in Int /\ b[i] \in Int /\ a[m] \in Int /\ b[m] \in Int
        /\ a[n] \in Int /\ b[n] \in Int
    BY <2>2
  <2>6. Falls(a, b, i, n)
    BY <2>3, <2>4, <2>5 DEF Falls
  <2> QED BY <1>1, <2>1, <2>6
<1>4. 0..M \subseteq S
  <2> HIDE DEF S
  <2> QED BY <1>1, <1>2, <1>3, NatClosed
<1>5. j-i \in S
  <2> HIDE DEF S
  <2> QED BY <1>1, <1>4
<1> QED BY <1>1, <1>5

(* No key leads back to itself by cheapest rules whose whole text is that  *)
(* of the key.                                                             *)
CheapestRulesEnd ==
  \E rank \in [Keys -> Nat] :
    \A k \in DOMAIN c_grammar : \A i \in DOMAIN c_grammar[k] :
      LET r == c_grammar[k][i]
      IN \A j \in DOMAIN r.keys :
           key_cost[r.keys[j]] = key_cost[k] => rank[r.keys[j]] < rank[k]

LEMMA CheapRuleAt ==
  ASSUME CostInv, Tabling, pc = "complete", NEW k \in Keys,
         NEW i \in 1..Len(c_grammar[k]), NEW r, r = c_grammar[k][i],
         NEW j \in 1..Len(r.keys)
  PROVE  /\ k \in DOMAIN c_grammar /\ i \in DOMAIN c_grammar[k] /\ j \in DOMAIN r.keys
         /\ key_cost[r.keys[j]] <= key_cost[k]
<1> DEFINE R == FileRules(file)
           s == c_grammar[k]
<1>1. /\ s \in Seq(R) /\ HasCost(r, key_cost) /\ DOMAIN c_grammar = Keys
      /\ ExpansionCost(r, key_cost) = key_cost[k]
  BY DEF Tabling, Cheap
<1>2. IsTable(key_cost)
  BY DEF CostInv, Costing
<1> HIDE DEF s, R
<1>3. i \in 1..Len(s) /\ r = s[i]
  BY DEF s
<1>4. r \in R /\ i \in DOMAIN s
  BY <1>1, <1>3, ElementOfSeq
<1>5. r \in FileRules(file)
  BY <1>4 DEF R
<1>6. key_cost[r.keys[j]] <= ExpansionCost(r, key_cost)
  BY <1>1, <1>2, <1>5, CostAboveKeys
<1>7. j \in DOMAIN r.keys
  BY <1>5, RuleTyping
<1> QED BY <1>1, <1>4, <1>6, <1>7 DEF s

(* completion_trees (f1_c_gen.py): get_trees_for_key never calls itself    *)
(* for a key under way, if no cheapest rules lead from a key back to it    *)
(* without any other text.  Rules that lead back with some text, or by     *)
(* cheaper keys, do no harm.                                               *)
THEOREM CompletionEnds == BuildSpec => [](CheapestRulesEnd => NoCallInsideItself)
<1> DEFINE Inv == CostInv /\ Tabling /\ Pooling
<1>1. BuildInit => Inv
  BY InitCostInv, InitTabling, InitPooling
<1>2. Inv /\ [Build]_buildVars => Inv'
  BY NextCostInv, NextTabling, NextPooling
<1>3. ASSUME CostInv, Tabling, Pooling, CheapestRulesEnd PROVE NoCallInsideItself
  <2>1. PICK rank \in [Keys -> Nat] :
          \A k \in DOMAIN c_grammar : \A i \in DOMAIN c_grammar[k] :
            \A j \in DOMAIN c_grammar[k][i].keys :
              key_cost[c_grammar[k][i].keys[j]] = key_cost[k] =>
                rank[c_grammar[k][i].keys[j]] < rank[k]
    BY <1>3 DEF CheapestRulesEnd
  <2>2. PICK s, N : s = stack /\ N = Len(s)
    OBVIOUS
  <2>3. /\ s \in Seq(StackCall) /\ \A i \in 1..N : Frame(s[i])
        /\ \A i \in 1..(N-1) : Chained(s[i], s[i+1])
        /\ s # <<>> => pc = "complete"
    BY <1>3, <2>2 DEF Pooling, StackOK
  <2>4. N \in Nat /\ DOMAIN s = 1..N
    <3> DEFINE C == StackCall
    <3>1. s \in Seq(C)
      BY <2>3
    <3> HIDE DEF C
    <3> QED BY <2>2, <3>1
  <2>5. CASE N = 0
    BY <2>2, <2>4, <2>5 DEF NoCallInsideItself
  <2>6. CASE N # 0
    <3>1. pc = "complete" /\ IsTable(key_cost)
      <4>1. s # <<>>
        BY <2>2, <2>6
      <4> QED BY <1>3, <2>3, <4>1 DEF CostInv, Costing
    <3> DEFINE a == [i \in 1..N |-> key_cost[s[i].key]]
               b == [i \in 1..N |-> rank[s[i].key]]
    <3>2. ASSUME NEW k \in Keys PROVE key_cost[k] \in Int /\ rank[k] \in Int
      BY <1>3, <2>1, <3>1 DEF Tabling, Tabled, IsTable
    <3>3. \A i \in 1..N : a[i] \in Int /\ b[i] \in Int
      BY <2>3, <3>2 DEF Frame
    <3>4. ASSUME NEW i \in 1..(N-1) PROVE Falls(a, b, i, i+1)
      <4>1. i \in 1..N /\ i+1 \in 1..N
        BY <2>4
      <4>2. PICK c, d : c = s[i] /\ d = s[i+1]
        OBVIOUS
      <4>3. PICK k, m, r, j : k = c.key /\ m = c.rule /\ r = c_grammar[k][m] /\ j = c.sub
        OBVIOUS
      <4>4. Frame(c) /\ Chained(c, d) /\ Frame(d)
        BY <2>3, <4>1, <4>2
      <4>5. /\ k \in Keys /\ m \in 1..Len(c_grammar[k]) /\ j \in 1..(Len(r.keys) + 1)
            /\ j <= Len(r.keys) /\ d.key = r.keys[j] /\ d.key \in Keys
        BY <4>3, <4>4 DEF Frame, Chained, RuleAt
      <4>6. GrowsTo(r, key_cost[k])
        BY <1>3, <3>1, <4>3, <4>5, CheapRuleFacts
      <4>7. j \in 1..Len(r.keys)
        BY <4>5, <4>6 DEF GrowsTo
      <4>8. /\ k \in DOMAIN c_grammar /\ m \in DOMAIN c_grammar[k] /\ j \in DOMAIN r.keys
            /\ key_cost[d.key] <= key_cost[k]
        BY <1>3, <3>1, <4>3, <4>5, <4>7, CheapRuleAt
      <4>9. key_cost[d.key] = key_cost[k] => rank[d.key] < rank[k]
        BY <2>1, <4>3, <4>5, <4>8
      <4>10. key_cost[d.key] < key_cost[k]
             \/ (key_cost[d.key] = key_cost[k] /\ rank[d.key] < rank[k])
        BY <3>2, <4>5, <4>8, <4>9
      <4>11. /\ a[i] = key_cost[k] /\ a[i+1] = key_cost[d.key]
             /\ b[i] = rank[k] /\ b[i+1] = rank[d.key]
        BY <4>1, <4>2, <4>3
      <4> HIDE DEF a, b
      <4> QED BY <4>10, <4>11 DEF Falls
    <3>5. ASSUME NEW i \in 1..N, NEW j \in 1..N, i < j PROVE s[i].key # s[j].key
      <4>1. j \in (i+1)..N
        BY <2>4, <3>5
      <4>2. Falls(a, b, i, j)
        <5> HIDE DEF a, b
        <5> QED BY <2>4, <3>3, <3>4, <4>1, FallsFurther
      <4>3. a[i] # a[j] \/ b[i] # b[j]
        <5> HIDE DEF a, b
        <5> QED BY <3>3, <3>5, <4>2 DEF Falls
      <4> QED BY <4>3
    <3>6. ASSUME NEW i \in 1..N, NEW j \in 1..N, i # j PROVE s[i].key # s[j].key
      <4>1. i < j \/ j < i
        BY <2>4, <3>6
      <4> QED BY <3>5, <4>1
    <3> QED BY <2>2, <2>4, <3>6 DEF NoCallInsideItself
  <2> QED BY <2>5, <2>6
<1>4. Inv => (CheapestRulesEnd => NoCallInsideItself)
  BY <1>3
<1> QED BY <1>1, <1>2, <1>4, PTL DEF BuildSpec
=============================================================================
