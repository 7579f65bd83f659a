----------------------------- MODULE FuzzingProof -----------------------------
(***************************************************************************)
(* The fuzzing protocol is correct for every grammar, every tree, every    *)
(* setting of the steps and every choice of the mutations: no call finds   *)
(* its mutation impossible, and the rules walk meets every replacement     *)
(* that rules_mutation_count counted, each once.                           *)
(***************************************************************************)
EXTENDS FuzzHistory, TreesProof

-----------------------------------------------------------------------------
(* The nodes of this module are a set of nodes; moving one to another      *)
(* depth leaves its rule.                                                  *)
LEMMA FuzzNodes ==
  /\ NodeSet(Node)
  /\ \A x \in Node : \A d : AtDepth(x, d).rule = x.rule
  /\ \A x \in Node : x.id \in Ids /\ x.rule \in DOMAIN Rules[x.id] \cup {NoRule}
<1>1. ASSUME NEW x \in Node, NEW d \in Nat
      PROVE  /\ AtDepth(x, d) \in Node
             /\ AtDepth(x, d).id = x.id /\ AtDepth(x, d).depth = d
             /\ AtDepth(x, d).rule = x.rule
  <2>1. x \in [id : Ids, rule : Nat \cup {NoRule}, depth : Nat]
        /\ x.rule \in DOMAIN Rules[x.id] \cup {NoRule}
    BY DEF Node
  <2> DEFINE y == AtDepth(x, d)
  <2>2. y \in [id : Ids, rule : Nat \cup {NoRule}, depth : Nat]
    BY <2>1 DEF AtDepth
  <2>3. y.id = x.id /\ y.depth = d /\ y.rule = x.rule
    BY <2>1 DEF AtDepth
  <2> HIDE DEF y
  <2>4. y \in Node
    BY <2>1, <2>2, <2>3 DEF Node
  <2> QED BY <2>3, <2>4 DEF y
<1>2. \A x \in Node : x.depth \in Nat /\ \A d : AtDepth(x, d).rule = x.rule
  BY DEF Node, AtDepth
<1>3. \A x \in Node : x.id \in Ids /\ x.rule \in DOMAIN Rules[x.id] \cup {NoRule}
  BY DEF Node
<1> QED BY <1>1, <1>2, <1>3 DEF NodeSet

LEMMA RuleNumbers ==
  ASSUME NEW id \in Ids
  PROVE  /\ NumRules(id) \in Nat /\ NumRules(id) > 0
         /\ DOMAIN Rules[id] = 0..(NumRules(id)-1)
         /\ NoRule \notin 0..(NumRules(id)-1)
<1>1. /\ IsFiniteSet(DOMAIN Rules[id]) /\ NumRules(id) > 0
      /\ DOMAIN Rules[id] = 0..(NumRules(id)-1) /\ NoRule \notin DOMAIN Rules[id]
  BY RulesAssumption
<1>2. NumRules(id) \in Nat
  BY <1>1, FS_CardinalityType DEF NumRules
<1> QED BY <1>1, <1>2

(* The length of a tree's text is a number.                                *)
LEMMA DataLenNat ==
  ASSUME NEW t \in Seq(Node)
  PROVE  DataLen(t) \in Nat
<1> DEFINE s == [i \in DOMAIN t |-> TextLen[t[i].id][t[i].rule]]
<1>1. Len(t) \in Nat /\ DOMAIN t = 1..Len(t)
  OBVIOUS
<1>2. \A i \in 1..Len(t) : t[i] \in Node
  BY ElementOfSeq
<1>3. \A i \in 1..Len(t) : s[i] \in Nat
  <2> TAKE i \in 1..Len(t)
  <2>1. t[i].id \in Ids /\ t[i].rule \in DOMAIN Rules[t[i].id] \cup {NoRule}
    BY <1>2, FuzzNodes
  <2>2. TextLen[t[i].id][t[i].rule] \in Nat
    BY <2>1, RulesAssumption
  <2> QED BY <1>1, <2>2
<1>4. s \in Seq(Nat)
  <2>1. s \in [1..Len(t) -> Nat]
    BY <1>1, <1>3
  <2> QED BY <1>1, <2>1
<1> HIDE DEF s
<1>5. SumSeq(s) \in Nat
  BY <1>4, SumSeqNat
<1> QED BY <1>5 DEF DataLen, s

-----------------------------------------------------------------------------
(* The rules that can replace a node's own.                                *)
LEMMA OtherRulesFacts ==
  ASSUME tree_cur \in Seq(Node), NEW i \in 1..Len(tree_cur)
  PROVE  /\ tree_cur[i].id \in Ids
         /\ \A r \in Nat : OtherRules(i, r) = {q \in OtherRules(i, 0) : q >= r}
         /\ OtherRules(i, 0) \subseteq DOMAIN Rules[tree_cur[i].id]
         /\ OtherRules(i, 0) \subseteq Nat /\ tree_cur[i].rule \notin OtherRules(i, 0)
         /\ IsFiniteSet(OtherRules(i, 0))
         /\ Cardinality(OtherRules(i, 0)) \in Nat
         /\ Cardinality(OtherRules(i, 0)) >= NumRules(tree_cur[i].id) - 1
         /\ tree_cur[i].rule # NoRule =>
              Cardinality(OtherRules(i, 0)) = NumRules(tree_cur[i].id) - 1
<1> DEFINE id == tree_cur[i].id
           own == tree_cur[i].rule
           all == 0..(NumRules(id)-1)
<1>1. id \in Ids /\ own \in DOMAIN Rules[id] \cup {NoRule}
  BY ElementOfSeq, FuzzNodes
<1>2. NumRules(id) \in Nat /\ NumRules(id) > 0 /\ DOMAIN Rules[id] = all /\ NoRule \notin all
  BY <1>1, RuleNumbers
<1>3. \A r \in Nat : OtherRules(i, r) = {q \in r..(NumRules(id)-1) : q # own}
  BY DEF OtherRules
<1> HIDE DEF id, own
<1>4. OtherRules(i, 0) = all \ {own}
  BY <1>3
<1>5. \A r \in Nat : OtherRules(i, r) = {q \in OtherRules(i, 0) : q >= r}
  BY <1>2, <1>3
<1>6. IsFiniteSet(all) /\ Cardinality(all) = NumRules(id)
  BY <1>2, FS_Interval
<1>7. /\ IsFiniteSet(all \ {own})
      /\ Cardinality(all \ {own}) = IF own \in all THEN NumRules(id) - 1 ELSE NumRules(id)
  BY <1>6, FS_RemoveElement
<1>8. own # NoRule => own \in all
  BY <1>1, <1>2
<1>9. /\ OtherRules(i, 0) \subseteq DOMAIN Rules[id]
      /\ OtherRules(i, 0) \subseteq Nat /\ own \notin OtherRules(i, 0)
  BY <1>2, <1>4
<1>10. /\ IsFiniteSet(OtherRules(i, 0)) /\ Cardinality(OtherRules(i, 0)) \in Nat
       /\ Cardinality(OtherRules(i, 0)) >= NumRules(id) - 1
       /\ own # NoRule => Cardinality(OtherRules(i, 0)) = NumRules(id) - 1
  <2> HIDE DEF all
  <2>1. CASE own \in all
    <3>1. IsFiniteSet(OtherRules(i, 0)) /\ Cardinality(OtherRules(i, 0)) = NumRules(id) - 1
      BY <1>4, <1>7, <2>1
    <3> QED BY <1>2, <3>1
  <2>2. CASE own \notin all
    <3>1. IsFiniteSet(OtherRules(i, 0)) /\ Cardinality(OtherRules(i, 0)) = NumRules(id)
      BY <1>4, <1>7, <2>2
    <3> QED BY <1>2, <1>8, <2>2, <3>1
  <2> QED BY <2>1, <2>2
<1> QED BY <1>1, <1>5, <1>9, <1>10 DEF id, own

(* Its rules become pairs with the node, as many as they are.              *)
LEMMA PairsWith ==
  ASSUME NEW i, NEW S, IsFiniteSet(S)
  PROVE  /\ IsFiniteSet({<<i, r>> : r \in S})
         /\ Cardinality({<<i, r>> : r \in S}) = Cardinality(S)
<1> DEFINE T == {<<i, r>> : r \in S}
           f == [r \in S |-> <<i, r>>]
<1>1. f \in Bijection(S, T)
  <2>1. f \in [S -> T]
    OBVIOUS
  <2>2. \A a, b \in S : f[a] = f[b] => a = b
    OBVIOUS
  <2>3. \A y \in T : \E x \in S : f[x] = y
    OBVIOUS
  <2> HIDE DEF f, T
  <2> QED BY <2>1, <2>2, <2>3, Fun_IsBij
<1>2. ExistsBijection(S, T)
  BY <1>1 DEF ExistsBijection
<1> HIDE DEF T
<1>3. IsFiniteSet(T) /\ Cardinality(T) = Cardinality(S)
  BY <1>2, FS_Bijection
<1> QED BY <1>3 DEF T

LEMMA ReplacementPairs ==
  ASSUME tree_cur \in Seq(Node)
  PROVE  /\ \A j \in 1..Len(tree_cur) : \A q \in OtherRules(j, 0) : <<j, q>> \in Replacements
         /\ \A p \in Replacements : \E j \in 1..Len(tree_cur) : \E q \in OtherRules(j, 0) : p = <<j, q>>
<1>1. DOMAIN tree_cur = 1..Len(tree_cur)
  OBVIOUS
<1> QED BY <1>1 DEF Replacements

(* There are at least as many replacements as rules_mutation_count counts, *)
(* and in a tree without parse errors no more.                             *)
LEMMA ReplacementCount ==
  ASSUME tree_cur \in Seq(Node)
  PROVE  /\ RulesMutationCount \in Nat
         /\ IsFiniteSet(Replacements)
         /\ Cardinality(Replacements) \in Nat
         /\ Cardinality(Replacements) >= RulesMutationCount
         /\ (\A i \in DOMAIN tree_cur : tree_cur[i].rule # NoRule)
              => Cardinality(Replacements) = RulesMutationCount
<1> DEFINE L == Len(tree_cur)
           w == [i \in DOMAIN tree_cur |-> NumRules(tree_cur[i].id) - 1]
           Of(i) == {<<i, r>> : r \in OtherRules(i, 0)}
           Upto(n) == UNION {Of(i) : i \in 1..n}
           Clean == \A i \in DOMAIN tree_cur : tree_cur[i].rule # NoRule
           S == {n \in 0..L : /\ IsFiniteSet(Upto(n)) /\ Cardinality(Upto(n)) \in Nat
                              /\ Cardinality(Upto(n)) >= PartialSums(w)[n]
                              /\ Clean => Cardinality(Upto(n)) = PartialSums(w)[n]}
<1>1. L \in Nat /\ DOMAIN tree_cur = 1..L
  OBVIOUS
<1>2. \A i \in 1..L : tree_cur[i].id \in Ids /\ w[i] = NumRules(tree_cur[i].id) - 1 /\ w[i] \in Nat
  <2> TAKE i \in 1..L
  <2>1. tree_cur[i].id \in Ids
    BY OtherRulesFacts
  <2>2. NumRules(tree_cur[i].id) - 1 \in Nat
    BY <2>1, RuleNumbers
  <2> QED BY <1>1, <2>1, <2>2
<1>3. w \in Seq(Nat) /\ w \in Seq(Int) /\ Len(w) = L
  <2>1. w \in [1..L -> Nat]
    BY <1>1, <1>2
  <2> HIDE DEF w
  <2> QED BY <1>1, <2>1
<1>4. RulesMutationCount = PartialSums(w)[L]
  BY <1>3 DEF RulesMutationCount, SumSeq
<1> HIDE DEF w
<1>5. /\ PartialSums(w)[0] = 0
      /\ \A n \in 0..L : PartialSums(w)[n] \in Nat
      /\ \A n \in 1..L : PartialSums(w)[n] = PartialSums(w)[n-1] + w[n]
  BY <1>3, PartialSumsStep, PartialSumsNat
<1>6. 0 \in S
  <2>1. Upto(0) = {}
    BY <1>1
  <2> HIDE DEF Upto
  <2>2. IsFiniteSet(Upto(0)) /\ Cardinality(Upto(0)) = 0 /\ 0 \in 0..L
    <3>1. 0 \in 0..L
      BY <1>1
    <3> QED BY <2>1, <3>1, FS_EmptySet
  <2> HIDE DEF Clean
  <2> QED BY <1>5, <2>2
<1>7. ASSUME NEW n \in 1..L, n-1 \in S PROVE n \in S
  <2>1. /\ IsFiniteSet(Of(n)) /\ Cardinality(Of(n)) = Cardinality(OtherRules(n, 0))
        /\ Cardinality(Of(n)) \in Nat
        /\ Cardinality(Of(n)) >= w[n]
        /\ Clean => Cardinality(Of(n)) = w[n]
    <3>1. IsFiniteSet(Of(n)) /\ Cardinality(Of(n)) = Cardinality(OtherRules(n, 0))
      <4>1. IsFiniteSet(OtherRules(n, 0))
        BY OtherRulesFacts
      <4> QED BY <4>1, PairsWith
    <3> HIDE DEF Of
    <3> QED BY <1>1, <1>2, <3>1, OtherRulesFacts
  <2>2. Upto(n) = Upto(n-1) \cup Of(n)
    <3>1. \A i : i \in 1..n <=> i \in 1..(n-1) \/ i = n
      OBVIOUS
    <3> HIDE DEF Of
    <3> QED BY <3>1
  <2>3. Upto(n-1) \cap Of(n) = {}
    <3>1. \A i \in 1..(n-1) : i # n
      OBVIOUS
    <3> QED BY <3>1
  <2> HIDE DEF Upto, Of
  <2>4. IsFiniteSet(Upto(n-1)) /\ Cardinality(Upto(n-1)) \in Nat
    BY <1>7
  <2>5. /\ IsFiniteSet(Upto(n))
        /\ Cardinality(Upto(n)) = Cardinality(Upto(n-1)) + Cardinality(Of(n))
    <3>1. IsFiniteSet(Upto(n)) /\ Cardinality(Upto(n)) =
            Cardinality(Upto(n-1)) + Cardinality(Of(n)) - Cardinality({})
      BY <2>1, <2>2, <2>3, <2>4, FS_Union
    <3> QED BY <2>1, <2>4, <3>1, FS_EmptySet
  <2>6. PartialSums(w)[n] = PartialSums(w)[n-1] + w[n] /\ n \in 0..L /\ n-1 \in 0..L
    BY <1>1, <1>5
  <2>7. /\ Cardinality(Upto(n-1)) >= PartialSums(w)[n-1] /\ PartialSums(w)[n-1] \in Nat
        /\ Clean => Cardinality(Upto(n-1)) = PartialSums(w)[n-1]
    BY <1>5, <1>7, <2>6
  <2> HIDE DEF Clean
  <2>8. Cardinality(Upto(n)) \in Nat /\ Cardinality(Upto(n)) >= PartialSums(w)[n]
    BY <1>2, <2>1, <2>4, <2>5, <2>6, <2>7
  <2>9. Clean => Cardinality(Upto(n)) = PartialSums(w)[n]
    BY <2>1, <2>5, <2>6, <2>7
  <2> QED BY <2>5, <2>6, <2>8, <2>9
<1>8. L \in S
  <2> HIDE DEF S
  <2>1. 0..L \subseteq S
    BY <1>1, <1>6, <1>7, NatClosed
  <2> QED BY <1>1, <2>1
<1>9. Upto(L) = Replacements
  BY <1>1 DEF Replacements
<1>10. PartialSums(w)[L] \in Nat
  BY <1>1, <1>5
<1> HIDE DEF Upto, Clean
<1> QED BY <1>4, <1>8, <1>9, <1>10 DEF Clean

-----------------------------------------------------------------------------
(* The replacements that the walk has still to come to when it is at rule  *)
(* r of node i.                                                            *)
Left(i, r) == {p \in Replacements : p[1] > i \/ (p[1] = i /\ p[2] >= r)}

LEMMA LeftPairs ==
  ASSUME tree_cur \in Seq(Node), NEW i \in Nat, NEW r \in Nat
  PROVE  /\ \A j \in 1..Len(tree_cur) : \A q \in OtherRules(j, 0) :
              <<j, q>> \in Left(i, r) <=> j > i \/ (j = i /\ q >= r)
         /\ \A p \in Left(i, r) : \E j \in 1..Len(tree_cur) : \E q \in OtherRules(j, 0) :
              p = <<j, q>> /\ (j > i \/ (j = i /\ q >= r))
<1>1. \A p \in Left(i, r) : p \in Replacements /\ (p[1] > i \/ (p[1] = i /\ p[2] >= r))
  BY DEF Left
<1>2. \A p \in Replacements : p \in Left(i, r) <=> p[1] > i \/ (p[1] = i /\ p[2] >= r)
  BY DEF Left
<1>3. \A j, q : <<j, q>>[1] = j /\ <<j, q>>[2] = q
  OBVIOUS
<1> QED BY <1>1, <1>2, <1>3, ReplacementPairs

(* The nodes still on the list when the walk is at node i.                 *)
LEMMA NodesAfter ==
  ASSUME tree_cur \in Seq(Node), NEW i \in 1..Len(tree_cur)
  PROVE  LET list == DropFirst(NonTerminalNodes(tree_cur), i)
         IN  /\ list \in Seq(Nat \ {0})
             /\ DOMAIN list = 1..(Len(tree_cur) - i)
             /\ \A k \in 1..(Len(tree_cur) - i) :
                  /\ list[k] = i + k /\ i + k \in 1..Len(tree_cur)
                  /\ DropFirst(list, k) = DropFirst(NonTerminalNodes(tree_cur), i + k)
<1> DEFINE all == NonTerminalNodes(tree_cur)
           L == Len(tree_cur)
           list == DropFirst(all, i)
<1>1. L \in Nat /\ all \in Seq(Nat \ {0}) /\ Len(all) = L /\ \A k \in 1..L : all[k] = k
  BY FuzzNodes, WorkLists
<1> HIDE DEF all, L
<1>2. i \in Nat /\ i \in 1..L
  BY <1>1 DEF L
<1>3. /\ list \in Seq(Nat \ {0}) /\ Len(list) = L - i
      /\ \A n \in 1..(L - i) : list[n] = all[i+n]
  <2>1. /\ list \in Seq(Nat \ {0}) /\ Len(list) = IF i <= Len(all) THEN Len(all) - i ELSE 0
        /\ \A n \in 1..(Len(all) - i) : list[n] = all[i+n]
    BY <1>1, <1>2, DropFirstElements
  <2> HIDE DEF list
  <2> QED BY <1>1, <1>2, <2>1
<1>4. DOMAIN list = 1..(L - i)
  <2> HIDE DEF list
  <2> QED BY <1>3
<1>5. ASSUME NEW k \in 1..(L - i)
      PROVE  list[k] = i + k /\ i + k \in 1..L /\ DropFirst(list, k) = DropFirst(all, i + k)
  <2>1. i + k \in 1..L /\ k \in Nat
    BY <1>1, <1>2
  <2>2. DropFirst(DropFirst(all, i), k) = DropFirst(all, i + k)
    BY <1>1, <1>2, <2>1, DropFirstAgain
  <2> HIDE DEF list
  <2> QED BY <1>1, <1>3, <2>1, <2>2 DEF list
<1> QED BY <1>3, <1>4, <1>5 DEF all, L

(* The loop of fuzz_count and fuzz finds the next replacement if there is  *)
(* one left, and passes none over.                                         *)
LEMMA WalkFinds ==
  ASSUME tree_cur \in Seq(Node), NEW i \in 1..Len(tree_cur), NEW r \in Nat, Left(i, r) # {},
         NEW w, w = WalkFrom(i, r, DropFirst(NonTerminalNodes(tree_cur), i))
  PROVE  /\ w.node \in 1..Len(tree_cur)
         /\ w.rule \in OtherRules(w.node, 0)
         /\ w.list = DropFirst(NonTerminalNodes(tree_cur), w.node)
         /\ Left(w.node, w.rule) = Left(i, r)
<1> DEFINE L == Len(tree_cur)
           list == DropFirst(NonTerminalNodes(tree_cur), i)
           later == {k \in DOMAIN list : OtherRules(list[k], 0) # {}}
<1>1. /\ L \in Nat /\ DOMAIN list = 1..(L - i)
      /\ \A k \in 1..(L - i) :
           /\ list[k] = i + k /\ i + k \in 1..L
           /\ DropFirst(list, k) = DropFirst(NonTerminalNodes(tree_cur), i + k)
  BY LenProperties, NodesAfter
<1>2. \A j \in 1..L : /\ OtherRules(j, 0) \subseteq Nat
                      /\ \A n \in Nat : OtherRules(j, n) = {q \in OtherRules(j, 0) : q >= n}
  BY OtherRulesFacts
<1>3. \A S \in SUBSET Nat : S # {} => Min(S) \in S /\ \A x \in S : Min(S) <= x
  BY LeastNat DEF Min
<1> HIDE DEF L, list
<1>4. i \in Nat /\ i \in 1..L /\ i >= 1
  BY <1>1 DEF L
<1>5. CASE OtherRules(i, r) # {}
  <2> DEFINE m == Min(OtherRules(i, r))
  <2>1. w = [node |-> i, rule |-> m, list |-> list]
    BY <1>5 DEF WalkFrom, list
  <2>2. m \in OtherRules(i, r) /\ \A x \in OtherRules(i, r) : m <= x
    BY <1>2, <1>3, <1>4, <1>5
  <2> HIDE DEF m
  <2>3. m \in OtherRules(i, 0) /\ m \in Nat /\ m >= r
    BY <1>2, <1>4, <2>2
  <2>4. \A q \in OtherRules(i, 0) : q \in Nat /\ (q >= r <=> q >= m)
    BY <1>2, <1>4, <2>2, <2>3
  <2>5. Left(i, m) = Left(i, r)
    <3>1. ASSUME NEW p \in Replacements PROVE p \in Left(i, m) <=> p \in Left(i, r)
      <4>1. PICK j \in 1..L : \E q \in OtherRules(j, 0) : p = <<j, q>>
        BY ReplacementPairs DEF L
      <4>2. PICK q \in OtherRules(j, 0) : p = <<j, q>>
        BY <4>1
      <4>3. /\ p \in Left(i, m) <=> j > i \/ (j = i /\ q >= m)
            /\ p \in Left(i, r) <=> j > i \/ (j = i /\ q >= r)
        BY <1>4, <2>3, <4>2, LeftPairs DEF L
      <4> QED BY <2>4, <4>3
    <3>2. Left(i, m) \subseteq Replacements /\ Left(i, r) \subseteq Replacements
      BY DEF Left
    <3> QED BY <3>1, <3>2
  <2> QED BY <1>4, <2>1, <2>3, <2>5 DEF L, list
<1>6. CASE OtherRules(i, r) = {}
  <2>1. \A k \in later : k \in 1..(L - i) /\ OtherRules(i + k, 0) # {}
    BY <1>1
  <2>2. \A k \in 1..(L - i) : OtherRules(i + k, 0) # {} => k \in later
    BY <1>1
  <2> HIDE DEF later
  <2>3. ASSUME NEW j \in 1..L, NEW q \in OtherRules(j, 0), j > i \/ (j = i /\ q >= r)
        PROVE  j > i /\ j - i \in later
    <3>1. j > i
      BY <1>2, <1>4, <1>6, <2>3
    <3>2. j - i \in 1..(L - i) /\ i + (j - i) = j
      BY <1>1, <1>4, <3>1
    <3> QED BY <2>2, <3>1, <3>2
  <2>4. later # {} /\ later \in SUBSET Nat
    <3>1. PICK p \in Left(i, r) : TRUE
      OBVIOUS
    <3>2. \E j \in 1..L : \E q \in OtherRules(j, 0) : j > i \/ (j = i /\ q >= r)
      BY <1>4, <3>1, LeftPairs DEF L
    <3> QED BY <2>1, <2>3, <3>2
  <2> DEFINE k == Min(later)
             n == i + k
             m == Min(OtherRules(n, 0))
  <2>5. k \in later /\ k \in 1..(L - i) /\ \A x \in later : k <= x
    BY <1>3, <2>1, <2>4
  <2> HIDE DEF k
  <2>6. n \in 1..L /\ list[k] = n /\ DropFirst(list, k) = DropFirst(NonTerminalNodes(tree_cur), n)
        /\ n > i
    BY <1>1, <1>4, <2>5
  <2>7. OtherRules(n, 0) # {} /\ OtherRules(n, 0) \subseteq Nat
    BY <1>2, <2>1, <2>5, <2>6
  <2>8. m \in OtherRules(n, 0) /\ m \in Nat /\ \A x \in OtherRules(n, 0) : m <= x
    BY <1>3, <2>7
  <2>9. w = [node |-> n, rule |-> m, list |-> DropFirst(NonTerminalNodes(tree_cur), n)]
    <3>1. w = [node |-> list[k], rule |-> Min(OtherRules(list[k], 0)), list |-> DropFirst(list, k)]
      BY <1>6, <2>4 DEF WalkFrom, list, later, k
    <3> QED BY <2>6, <3>1
  <2> HIDE DEF m
  <2>10. Left(n, m) = Left(i, r)
    <3>1. ASSUME NEW p \in Replacements PROVE p \in Left(n, m) <=> p \in Left(i, r)
      <4>1. PICK j \in 1..L : \E q \in OtherRules(j, 0) : p = <<j, q>>
        BY ReplacementPairs DEF L
      <4>2. PICK q \in OtherRules(j, 0) : p = <<j, q>>
        BY <4>1
      <4>3. n \in Nat /\ j \in Nat /\ k \in Nat
        BY <1>1, <2>5, <2>6
      <4>4. /\ p \in Left(n, m) <=> j > n \/ (j = n /\ q >= m)
            /\ p \in Left(i, r) <=> j > i \/ (j = i /\ q >= r)
        <5> HIDE DEF n
        <5> QED BY <1>4, <2>8, <4>2, <4>3, LeftPairs DEF L
      <4>5. j > i \/ (j = i /\ q >= r) => j >= n
        <5>1. j > i \/ (j = i /\ q >= r) => j - i >= k
          BY <2>3, <2>5
        <5> QED BY <1>4, <4>3, <5>1
      <4>6. j = n => q >= m
        BY <2>8
      <4>7. j > i \/ (j = i /\ q >= r) => j > n \/ (j = n /\ q >= m)
        <5> HIDE DEF n
        <5> QED BY <4>3, <4>5, <4>6
      <4>8. j > n \/ (j = n /\ q >= m) => j > i
        <5> HIDE DEF n
        <5> QED BY <1>4, <2>6, <4>3
      <4> QED BY <4>4, <4>7, <4>8
    <3>2. Left(n, m) \subseteq Replacements /\ Left(i, r) \subseteq Replacements
      BY DEF Left
    <3> QED BY <3>1, <3>2
  <2> HIDE DEF n
  <2> QED BY <2>6, <2>8, <2>9, <2>10 DEF L
<1> QED BY <1>5, <1>6

(* Trying a replacement leaves one less.                                   *)
LEMMA LeftAfter ==
  ASSUME tree_cur \in Seq(Node), NEW i \in 1..Len(tree_cur), NEW r \in OtherRules(i, 0)
  PROVE  /\ r \in Nat /\ <<i, r>> \in Replacements /\ <<i, r>> \in Left(i, r)
         /\ Left(i, r+1) = Left(i, r) \ {<<i, r>>}
         /\ IsFiniteSet(Left(i, r)) /\ Cardinality(Left(i, r)) \in Nat
         /\ Cardinality(Left(i, r+1)) = Cardinality(Left(i, r)) - 1
<1>1. i \in Nat /\ r \in Nat /\ r+1 \in Nat
  BY LenProperties, OtherRulesFacts
<1>2. <<i, r>> \in Replacements /\ <<i, r>> \in Left(i, r)
  BY <1>1, ReplacementPairs, LeftPairs
<1>3. Left(i, r+1) = Left(i, r) \ {<<i, r>>}
  <2>1. ASSUME NEW p \in Replacements
        PROVE  p \in Left(i, r+1) <=> p \in Left(i, r) /\ p # <<i, r>>
    <3>1. PICK j \in 1..Len(tree_cur) : \E q \in OtherRules(j, 0) : p = <<j, q>>
      BY ReplacementPairs
    <3>2. PICK q \in OtherRules(j, 0) : p = <<j, q>>
      BY <3>1
    <3>3. /\ p \in Left(i, r+1) <=> j > i \/ (j = i /\ q >= r+1)
          /\ p \in Left(i, r) <=> j > i \/ (j = i /\ q >= r)
      BY <1>1, <3>2, LeftPairs
    <3>4. j \in Nat /\ q \in Nat
      BY LenProperties, OtherRulesFacts
    <3>5. p # <<i, r>> <=> j # i \/ q # r
      BY <3>2
    <3> QED BY <1>1, <3>3, <3>4, <3>5
  <2>2. Left(i, r+1) \subseteq Replacements /\ Left(i, r) \subseteq Replacements
    BY DEF Left
  <2> QED BY <2>1, <2>2
<1>4. IsFiniteSet(Left(i, r))
  <2>1. IsFiniteSet(Replacements) /\ Left(i, r) \in SUBSET Replacements
    BY ReplacementCount DEF Left
  <2> QED BY <2>1, FS_Subset
<1>5. Cardinality(Left(i, r) \ {<<i, r>>}) = Cardinality(Left(i, r)) - 1
  BY <1>2, <1>4, FS_RemoveElement
<1>6. Cardinality(Left(i, r)) \in Nat
  BY <1>4, FS_CardinalityType
<1> QED BY <1>1, <1>2, <1>3, <1>4, <1>5, <1>6

-----------------------------------------------------------------------------
(* How many mutations fuzz_count announced for the stages before stage k.  *)
Announced(k) ==
  (IF k > 0 THEN total[0] ELSE 0) + (IF k > 1 THEN total[1] ELSE 0)
  + (IF k > 2 THEN total[2] ELSE 0) + (IF k > 3 THEN total[3] ELSE 0)

LEMMA LeaveFacts ==
  ASSUME total \in [0..3 -> Nat], NEW a \in 0..4, NEW b \in Nat, NEW k \in 0..3
  PROVE  \E c \in 0..4, d \in Nat :
           /\ Leave(<<a, b>>, k) = <<c, d>>
           /\ Announced(c) + d <= Announced(a) + b
           /\ c = k => d < total[k]
           /\ IF a = k /\ b >= total[k] THEN c = k+1 /\ d = 0 ELSE c = a /\ d = b
<1>1. \A j \in 0..3 : total[j] \in Nat
  OBVIOUS
<1>2. CASE a = k /\ b >= total[k]
  <2>1. Leave(<<a, b>>, k) = <<k+1, 0>>
    BY <1>2 DEF Leave
  <2>2. Announced(k+1) = Announced(k) + total[k]
    <3>1. k = 0 \/ k = 1 \/ k = 2 \/ k = 3
      OBVIOUS
    <3> QED BY <1>1, <3>1 DEF Announced
  <2>3. Announced(k) \in Nat
    BY <1>1 DEF Announced
  <2>4. Announced(k+1) + 0 <= Announced(a) + b
    BY <1>1, <1>2, <2>2, <2>3
  <2>5. k+1 \in 0..4 /\ k+1 # k /\ 0 \in Nat
    OBVIOUS
  <2> QED BY <1>2, <2>1, <2>4, <2>5
<1>3. CASE ~ (a = k /\ b >= total[k])
  <2>1. Leave(<<a, b>>, k) = <<a, b>>
    BY <1>3 DEF Leave
  <2>2. a = k => b < total[k]
    BY <1>1, <1>3
  <2>3. Announced(a) \in Nat
    BY <1>1 DEF Announced
  <2>4. Announced(a) + b <= Announced(a) + b
    BY <2>3
  <2> QED BY <1>3, <2>1, <2>2, <2>4
<1> QED BY <1>2, <1>3

(* Where "update internal status" arrives: at the next step, or at the     *)
(* first later stage that has steps, having skipped only stages without.   *)
LEMMA NextPositionFacts ==
  ASSUME total \in [0..3 -> Nat], stage \in 0..3, step \in Nat
  PROVE  /\ NextPosition[1] \in stage..4 /\ NextPosition[2] \in Nat
         /\ Announced(NextPosition[1]) + NextPosition[2] <= Announced(stage) + step + 1
         /\ NextPosition[1] < 4 => NextPosition[2] < total[NextPosition[1]]
         /\ NextPosition[1] = stage => NextPosition[2] = step + 1
         /\ NextPosition[1] # stage => NextPosition[2] = 0 /\ step + 1 >= total[stage]
         /\ \A k \in (stage+1)..(NextPosition[1]-1) : total[k] = 0
<1>1. PICK c1 \in 0..4, d1 \in Nat :
        /\ Leave(<<stage, step+1>>, 0) = <<c1, d1>>
        /\ Announced(c1) + d1 <= Announced(stage) + (step+1)
        /\ c1 = 0 => d1 < total[0]
        /\ IF stage = 0 /\ step+1 >= total[0] THEN c1 = 0+1 /\ d1 = 0 ELSE c1 = stage /\ d1 = step+1
  <2> DEFINE next == step+1
  <2>1. stage \in 0..4 /\ next \in Nat /\ 0 \in 0..3
    OBVIOUS
  <2> HIDE DEF next
  <2>2. \E c1 \in 0..4, d1 \in Nat :
          /\ Leave(<<stage, next>>, 0) = <<c1, d1>>
          /\ Announced(c1) + d1 <= Announced(stage) + next
          /\ c1 = 0 => d1 < total[0]
          /\ IF stage = 0 /\ next >= total[0] THEN c1 = 0+1 /\ d1 = 0 ELSE c1 = stage /\ d1 = next
    BY <2>1, LeaveFacts
  <2> QED BY <2>2 DEF next
<1>2. PICK c2 \in 0..4, d2 \in Nat :
        /\ Leave(<<c1, d1>>, 1) = <<c2, d2>>
        /\ Announced(c2) + d2 <= Announced(c1) + d1
        /\ c2 = 1 => d2 < total[1]
        /\ IF c1 = 1 /\ d1 >= total[1] THEN c2 = 1+1 /\ d2 = 0 ELSE c2 = c1 /\ d2 = d1
  <2>1. 1 \in 0..3
    OBVIOUS
  <2> QED BY <2>1, LeaveFacts
<1>3. PICK c3 \in 0..4, d3 \in Nat :
        /\ Leave(<<c2, d2>>, 2) = <<c3, d3>>
        /\ Announced(c3) + d3 <= Announced(c2) + d2
        /\ c3 = 2 => d3 < total[2]
        /\ IF c2 = 2 /\ d2 >= total[2] THEN c3 = 2+1 /\ d3 = 0 ELSE c3 = c2 /\ d3 = d2
  <2>1. 2 \in 0..3
    OBVIOUS
  <2> QED BY <2>1, LeaveFacts
<1>4. PICK c4 \in 0..4, d4 \in Nat :
        /\ Leave(<<c3, d3>>, 3) = <<c4, d4>>
        /\ Announced(c4) + d4 <= Announced(c3) + d3
        /\ c4 = 3 => d4 < total[3]
        /\ IF c3 = 3 /\ d3 >= total[3] THEN c4 = 3+1 /\ d4 = 0 ELSE c4 = c3 /\ d4 = d3
  <2>1. 3 \in 0..3
    OBVIOUS
  <2> QED BY <2>1, LeaveFacts
<1>5. NextPosition = <<c4, d4>>
  BY <1>1, <1>2, <1>3, <1>4 DEF NextPosition
<1>6. \A j \in 0..3 : total[j] \in Nat
  OBVIOUS
<1>7. Announced(c4) + d4 <= Announced(stage) + step + 1
  <2>1. \A j \in 0..4 : Announced(j) \in Nat
    BY <1>6 DEF Announced
  <2> QED BY <1>1, <1>2, <1>3, <1>4, <2>1
<1>8. c4 \in stage..4 /\ (c4 < 4 => d4 < total[c4])
  BY <1>1, <1>2, <1>3, <1>4, <1>6
<1>9. /\ c4 = stage => d4 = step + 1
      /\ c4 # stage => d4 = 0 /\ step + 1 >= total[stage]
  BY <1>1, <1>2, <1>3, <1>4, <1>6
<1>10. \A k \in (stage+1)..(c4-1) : total[k] = 0
  <2> TAKE k \in (stage+1)..(c4-1)
  <2>1. k = 1 \/ k = 2 \/ k = 3
    OBVIOUS
  <2>2. total[1] \in Nat /\ total[2] \in Nat /\ total[3] \in Nat
    BY <1>6
  <2> QED BY <1>1, <1>2, <1>3, <1>4, <2>1, <2>2
<1> QED BY <1>5, <1>7, <1>8, <1>9, <1>10

-----------------------------------------------------------------------------
(* The inductive invariant.  fuzz_count has run for the tree at hand.      *)
Counted == pc # "count" /\ tree_cur # <<>>

(* Every tree is one, and is there when it is needed.                      *)
TreesSound ==
  /\ tree_cur # <<>> => IsTree(tree_cur)
  /\ pc # "idle" => tree_cur # <<>>
  /\ mutated_tree # <<>> => IsTree(mutated_tree)
  /\ pc = "target" => mutated_tree # <<>>
  /\ \A t \in chunks : IsTree(t)

(* What fuzz_count announced still is what it would count now.             *)
Announcement ==
  Counted => /\ total[0] = RulesMutationCount
             /\ total[1] = config[1] /\ total[3] = config[3]
             /\ total[2] > 0 => EdgeSet(tree_cur) # {}
             /\ stage_max = Announced(4)

(* The hooks never are behind the calls of afl-fuzz, and a stage that the  *)
(* calls have come to has a step left: only stage 1, where fuzz_count      *)
(* starts when there are no rules to try, may have none.                   *)
InStage ==
  Counted => /\ Announced(stage) + step <= stage_cur
             /\ stage < 4 => step < total[stage] \/ (stage = 1 /\ step = 0)
             /\ pc = "fuzz" => stage_cur < stage_max

(* The rules walk is at a replacement, and has at least as many left as    *)
(* the stage has steps.                                                    *)
Walk ==
  Counted /\ stage = 0 =>
    /\ rules_node \in 1..Len(tree_cur)
    /\ rules_rule \in OtherRules(rules_node, 0)
    /\ nodes = DropFirst(NonTerminalNodes(tree_cur), rules_node)
    /\ Cardinality(Left(rules_node, rules_rule)) >= total[0] - step

IInv == TypeOK /\ TreesSound /\ Announcement /\ InStage /\ Walk

-----------------------------------------------------------------------------
LEMMA InitInv == Init => IInv
<1> SUFFICES ASSUME Init PROVE IInv
  OBVIOUS
<1> USE DEF Init
<1>1. config \in [1..3 -> Nat]
  <2>1. PICK a \in RandomChoices, b \in RecursiveChoices, c \in SplicingChoices :
          config = <<a, b, c>>
    OBVIOUS
  <2>2. a \in Nat /\ b \in Nat /\ c \in Nat
    BY SettingsAssumption
  <2> QED BY <2>1, <2>2
<1>2. <<>> \in Seq(Node) /\ <<>> \in Seq(Nat \ {0})
  OBVIOUS
<1>3. 0 \in 0..MaxSize
  BY SettingsAssumption
<1>4. total \in [0..3 -> Nat]
  OBVIOUS
<1>5. TypeOK
  BY <1>1, <1>2, <1>3, <1>4 DEF TypeOK
<1>6. TreesSound /\ ~Counted
  BY DEF TreesSound, Counted
<1> QED BY <1>5, <1>6 DEF IInv, Announcement, InStage, Walk

LEMMA QueueGetInv ==
  ASSUME IInv, NEW e \in Entries, QueueGet(e)
  PROVE  IInv'
<1> USE DEF QueueGet
<1>1. TypeOK /\ TreesSound
  BY DEF IInv
<1>2. EntryTree[e] \in Seq(Node) /\ IsTree(EntryTree[e]) /\ EntryTree[e] # <<>>
  BY EntryTreeAssumption DEF IsTree
<1>3. TypeOK'
  BY <1>1, <1>2 DEF TypeOK, walkVars
<1>4. TreesSound'
  BY <1>1, <1>2 DEF TreesSound
<1>5. ~Counted'
  BY DEF Counted
<1> QED BY <1>3, <1>4, <1>5 DEF IInv, Announcement, InStage, Walk

(* Nothing the last four parts speak of changes but pc, and pc only when   *)
(* the target has run.                                                     *)
LEMMA CallsInv ==
  ASSUME IInv, pc = "target", pc' = NextCall,
         UNCHANGED <<tree_cur, walkVars, stage, step, total, config, stage_cur, stage_max>>
  PROVE  Announcement' /\ InStage' /\ Walk'
<1>1. TypeOK /\ TreesSound /\ Announcement /\ InStage /\ Walk
  BY DEF IInv
<1>2. Counted /\ tree_cur # <<>>
  BY <1>1 DEF TreesSound, Counted
<1>3. Announcement'
  BY <1>1, <1>2 DEF Announcement, RulesMutationCount, Announced
<1>4. pc' = "fuzz" => stage_cur < stage_max
  BY DEF NextCall
<1>5. InStage'
  BY <1>1, <1>2, <1>4 DEF InStage, Announced
<1>6. Walk'
  BY <1>1, <1>2 DEF Walk, walkVars, Left, Replacements, OtherRules
<1> QED BY <1>3, <1>5, <1>6

LEMMA TargetInv ==
  ASSUME IInv, NotInteresting \/ QueueNewEntry
  PROVE  IInv'
<1>1. TypeOK /\ TreesSound
  BY DEF IInv
<1>2. Announcement' /\ InStage' /\ Walk'
  <2>1. /\ pc = "target" /\ pc' = NextCall
        /\ UNCHANGED <<tree_cur, walkVars, stage, step, total, config, stage_cur, stage_max>>
    BY DEF NotInteresting, QueueNewEntry
  <2> QED BY <2>1, CallsInv
<1>3. NextCall \in {"idle", "fuzz"}
  BY DEF NextCall
<1>4. CASE NotInteresting
  <2>1. TypeOK'
    BY <1>1, <1>3, <1>4 DEF NotInteresting, TypeOK, walkVars
  <2>2. TreesSound'
    BY <1>1, <1>3, <1>4 DEF NotInteresting, TreesSound
  <2> QED BY <1>2, <2>1, <2>2 DEF IInv
<1>5. CASE QueueNewEntry
  <2>1. mutated_tree \in Seq(Node) /\ mutated_tree # <<>> /\ IsTree(mutated_tree) /\ <<>> \in Seq(Node)
    BY <1>1, <1>5 DEF QueueNewEntry, TypeOK, TreesSound
  <2>2. TypeOK'
    BY <1>1, <1>3, <1>5, <2>1 DEF QueueNewEntry, TypeOK, walkVars
  <2>3. TreesSound'
    BY <1>1, <1>3, <1>5, <2>1 DEF QueueNewEntry, TreesSound
  <2> QED BY <1>2, <2>2, <2>3 DEF IInv
<1> QED BY <1>4, <1>5

(* afl_custom_fuzz_count.                                                  *)
LEMMA FuzzCountInv ==
  ASSUME IInv, FuzzCount
  PROVE  IInv'
<1>1. TypeOK /\ TreesSound
  BY DEF IInv
<1>2. /\ pc = "count" /\ step' = 0 /\ stage_cur' = 0
      /\ total' = [k \in 0..3 |-> CASE k = 0 -> RulesMutationCount
                                    [] k = 2 -> IF EdgeSet(tree_cur) = {} THEN 0 ELSE config[2]
                                    [] OTHER -> config[k]]
      /\ stage_max' = total'[0] + total'[1] + total'[2] + total'[3]
      /\ pc' = IF stage_max' > 0 THEN "fuzz" ELSE "idle"
      /\ UNCHANGED <<tree_cur, mutated_tree, config, chunks, saved, out_size, unfuzzed>>
  BY DEF FuzzCount
<1>3. /\ tree_cur \in Seq(Node) /\ tree_cur # <<>> /\ IsTree(tree_cur)
      /\ config \in [1..3 -> Nat] /\ nodes \in Seq(Nat \ {0})
      /\ rules_node \in Nat /\ rules_rule \in Nat
  BY <1>1, <1>2 DEF TypeOK, TreesSound
<1>4. /\ RulesMutationCount \in Nat /\ IsFiniteSet(Replacements)
      /\ Cardinality(Replacements) \in Nat /\ Cardinality(Replacements) >= RulesMutationCount
  BY <1>3, ReplacementCount
<1>5. /\ total' \in [0..3 -> Nat]
      /\ total'[0] = RulesMutationCount /\ total'[1] = config[1] /\ total'[3] = config[3]
      /\ total'[2] = IF EdgeSet(tree_cur) = {} THEN 0 ELSE config[2]
  <2>1. config[1] \in Nat /\ config[2] \in Nat /\ config[3] \in Nat
    BY <1>3
  <2>2. \A k \in 0..3 : k = 0 \/ k = 1 \/ k = 2 \/ k = 3
    OBVIOUS
  <2> HIDE DEF RulesMutationCount
  <2>3. /\ total'[0] = RulesMutationCount /\ total'[1] = config[1] /\ total'[3] = config[3]
        /\ total'[2] = IF EdgeSet(tree_cur) = {} THEN 0 ELSE config[2]
    BY <1>2
  <2>4. \A k \in 0..3 : total'[k] \in Nat
    BY <1>4, <2>1, <2>2, <2>3
  <2>5. total' = [k \in 0..3 |-> total'[k]]
    BY <1>2
  <2> QED BY <2>3, <2>4, <2>5
<1>6. NonTerminalNodes(tree_cur) \in Seq(Nat \ {0})
      /\ Tail(NonTerminalNodes(tree_cur)) = DropFirst(NonTerminalNodes(tree_cur), 1)
      /\ 1 \in 1..Len(tree_cur)
  <2> DEFINE all == NonTerminalNodes(tree_cur)
  <2>1. /\ all \in Seq(Nat \ {0}) /\ Len(all) = Len(tree_cur) /\ Len(tree_cur) \in Nat
        /\ Len(tree_cur) > 0
    BY <1>3, FuzzNodes, WorkLists DEF IsTree
  <2> HIDE DEF all
  <2>2. DropFirst(all, 0) = all /\ all # <<>>
    BY <2>1, DropFirstAgain
  <2>3. Tail(DropFirst(all, 0)) = DropFirst(all, 0+1)
    BY <2>1, <2>2, DropFirstAgain
  <2> QED BY <2>1, <2>2, <2>3 DEF all
<1> DEFINE w == WalkFrom(1, 0, DropFirst(NonTerminalNodes(tree_cur), 1))
<1>7. total'[0] > 0 =>
        /\ stage' = 0 /\ rules_node' = w.node /\ rules_rule' = w.rule /\ nodes' = w.list
        /\ w.node \in 1..Len(tree_cur) /\ w.rule \in OtherRules(w.node, 0)
        /\ w.list = DropFirst(NonTerminalNodes(tree_cur), w.node)
        /\ Left(w.node, w.rule) = Replacements
  <2> SUFFICES ASSUME total'[0] > 0
               PROVE  /\ stage' = 0 /\ rules_node' = w.node /\ rules_rule' = w.rule /\ nodes' = w.list
                      /\ w.node \in 1..Len(tree_cur) /\ w.rule \in OtherRules(w.node, 0)
                      /\ w.list = DropFirst(NonTerminalNodes(tree_cur), w.node)
                      /\ Left(w.node, w.rule) = Replacements
    OBVIOUS
  <2>1. stage' = 0 /\ rules_node' = w.node /\ rules_rule' = w.rule /\ nodes' = w.list
    BY <1>6 DEF FuzzCount, WalkTo
  <2>2. Left(1, 0) = Replacements
    <3>1. ASSUME NEW p \in Replacements PROVE p[1] > 1 \/ (p[1] = 1 /\ p[2] >= 0)
      <4>1. PICK j \in 1..Len(tree_cur) : \E q \in OtherRules(j, 0) : p = <<j, q>>
        BY <1>3, ReplacementPairs
      <4>2. PICK q \in OtherRules(j, 0) : p = <<j, q>>
        BY <4>1
      <4>3. q \in Nat /\ j \in Nat /\ j >= 1
        BY <1>3, OtherRulesFacts, LenProperties
      <4> QED BY <4>2, <4>3
    <3> QED BY <3>1 DEF Left
  <2>3. Left(1, 0) # {}
    BY <1>4, <1>5, <2>2, FS_EmptySet
  <2> HIDE DEF w
  <2>4. /\ w.node \in 1..Len(tree_cur) /\ w.rule \in OtherRules(w.node, 0)
        /\ w.list = DropFirst(NonTerminalNodes(tree_cur), w.node)
        /\ Left(w.node, w.rule) = Left(1, 0)
    <3>1. 0 \in Nat /\ w = WalkFrom(1, 0, DropFirst(NonTerminalNodes(tree_cur), 1))
      BY DEF w
    <3> QED BY <1>3, <1>6, <2>3, <3>1, WalkFinds
  <2> QED BY <2>1, <2>2, <2>4
<1>8. ~ (total'[0] > 0) => stage' = 1 /\ nodes' = NonTerminalNodes(tree_cur)
                           /\ rules_node' = rules_node /\ rules_rule' = rules_rule
  BY DEF FuzzCount
<1> HIDE DEF w
<1>9. TypeOK'
  <2>1. total'[0] > 0 => w.rule \in Nat /\ w.node \in Nat /\ w.list \in Seq(Nat \ {0})
    BY <1>3, <1>7, OtherRulesFacts, NodesAfter, LenProperties
  <2>2. /\ stage' \in 0..4 /\ rules_node' \in Nat /\ rules_rule' \in Nat
        /\ nodes' \in Seq(Nat \ {0})
    <3>1. 0 \in 0..4 /\ 1 \in 0..4
      OBVIOUS
    <3>2. CASE total'[0] > 0
      BY <1>7, <2>1, <3>1, <3>2, Zenon
    <3>3. CASE ~ (total'[0] > 0)
      BY <1>3, <1>6, <1>8, <3>1, <3>3, Zenon
    <3> QED BY <3>2, <3>3
  <2>3. stage_max' \in Nat /\ pc' \in {"fuzz", "idle"}
    <3>1. total'[0] \in Nat /\ total'[1] \in Nat /\ total'[2] \in Nat /\ total'[3] \in Nat
      BY <1>5
    <3> QED BY <1>2, <3>1
  <2>4. total' \in [0..3 -> Nat] /\ step' \in Nat /\ stage_cur' \in Nat
    BY <1>2, <1>5
  <2> QED BY <1>1, <1>2, <2>2, <2>3, <2>4 DEF TypeOK
<1>10. pc' \in {"fuzz", "idle"}
  BY <1>2
<1>11. TreesSound'
  BY <1>1, <1>2, <1>3, <1>10 DEF TreesSound
<1>12. Announcement'
  <2>1. RulesMutationCount' = RulesMutationCount
    BY <1>2 DEF RulesMutationCount
  <2>2. total'[2] > 0 => EdgeSet(tree_cur') # {}
    BY <1>2, <1>5
  <2>3. stage_max' = Announced(4)'
    <3>1. total'[0] \in Nat /\ total'[1] \in Nat /\ total'[2] \in Nat /\ total'[3] \in Nat
      BY <1>5
    <3> QED BY <1>2, <3>1 DEF Announced
  <2> QED BY <1>2, <1>5, <2>1, <2>2, <2>3 DEF Announcement
<1>13. InStage'
  <2>1. total'[0] \in Nat /\ total'[1] \in Nat /\ total'[2] \in Nat /\ total'[3] \in Nat
    BY <1>5
  <2>2. Announced(stage)' + step' <= stage_cur'
    BY <1>2, <1>7, <1>8, <2>1 DEF Announced
  <2>3. stage' < 4 => step' < total'[stage'] \/ (stage' = 1 /\ step' = 0)
    BY <1>2, <1>7, <1>8, <2>1
  <2>4. pc' = "fuzz" => stage_cur' < stage_max'
    BY <1>2, <2>1
  <2> QED BY <2>2, <2>3, <2>4 DEF InStage
<1>14. Walk'
  <2> SUFFICES ASSUME stage' = 0 PROVE Walk'
    BY DEF Walk
  <2>1. total'[0] > 0
    BY <1>8
  <2>2. Left(rules_node, rules_rule)' = Replacements
    <3>1. Left(rules_node, rules_rule)' = Left(w.node, w.rule)
      BY <1>2, <1>7, <2>1 DEF Left, Replacements, OtherRules
    <3> QED BY <1>7, <2>1, <3>1
  <2>3. OtherRules(rules_node, 0)' = OtherRules(w.node, 0)
    BY <1>2, <1>7, <2>1 DEF OtherRules
  <2>4. Cardinality(Replacements) >= total'[0] - step'
    BY <1>2, <1>4, <1>5
  <2> QED BY <1>2, <1>7, <2>1, <2>2, <2>3, <2>4 DEF Walk
<1> QED BY <1>9, <1>11, <1>12, <1>13, <1>14 DEF IInv

-----------------------------------------------------------------------------
(* The mutants.                                                            *)
FuzzTree == {t \in Seq(Node) : IsTree(t)}

LEMMA GenTreesAreTrees ==
  ASSUME NEW id \in Ids, NEW r \in DOMAIN Rules[id]
  PROVE  /\ GenTrees[id][r] # {}
         /\ \A m \in GenTrees[id][r] : m \in FuzzTree /\ m[1].id = id
  BY GenTreesAssumption DEF FuzzTree

LEMMA ReplaceFuzzTree ==
  ASSUME NEW t \in FuzzTree, NEW i \in 1..Len(t), NEW m \in FuzzTree
  PROVE  ReplaceSubtree(t, i, m) \in FuzzTree
  BY FuzzNodes, ReplaceElements, ReplaceIsTree DEF FuzzTree

(* The numbers of repetitions are numbers.                                 *)
LEMMA RepeatCountsNat == RepeatCounts \subseteq Nat
<1>1. RRM_GROWTH \in Nat
  BY SettingsAssumption
<1>2. 2^RRM_GROWTH \in Int
  BY <1>1
<1> DEFINE most == 2^RRM_GROWTH
<1>3. RepeatCounts \subseteq 1..most
  BY DEF RepeatCounts
<1>4. most \in Int
  BY <1>2
<1> HIDE DEF most
<1> QED BY <1>3, <1>4

LEMMA RulesMutantsAreTrees ==
  ASSUME tree_cur \in FuzzTree, rules_node \in 1..Len(tree_cur),
         rules_rule \in OtherRules(rules_node, 0)
  PROVE  RulesMutants \subseteq FuzzTree
<1> DEFINE id == tree_cur[rules_node].id
<1>1. tree_cur \in Seq(Node)
  BY DEF FuzzTree
<1>2. id \in Ids /\ rules_rule \in DOMAIN Rules[id]
  BY <1>1, OtherRulesFacts
<1> HIDE DEF id
<1>3. \A m \in GenTrees[id][rules_rule] : ReplaceSubtree(tree_cur, rules_node, m) \in FuzzTree
  BY <1>2, GenTreesAreTrees, ReplaceFuzzTree
<1> QED BY <1>3 DEF RulesMutants, id

LEMMA RandomMutantsAreTrees ==
  ASSUME tree_cur \in FuzzTree
  PROVE  RandomMutants \subseteq FuzzTree
<1> SUFFICES ASSUME NEW t \in RandomMutants PROVE t \in FuzzTree
  OBVIOUS
<1>1. PICK i \in DOMAIN tree_cur :
        \E r \in DOMAIN Rules[tree_cur[i].id] : \E m \in GenTrees[tree_cur[i].id][r] :
          t = ReplaceSubtree(tree_cur, i, m)
  BY DEF RandomMutants
<1>2. tree_cur \in Seq(Node) /\ i \in 1..Len(tree_cur)
  BY DEF FuzzTree
<1>3. tree_cur[i].id \in Ids
  BY <1>2, OtherRulesFacts
<1>4. PICK r \in DOMAIN Rules[tree_cur[i].id] :
        \E m \in GenTrees[tree_cur[i].id][r] : t = ReplaceSubtree(tree_cur, i, m)
  BY <1>1
<1>5. PICK m \in GenTrees[tree_cur[i].id][r] : t = ReplaceSubtree(tree_cur, i, m)
  BY <1>4
<1>6. m \in FuzzTree
  BY <1>3, GenTreesAreTrees
<1> QED BY <1>2, <1>5, <1>6, ReplaceFuzzTree

LEMMA RecursiveAttemptsAreTrees ==
  ASSUME tree_cur \in FuzzTree
  PROVE  RecursiveAttempts \subseteq FuzzTree
<1> SUFFICES ASSUME NEW t \in RecursiveAttempts PROVE t \in FuzzTree
  OBVIOUS
<1>1. PICK c \in EdgeSet(tree_cur), num \in RepeatCounts : t = RepeatEdge(tree_cur, c, num)
  BY DEF RecursiveAttempts
<1>2. NodeSet(Node) /\ tree_cur \in Seq(Node) /\ IsTree(tree_cur) /\ num \in Nat
  BY FuzzNodes, RepeatCountsNat DEF FuzzTree
<1> DEFINE p == ParentOf(tree_cur, c)
<1>3. /\ c \in 2..Len(tree_cur) /\ p \in 1..(c-1)
      /\ tree_cur[p].id = tree_cur[c].id
      /\ SubtreeEnd(tree_cur, c) <= SubtreeEnd(tree_cur, p) /\ c <= SubtreeEnd(tree_cur, c)
  BY <1>2, EdgeParent
<1>4. c <= SubtreeEnd(tree_cur, p)
  <2>1. c \in 1..Len(tree_cur) /\ p \in 1..Len(tree_cur) /\ Len(tree_cur) \in Nat
    BY <1>2, <1>3, LenProperties
  <2>2. SubtreeEnd(tree_cur, c) \in c..Len(tree_cur) /\ SubtreeEnd(tree_cur, p) \in p..Len(tree_cur)
    BY <1>2, <2>1, SubtreeEndExists
  <2> QED BY <1>3, <2>1, <2>2
<1>5. RepeatEdge(tree_cur, c, num) \in Seq(Node) /\ IsTree(RepeatEdge(tree_cur, c, num))
  BY <1>2, <1>3, <1>4, RepeatEdgeIsTree
<1> QED BY <1>1, <1>5 DEF FuzzTree

LEMMA SplicingMutantsAreTrees ==
  ASSUME tree_cur \in FuzzTree, chunks \subseteq FuzzTree
  PROVE  SplicingMutants \subseteq FuzzTree
<1> SUFFICES ASSUME NEW t \in SplicingMutants PROVE t \in FuzzTree
  OBVIOUS
<1>1. PICK i \in DOMAIN tree_cur : \E m \in Alternatives(tree_cur[i].id) :
        t = ReplaceSubtree(tree_cur, i, m)
  BY DEF SplicingMutants
<1>2. PICK m \in Alternatives(tree_cur[i].id) : t = ReplaceSubtree(tree_cur, i, m)
  BY <1>1
<1>3. PICK s \in chunks : \E j \in DOMAIN s : m = Subtree(s, j)
  BY DEF Alternatives
<1>4. PICK j \in DOMAIN s : m = Subtree(s, j)
  BY <1>3
<1>5. /\ NodeSet(Node) /\ s \in Seq(Node) /\ IsTree(s) /\ j \in 1..Len(s)
      /\ i \in 1..Len(tree_cur)
  BY FuzzNodes DEF FuzzTree
<1>6. m \in FuzzTree
  BY <1>4, <1>5, SubtreeElements, SubtreeIsTree DEF FuzzTree
<1> QED BY <1>2, <1>5, <1>6, ReplaceFuzzTree

-----------------------------------------------------------------------------
(* A call that afl-fuzz makes finds the hooks in a stage: they never are   *)
(* behind the calls, and there are as many calls as steps.                 *)
LEMMA FuzzingFacts ==
  ASSUME IInv, pc = "fuzz"
  PROVE  /\ Counted /\ tree_cur \in FuzzTree /\ tree_cur \in Seq(Node)
         /\ total \in [0..3 -> Nat] /\ stage \in 0..3 /\ step \in Nat
         /\ stage_cur \in Nat /\ stage_cur < stage_max
         /\ Announced(stage) + step <= stage_cur
         /\ stage = 0 => /\ rules_node \in 1..Len(tree_cur)
                         /\ rules_rule \in OtherRules(rules_node, 0)
                         /\ nodes = DropFirst(NonTerminalNodes(tree_cur), rules_node)
                         /\ Cardinality(Left(rules_node, rules_rule)) >= total[0] - step
         /\ stage = 2 => EdgeSet(tree_cur) # {}
         /\ chunks \subseteq FuzzTree
<1>1. TypeOK /\ TreesSound /\ Announcement /\ InStage /\ Walk
  BY DEF IInv
<1>2. Counted
  BY <1>1 DEF Counted, TreesSound
<1>3. /\ tree_cur \in FuzzTree /\ tree_cur \in Seq(Node) /\ total \in [0..3 -> Nat]
      /\ stage \in 0..4 /\ step \in Nat /\ stage_cur \in Nat /\ stage_max \in Nat
      /\ chunks \subseteq FuzzTree
  BY <1>1, <1>2 DEF TypeOK, TreesSound, Counted, FuzzTree
<1>4. /\ stage_max = Announced(4) /\ Announced(stage) + step <= stage_cur
      /\ stage_cur < stage_max
      /\ total[2] > 0 => EdgeSet(tree_cur) # {}
      /\ stage < 4 => step < total[stage] \/ (stage = 1 /\ step = 0)
  BY <1>1, <1>2 DEF Announcement, InStage
<1>5. stage \in 0..3
  <2>1. Announced(4) \in Nat
    <3>1. total[0] \in Nat /\ total[1] \in Nat /\ total[2] \in Nat /\ total[3] \in Nat
      BY <1>3
    <3> QED BY <3>1 DEF Announced
  <2>2. stage # 4
    BY <1>3, <1>4, <2>1
  <2> QED BY <1>3, <2>2
<1>6. stage = 2 => EdgeSet(tree_cur) # {}
  <2> SUFFICES ASSUME stage = 2 PROVE EdgeSet(tree_cur) # {}
    OBVIOUS
  <2>1. total[2] \in Nat /\ step < total[2]
    BY <1>3, <1>4
  <2> QED BY <1>3, <1>4, <2>1
<1> QED BY <1>1, <1>2, <1>3, <1>4, <1>5, <1>6 DEF Walk

(* "update internal status": the walk goes on to the next replacement.     *)
LEMMA WalkGoesOn ==
  ASSUME IInv, pc = "fuzz", stage = 0, NextPosition[1] = 0
  PROVE  /\ NextPosition[2] = step + 1
         /\ NextCandidate.node \in 1..Len(tree_cur)
         /\ NextCandidate.rule \in OtherRules(NextCandidate.node, 0)
         /\ NextCandidate.list = DropFirst(NonTerminalNodes(tree_cur), NextCandidate.node)
         /\ Left(NextCandidate.node, NextCandidate.rule) = Left(rules_node, rules_rule + 1)
         /\ Cardinality(Left(NextCandidate.node, NextCandidate.rule)) >= total[0] - (step+1)
<1>1. /\ tree_cur \in Seq(Node) /\ total \in [0..3 -> Nat] /\ stage \in 0..3 /\ step \in Nat
      /\ rules_node \in 1..Len(tree_cur)
      /\ rules_rule \in OtherRules(rules_node, 0)
      /\ nodes = DropFirst(NonTerminalNodes(tree_cur), rules_node)
      /\ Cardinality(Left(rules_node, rules_rule)) >= total[0] - step
  BY FuzzingFacts
<1>2. NextPosition[2] = step + 1 /\ step + 1 < total[0] /\ total[0] \in Nat
  <2>1. NextPosition[2] = step + 1 /\ NextPosition[2] < total[NextPosition[1]]
    BY <1>1, NextPositionFacts
  <2> QED BY <1>1, <2>1
<1>3. /\ rules_rule \in Nat
      /\ IsFiniteSet(Left(rules_node, rules_rule))
      /\ Cardinality(Left(rules_node, rules_rule)) \in Nat
      /\ Cardinality(Left(rules_node, rules_rule + 1)) = Cardinality(Left(rules_node, rules_rule)) - 1
  BY <1>1, LeftAfter
<1>4. Cardinality(Left(rules_node, rules_rule + 1)) >= total[0] - (step+1)
  BY <1>1, <1>2, <1>3
<1>5. Left(rules_node, rules_rule + 1) # {}
  <2>1. Cardinality(Left(rules_node, rules_rule + 1)) # 0
    BY <1>1, <1>2, <1>3, <1>4
  <2> QED BY <2>1, FS_EmptySet
<1> DEFINE w == NextCandidate
           r == rules_rule + 1
<1>6. w = WalkFrom(rules_node, r, DropFirst(NonTerminalNodes(tree_cur), rules_node)) /\ r \in Nat
  BY <1>1, <1>3 DEF NextCandidate
<1> HIDE DEF w, r
<1>7. /\ w.node \in 1..Len(tree_cur)
      /\ w.rule \in OtherRules(w.node, 0)
      /\ w.list = DropFirst(NonTerminalNodes(tree_cur), w.node)
      /\ Left(w.node, w.rule) = Left(rules_node, r)
  <2>1. Left(rules_node, r) # {}
    BY <1>5 DEF r
  <2> QED BY <1>1, <1>6, <2>1, WalkFinds
<1> QED BY <1>2, <1>4, <1>7 DEF w, r

LEMMA FuzzedInv ==
  ASSUME IInv, pc = "fuzz", NEW t \in FuzzTree, Fuzzed(t)
  PROVE  IInv'
<1>1. TypeOK /\ TreesSound /\ Announcement
  BY DEF IInv
<1>2. /\ Counted /\ tree_cur \in Seq(Node) /\ total \in [0..3 -> Nat] /\ stage \in 0..3
      /\ step \in Nat /\ stage_cur \in Nat /\ Announced(stage) + step <= stage_cur
  BY FuzzingFacts
<1>3. /\ stage' \in stage..4 /\ step' \in Nat /\ stage' \in 0..4
      /\ Announced(stage') + step' <= Announced(stage) + step + 1
      /\ stage' < 4 => step' < total[stage']
  <2>1. stage' = NextPosition[1] /\ step' = NextPosition[2]
    BY DEF Fuzzed
  <2> DEFINE pos == NextPosition
  <2>2. /\ pos[1] \in stage..4 /\ pos[2] \in Nat
        /\ Announced(pos[1]) + pos[2] <= Announced(stage) + step + 1
        /\ pos[1] < 4 => pos[2] < total[pos[1]]
    BY <1>2, NextPositionFacts
  <2> HIDE DEF pos
  <2>3. stage..4 \subseteq 0..4
    BY <1>2
  <2>4. stage' = pos[1] /\ step' = pos[2]
    BY <2>1 DEF pos
  <2> QED BY <2>2, <2>3, <2>4
<1>4. /\ mutated_tree' = t /\ stage_cur' = stage_cur + 1
      /\ pc' = (IF out_size' > 0 THEN "target"
                ELSE IF stage_cur' < stage_max THEN "fuzz" ELSE "idle")
      /\ out_size' = (IF DataLen(t) <= MaxSize THEN DataLen(t) ELSE MaxSize)
      /\ UNCHANGED <<tree_cur, total, config, chunks, saved, stage_max, unfuzzed>>
  BY DEF Fuzzed
<1>5. t \in Seq(Node) /\ IsTree(t) /\ t # <<>>
  BY DEF FuzzTree, IsTree
<1>6. out_size' \in 0..MaxSize
  <2>1. DataLen(t) \in Nat /\ MaxSize \in Nat
    BY <1>5, DataLenNat, SettingsAssumption
  <2> QED BY <1>4, <2>1
<1>7. pc' \in {"target", "fuzz", "idle"} /\ (pc' = "fuzz" => stage_cur' < stage_max)
  BY <1>4
<1>8. ASSUME stage' = 0
      PROVE  Walk' /\ rules_node' \in Nat /\ rules_rule' \in Nat /\ nodes' \in Seq(Nat \ {0})
  <2> DEFINE w == NextCandidate
  <2>1. rules_node' = w.node /\ rules_rule' = w.rule /\ nodes' = w.list
    BY <1>8 DEF Fuzzed, WalkTo
  <2>2. stage = 0 /\ NextPosition[1] = 0 /\ step' = NextPosition[2]
    BY <1>2, <1>3, <1>8 DEF Fuzzed
  <2>3. /\ step' = step + 1
        /\ w.node \in 1..Len(tree_cur)
        /\ w.rule \in OtherRules(w.node, 0)
        /\ w.list = DropFirst(NonTerminalNodes(tree_cur), w.node)
        /\ Cardinality(Left(w.node, w.rule)) >= total[0] - (step+1)
    BY <2>2, WalkGoesOn
  <2> HIDE DEF w
  <2>4. w.node \in Nat /\ w.rule \in Nat /\ w.list \in Seq(Nat \ {0})
    BY <1>2, <2>3, OtherRulesFacts, NodesAfter, LenProperties, SMTT(30)
  <2>5. rules_node' \in Nat /\ rules_rule' \in Nat /\ nodes' \in Seq(Nat \ {0})
    BY <2>1, <2>4, Zenon
  <2>6. Walk'
    <3>1. /\ Left(rules_node, rules_rule)' = Left(w.node, w.rule)
          /\ OtherRules(rules_node, 0)' = OtherRules(w.node, 0)
      BY <1>4, <2>1 DEF Left, Replacements, OtherRules
    <3> QED BY <1>4, <2>1, <2>3, <3>1 DEF Walk
  <2> QED BY <2>5, <2>6
<1>9. ASSUME stage' # 0
      PROVE  Walk' /\ rules_node' \in Nat /\ rules_rule' \in Nat /\ nodes' \in Seq(Nat \ {0})
  <2>1. UNCHANGED <<nodes, rules_node, rules_rule>>
    BY <1>9 DEF Fuzzed, walkVars
  <2> QED BY <1>1, <1>9, <2>1 DEF Walk, TypeOK
<1>10. Walk' /\ rules_node' \in Nat /\ rules_rule' \in Nat /\ nodes' \in Seq(Nat \ {0})
  BY <1>8, <1>9
<1>11. TypeOK'
  <2>1. Len(t) \in Nat /\ stage_cur' \in Nat /\ pc' \in {"idle", "count", "fuzz", "target"}
    BY <1>2, <1>4, <1>5, <1>7
  <2> QED BY <1>1, <1>3, <1>4, <1>5, <1>6, <1>10, <2>1 DEF TypeOK
<1>12. TreesSound'
  BY <1>1, <1>2, <1>4, <1>5 DEF TreesSound, Counted
<1>13. Announcement'
  <2>1. /\ RulesMutationCount' = RulesMutationCount /\ EdgeSet(tree_cur)' = EdgeSet(tree_cur)
        /\ Announced(4)' = Announced(4)
    BY <1>4 DEF RulesMutationCount, Announced
  <2> QED BY <1>1, <1>2, <1>4, <2>1 DEF Announcement
<1>14. InStage'
  <2>1. Announced(stage)' = Announced(stage')
    BY <1>4 DEF Announced
  <2>2. Announced(stage') \in Nat /\ Announced(stage) \in Nat
    <3>1. total[0] \in Nat /\ total[1] \in Nat /\ total[2] \in Nat /\ total[3] \in Nat
      BY <1>2
    <3>2. \A j \in 0..4 : Announced(j) \in Nat
      BY <3>1 DEF Announced
    <3>3. stage \in 0..4
      BY <1>2
    <3> QED BY <1>3, <3>2, <3>3
  <2>3. Announced(stage)' + step' <= stage_cur'
    <3> DEFINE before == Announced(stage)
               after == Announced(stage')
    <3>1. before \in Nat /\ after \in Nat /\ before + step <= stage_cur
          /\ after + step' <= before + step + 1
      BY <1>2, <1>3, <2>2
    <3>2. step \in Nat /\ step' \in Nat /\ stage_cur \in Nat
      BY <1>2, <1>3
    <3> HIDE DEF before, after
    <3>3. \A a, b, c, d, e \in Nat : b + c <= e /\ a + d <= b + c + 1 => a + d <= e + 1
      OBVIOUS
    <3>4. after + step' <= stage_cur + 1
      BY <3>1, <3>2, <3>3, Zenon
    <3> QED BY <1>4, <2>1, <3>4 DEF after
  <2> QED BY <1>3, <1>4, <1>7, <2>3 DEF InStage
<1> QED BY <1>10, <1>11, <1>12, <1>13, <1>14 DEF IInv

LEMMA FuzzInv ==
  ASSUME IInv, Fuzz
  PROVE  IInv'
<1>1. pc = "fuzz"
  BY DEF Fuzz, FuzzRules, FuzzRandom, FuzzRecursive, FuzzSplicing
<1>2. /\ tree_cur \in FuzzTree /\ chunks \subseteq FuzzTree
      /\ stage = 0 => /\ rules_node \in 1..Len(tree_cur)
                      /\ rules_rule \in OtherRules(rules_node, 0)
  BY <1>1, FuzzingFacts
<1>3. \E t \in FuzzTree : Fuzzed(t)
  <2>1. CASE FuzzRules
    BY <1>2, <2>1, RulesMutantsAreTrees DEF FuzzRules
  <2>2. CASE FuzzRandom
    BY <1>2, <2>2, RandomMutantsAreTrees DEF FuzzRandom
  <2>3. CASE FuzzRecursive
    BY <1>2, <2>3, RecursiveAttemptsAreTrees DEF FuzzRecursive, RecursiveMutants
  <2>4. CASE FuzzSplicing
    BY <1>2, <2>4, SplicingMutantsAreTrees DEF FuzzSplicing
  <2> QED BY <2>1, <2>2, <2>3, <2>4 DEF Fuzz
<1>4. PICK t \in FuzzTree : Fuzzed(t)
  BY <1>3
<1> QED BY <1>1, <1>4, FuzzedInv

LEMMA StutterInv ==
  ASSUME IInv, UNCHANGED vars
  PROVE  IInv'
<1> USE DEF vars, walkVars, aflVars
<1>1. TypeOK' /\ TreesSound'
  BY DEF IInv, TypeOK, TreesSound
<1>2. Announcement'
  BY DEF IInv, Announcement, Counted, RulesMutationCount, Announced
<1>3. InStage'
  BY DEF IInv, InStage, Counted, Announced
<1>4. Walk'
  BY DEF IInv, Walk, Counted, Left, Replacements, OtherRules
<1> QED BY <1>1, <1>2, <1>3, <1>4 DEF IInv

LEMMA NextInv ==
  ASSUME IInv, [Next]_vars
  PROVE  IInv'
<1>1. CASE \E e \in Entries : QueueGet(e)
  BY <1>1, QueueGetInv
<1>2. CASE FuzzCount
  BY <1>2, FuzzCountInv
<1>3. CASE Fuzz
  BY <1>3, FuzzInv
<1>4. CASE NotInteresting \/ QueueNewEntry
  BY <1>4, TargetInv
<1>5. CASE Finished \/ UNCHANGED vars
  BY <1>5, StutterInv DEF Finished
<1> QED BY <1>1, <1>2, <1>3, <1>4, <1>5 DEF Next, FuzzStep

-----------------------------------------------------------------------------
(* All variables always hold values of their types, trees that are trees   *)
(* among them.                                                             *)
THEOREM FuzzingTypeOK == Spec => []TypeOK
<1>1. IInv => TypeOK
  BY DEF IInv
<1> QED BY <1>1, InitInv, NextInv, PTL DEF Spec

(* No call that afl_custom_fuzz_count announced ends in a mutation error:  *)
(* the stage is one of the four, the rules walk is at a node of the tree   *)
(* with a rule that can replace its own, and the recursive mutation has an *)
(* edge.                                                                   *)
THEOREM MutationAlwaysPossible == Spec => []CandidateReady
<1>1. IInv => CandidateReady
  <2> SUFFICES ASSUME IInv, pc = "fuzz" PROVE CandidateReady
    BY DEF CandidateReady
  <2>1. /\ stage \in 0..3 /\ tree_cur \in Seq(Node)
        /\ stage = 0 => /\ rules_node \in 1..Len(tree_cur)
                        /\ rules_rule \in OtherRules(rules_node, 0)
        /\ stage = 2 => EdgeSet(tree_cur) # {}
    BY FuzzingFacts
  <2>2. stage = 0 => /\ rules_node \in DOMAIN tree_cur
                     /\ rules_rule \in DOMAIN Rules[tree_cur[rules_node].id]
                     /\ rules_rule # tree_cur[rules_node].rule
    BY <2>1, OtherRulesFacts
  <2> QED BY <2>1, <2>2 DEF CandidateReady
<1> QED BY <1>1, InitInv, NextInv, PTL DEF Spec

-----------------------------------------------------------------------------
(* What has been tried.  Up to the walk's position all replacements were   *)
(* tried, and none of what is left.                                        *)
TriedSoFar ==
  Counted => /\ tried \subseteq Replacements
             /\ stage = 0 => /\ Cardinality(tried) = step
                             /\ tried \cap Left(rules_node, rules_rule) = {}
             /\ stage > 0 => Cardinality(tried) = total[0]

LEMMA HistoryStep ==
  ASSUME [HNext]_hvars
  PROVE  /\ [Next]_vars
         /\ \/ FuzzCount /\ performed' = [k \in 0..3 |-> 0] /\ tried' = {}
            \/ Fuzz /\ performed' = [performed EXCEPT ![stage] = @ + 1]
                    /\ tried' = IF stage = 0 THEN tried \cup {<<rules_node, rules_rule>>} ELSE tried
            \/ /\ UNCHANGED <<performed, tried>>
               /\ \/ \E e \in Entries : QueueGet(e)
                  \/ NotInteresting \/ QueueNewEntry
                  \/ UNCHANGED vars
  BY DEF HNext, HFuzzStep, HFuzzCount, HFuzz, hvars, history, Next, FuzzStep, Finished

LEMMA HistoryInvariance == HSpec => []IInv
<1>1. HInit => Init
  BY DEF HInit
<1> QED BY <1>1, InitInv, NextInv, HistoryStep, PTL DEF HSpec

(* The four kinds of mutation work on the same tree and the same announced *)
(* steps, and leave the position to "update internal status".              *)
LEMMA FuzzMoves ==
  ASSUME Fuzz
  PROVE  /\ pc = "fuzz" /\ stage' = NextPosition[1] /\ step' = NextPosition[2]
         /\ stage' = 0 => /\ rules_node' = NextCandidate.node /\ rules_rule' = NextCandidate.rule
         /\ stage_cur' = stage_cur + 1
         /\ pc' \in {"target", "fuzz", "idle"}
         /\ pc' = "idle" => ~ (stage_cur' < stage_max)
         /\ UNCHANGED <<tree_cur, total, config, stage_max>>
<1>1. pc = "fuzz" /\ \E t : Fuzzed(t)
  BY DEF Fuzz, FuzzRules, FuzzRandom, FuzzRecursive, FuzzSplicing
<1>2. PICK t : Fuzzed(t)
  BY <1>1
<1> QED BY <1>1, <1>2 DEF Fuzzed, WalkTo

LEMMA TriedFuzz ==
  ASSUME IInv, TriedSoFar, Fuzz,
         tried' = IF stage = 0 THEN tried \cup {<<rules_node, rules_rule>>} ELSE tried
  PROVE  TriedSoFar'
<1>1. /\ pc = "fuzz" /\ stage' = NextPosition[1] /\ step' = NextPosition[2]
      /\ stage' = 0 => rules_node' = NextCandidate.node /\ rules_rule' = NextCandidate.rule
      /\ UNCHANGED <<tree_cur, total>>
  BY FuzzMoves
<1>2. /\ Counted /\ tree_cur \in Seq(Node) /\ total \in [0..3 -> Nat] /\ stage \in 0..3
      /\ step \in Nat
      /\ stage = 0 => rules_node \in 1..Len(tree_cur) /\ rules_rule \in OtherRules(rules_node, 0)
  BY <1>1, FuzzingFacts
<1>3. stage' \in stage..4 /\ (stage' # stage => step + 1 >= total[stage])
  BY <1>1, <1>2, NextPositionFacts
<1>4. Replacements' = Replacements
  BY <1>1 DEF Replacements, OtherRules
<1>5. CASE stage # 0
  <2>1. stage > 0 /\ stage' > 0 /\ stage' # 0
    <3>1. \A n \in stage..4 : stage > 0 /\ n > 0 /\ n # 0
      BY <1>2, <1>5
    <3> QED BY <1>3, <3>1, Zenon
  <2> QED BY <1>1, <1>2, <1>4, <1>5, <2>1 DEF TriedSoFar
<1>6. CASE stage = 0
  <2> DEFINE p == <<rules_node, rules_rule>>
             left == Left(rules_node, rules_rule)
  <2>1. /\ tried \subseteq Replacements /\ Cardinality(tried) = step /\ tried \cap left = {}
    BY <1>2, <1>6 DEF TriedSoFar
  <2>2. /\ p \in Replacements /\ p \in left
        /\ Left(rules_node, rules_rule + 1) = left \ {p}
    BY <1>2, <1>6, LeftAfter
  <2>3. IsFiniteSet(tried)
    <3>1. IsFiniteSet(Replacements)
      BY <1>2, ReplacementCount
    <3> QED BY <2>1, <3>1, FS_Subset
  <2>4. tried' = tried \cup {p}
    BY <1>6
  <2> HIDE DEF p, left
  <2>5. p \notin tried
    BY <2>1, <2>2
  <2>6. Cardinality(tried') = step + 1
    BY <2>1, <2>3, <2>4, <2>5, FS_AddElement
  <2>7. tried' \subseteq Replacements'
    BY <1>4, <2>1, <2>2, <2>4
  <2>8. CASE stage' = 0
    <3>1. step' = step + 1
          /\ Left(NextCandidate.node, NextCandidate.rule) = Left(rules_node, rules_rule + 1)
      BY <1>1, <1>6, <2>8, WalkGoesOn
    <3>2. Left(rules_node, rules_rule)' = Left(NextCandidate.node, NextCandidate.rule)
      BY <1>1, <2>8 DEF Left, Replacements, OtherRules
    <3>3. Left(rules_node, rules_rule)' = left \ {p}
      BY <2>2, <3>1, <3>2
    <3>4. tried' \cap (left \ {p}) = {}
      BY <2>1, <2>4
    <3> QED BY <2>6, <2>7, <2>8, <3>1, <3>3, <3>4 DEF TriedSoFar
  <2>9. CASE stage' # 0
    <3>1. step < total[0] /\ total[0] \in Nat
      BY <1>1, <1>2, <1>6 DEF IInv, InStage
    <3> DEFINE steps == total[0]
    <3>2. step + 1 >= steps /\ step < steps /\ steps \in Nat /\ step \in Nat
      BY <1>2, <1>3, <1>6, <2>9, <3>1, Zenon
    <3> HIDE DEF steps
    <3>3. step + 1 = steps
      BY <3>2
    <3> QED BY <1>1, <2>6, <2>7, <2>9, <3>3 DEF TriedSoFar, steps
  <2> QED BY <2>8, <2>9
<1> QED BY <1>5, <1>6

LEMMA TriedNext ==
  ASSUME IInv, TriedSoFar, [HNext]_hvars
  PROVE  TriedSoFar'
<1>1. ASSUME FuzzCount, tried' = {}
      PROVE  TriedSoFar'
  <2>1. step' = 0 /\ (stage' > 0 => total'[0] = 0)
    <3>1. total' = [k \in 0..3 |-> CASE k = 0 -> RulesMutationCount
                                    [] k = 2 -> IF EdgeSet(tree_cur) = {} THEN 0 ELSE config[2]
                                    [] OTHER -> config[k]]
      BY <1>1 DEF FuzzCount
    <3>2. total'[0] = RulesMutationCount /\ RulesMutationCount \in Nat
      BY <3>1, ReplacementCount DEF IInv, TypeOK
    <3>3. step' = 0 /\ (total'[0] > 0 => stage' = 0)
      BY <1>1 DEF FuzzCount
    <3> QED BY <3>2, <3>3
  <2>2. Cardinality({}) = 0
    BY FS_EmptySet
  <2> QED BY <1>1, <2>1, <2>2 DEF TriedSoFar
<1>2. ASSUME Fuzz, tried' = IF stage = 0 THEN tried \cup {<<rules_node, rules_rule>>} ELSE tried
      PROVE  TriedSoFar'
  BY <1>2, TriedFuzz
<1>3. ASSUME NEW e \in Entries, QueueGet(e)
      PROVE  TriedSoFar'
  BY <1>3 DEF QueueGet, TriedSoFar, Counted
<1>4. ASSUME UNCHANGED tried, NotInteresting \/ QueueNewEntry \/ UNCHANGED vars
      PROVE  TriedSoFar'
  <2>1. /\ UNCHANGED <<tree_cur, rules_node, rules_rule, stage, step, total, tried>>
        /\ Counted' => Counted
    BY <1>4 DEF NotInteresting, QueueNewEntry, vars, walkVars, aflVars, Counted
  <2> QED BY <2>1 DEF TriedSoFar, Replacements, Left, OtherRules
<1> QED BY <1>1, <1>2, <1>3, <1>4, HistoryStep

LEMMA TriedInvariance == HSpec => [](IInv /\ TriedSoFar)
<1>1. HInit => TriedSoFar
  BY DEF HInit, Init, TriedSoFar, Counted
<1> QED BY <1>1, TriedNext, HistoryInvariance, PTL DEF HSpec

(* The rules walk never comes back to a replacement it has tried.          *)
THEOREM NoReplacementTriedTwice == HSpec => []RulesTriedOnce
<1>1. IInv /\ TriedSoFar => RulesTriedOnce
  <2> SUFFICES ASSUME IInv, TriedSoFar, pc = "fuzz", stage = 0
               PROVE  <<rules_node, rules_rule>> \notin tried
    BY DEF RulesTriedOnce
  <2>1. /\ Counted /\ tree_cur \in Seq(Node) /\ rules_node \in 1..Len(tree_cur)
        /\ rules_rule \in OtherRules(rules_node, 0)
    BY FuzzingFacts
  <2>2. <<rules_node, rules_rule>> \in Left(rules_node, rules_rule)
    BY <2>1, LeftAfter
  <2> QED BY <2>1, <2>2 DEF TriedSoFar
<1> QED BY <1>1, TriedInvariance, PTL

(* When the rules stage is over it has tried as many replacements as       *)
(* rules_mutation_count announced, and in a tree without parse errors all. *)
THEOREM RulesStageTriesAll == HSpec => []RulesStageComplete
<1>1. IInv /\ TriedSoFar => RulesStageComplete
  <2> SUFFICES ASSUME IInv, TriedSoFar, pc \in {"fuzz", "target", "idle"}, stage > 0,
                      tree_cur # <<>>
               PROVE  /\ tried \subseteq Replacements
                      /\ Cardinality(tried) = total[0]
                      /\ (\A i \in DOMAIN tree_cur : tree_cur[i].rule # NoRule)
                           => tried = Replacements
    BY DEF RulesStageComplete
  <2>1. Counted /\ tree_cur \in Seq(Node) /\ total[0] = RulesMutationCount
    BY DEF Counted, IInv, TypeOK, Announcement
  <2>2. tried \subseteq Replacements /\ Cardinality(tried) = total[0]
    BY <2>1 DEF TriedSoFar
  <2>3. /\ IsFiniteSet(Replacements)
        /\ (\A i \in DOMAIN tree_cur : tree_cur[i].rule # NoRule)
             => Cardinality(Replacements) = RulesMutationCount
    BY <2>1, ReplacementCount
  <2>4. Cardinality(Replacements) = Cardinality(tried) => Replacements = tried
    BY <2>2, <2>3, FS_Subset
  <2> QED BY <2>1, <2>2, <2>3, <2>4
<1> QED BY <1>1, TriedInvariance, PTL

-----------------------------------------------------------------------------
(* The schedule.  When there is a random step to make, the hooks and the   *)
(* calls keep pace: all stages before this one are done, this one up to    *)
(* its step, and nothing of those after it.                                *)
Keeping ==
  /\ config[1] > 0
  /\ performed \in [0..3 -> Nat]
  /\ pc \in {"idle", "count"} => performed = total
  /\ Counted =>
       /\ performed = [k \in 0..3 |-> IF k < stage THEN total[k]
                                      ELSE IF k = stage THEN step ELSE 0]
       /\ Announced(stage) + step = stage_cur
       /\ stage < 4 => step < total[stage]

LEMMA AnnouncedNat ==
  ASSUME total \in [0..3 -> Nat]
  PROVE  /\ \A k \in 0..4 : Announced(k) \in Nat
         /\ \A k \in 0..3 : Announced(k+1) = Announced(k) + total[k]
         /\ \A k \in 0..4 : Announced(k) <= Announced(4)
<1>1. total[0] \in Nat /\ total[1] \in Nat /\ total[2] \in Nat /\ total[3] \in Nat
  OBVIOUS
<1>2. \A k \in 0..4 : Announced(k) \in Nat
  BY <1>1 DEF Announced
<1>3. /\ Announced(0) = 0 /\ Announced(1) = total[0] /\ Announced(2) = total[0] + total[1]
      /\ Announced(3) = total[0] + total[1] + total[2]
      /\ Announced(4) = total[0] + total[1] + total[2] + total[3]
  BY <1>1 DEF Announced
<1>4. ASSUME NEW k \in 0..3 PROVE Announced(k+1) = Announced(k) + total[k]
  <2>1. k = 0 \/ k = 1 \/ k = 2 \/ k = 3
    OBVIOUS
  <2> QED BY <1>1, <1>3, <2>1
<1>5. \A k \in 0..4 : Announced(k) <= Announced(4)
  BY <1>1, <1>3
<1> QED BY <1>2, <1>4, <1>5

(* A step that ends a stage is the stage's last, and the stages passed     *)
(* over have none: the count of announced mutations arrives where the      *)
(* count of calls does.                                                    *)
LEMMA NextPositionExact ==
  ASSUME total \in [0..3 -> Nat], stage \in 0..3, step \in Nat, step < total[stage]
  PROVE  /\ Announced(NextPosition[1]) + NextPosition[2] = Announced(stage) + step + 1
         /\ \A k \in 0..3 : [j \in 0..3 |-> IF j < NextPosition[1] THEN total[j]
                                ELSE IF j = NextPosition[1] THEN NextPosition[2] ELSE 0][k] =
                            IF k < stage THEN total[k] ELSE IF k = stage THEN step + 1 ELSE 0
<1> DEFINE p == NextPosition[1]
           q == NextPosition[2]
<1>1. /\ p \in stage..4 /\ q \in Nat
      /\ p = stage => q = step + 1
      /\ p # stage => q = 0 /\ step + 1 >= total[stage]
      /\ \A k \in (stage+1)..(p-1) : total[k] = 0
  BY NextPositionFacts
<1> HIDE DEF p, q
<1>2. total[stage] \in Nat /\ \A k \in 0..3 : total[k] \in Nat
  OBVIOUS
<1>3. p # stage => step + 1 = total[stage]
  BY <1>1, <1>2
<1>4. Announced(p) + q = Announced(stage) + step + 1
  <2>1. CASE p = stage
    <3>1. Announced(stage) \in Nat
      BY AnnouncedNat
    <3> QED BY <1>1, <2>1, <3>1
  <2>2. CASE p # stage
    <3>1. /\ Announced(0) = 0 /\ Announced(1) = total[0] /\ Announced(2) = total[0] + total[1]
          /\ Announced(3) = total[0] + total[1] + total[2]
          /\ Announced(4) = total[0] + total[1] + total[2] + total[3]
      BY <1>2 DEF Announced
    <3>2. stage = 0 \/ stage = 1 \/ stage = 2 \/ stage = 3
      OBVIOUS
    <3>3. p = 1 \/ p = 2 \/ p = 3 \/ p = 4
      BY <1>1, <2>2, <3>2
    <3>4. p > stage
      BY <1>1, <2>2
    <3>5. \A k \in 0..3 : stage < k /\ k < p => total[k] = 0
      BY <1>1, <3>3
    <3>6. Announced(p) = Announced(stage) + total[stage]
      BY <1>2, <3>1, <3>2, <3>3, <3>4, <3>5
    <3>7. Announced(stage) \in Nat /\ q = 0
      BY <1>1, <2>2, AnnouncedNat
    <3> QED BY <1>2, <1>3, <2>2, <3>6, <3>7
  <2> QED BY <2>1, <2>2
<1>5. ASSUME NEW k \in 0..3
      PROVE  (IF k < p THEN total[k] ELSE IF k = p THEN q ELSE 0) =
             (IF k < stage THEN total[k] ELSE IF k = stage THEN step + 1 ELSE 0)
  <2>1. CASE k < stage
    BY <1>1, <2>1
  <2>2. CASE k = stage
    BY <1>1, <1>2, <1>3, <2>2
  <2>3. CASE k > stage /\ k < p
    BY <1>1, <2>3
  <2>4. CASE k > stage /\ k >= p
    BY <1>1, <2>4
  <2> QED BY <1>1, <2>1, <2>2, <2>3, <2>4
<1> QED BY <1>4, <1>5 DEF p, q

(* When all calls are made all stages are over.                            *)
LEMMA AllCallsMade ==
  ASSUME total \in [0..3 -> Nat], NEW s \in 0..4, NEW q \in Nat, s < 4 => q < total[s],
         ~ (Announced(s) + q < Announced(4))
  PROVE  s = 4
<1> SUFFICES ASSUME s # 4 PROVE FALSE
  OBVIOUS
<1>1. s \in 0..3 /\ q < total[s] /\ total[s] \in Nat
  OBVIOUS
<1>2. /\ Announced(s+1) = Announced(s) + total[s] /\ Announced(s) \in Nat
      /\ Announced(4) \in Nat /\ Announced(s+1) <= Announced(4)
  BY <1>1, AnnouncedNat
<1> QED BY <1>1, <1>2

LEMMA KeepingFuzz ==
  ASSUME IInv, Keeping, Fuzz, performed' = [performed EXCEPT ![stage] = @ + 1]
  PROVE  /\ Keeping'
         /\ stage \in 0..3 /\ performed[stage] < total[stage]
         /\ \A j \in 0..(stage-1) : performed[j] = total[j]
         /\ UNCHANGED total
<1>1. /\ pc = "fuzz" /\ stage' = NextPosition[1] /\ step' = NextPosition[2]
      /\ stage_cur' = stage_cur + 1
      /\ pc' \in {"target", "fuzz", "idle"}
      /\ pc' = "idle" => ~ (stage_cur' < stage_max)
      /\ UNCHANGED <<tree_cur, total, config, stage_max>>
  BY FuzzMoves
<1>2. /\ Counted /\ total \in [0..3 -> Nat] /\ stage \in 0..3 /\ step \in Nat
      /\ stage_cur \in Nat
  BY <1>1, FuzzingFacts
<1>3. /\ config[1] > 0 /\ Announced(stage) + step = stage_cur /\ step < total[stage]
      /\ performed = [k \in 0..3 |-> IF k < stage THEN total[k]
                                     ELSE IF k = stage THEN step ELSE 0]
  BY <1>2 DEF Keeping
<1>4. stage_max = Announced(4)
  BY <1>2 DEF IInv, Announcement
<1> DEFINE p == NextPosition[1]
           q == NextPosition[2]
           after == [k \in 0..3 |-> IF k < p THEN total[k] ELSE IF k = p THEN q ELSE 0]
<1>5. /\ p \in 0..4 /\ q \in Nat /\ (p < 4 => q < total[p])
  <2>1. p \in stage..4 /\ q \in Nat /\ (p < 4 => q < total[p])
    BY <1>2, NextPositionFacts
  <2> HIDE DEF p, q
  <2> QED BY <1>2, <2>1
<1>6. /\ Announced(p) + q = Announced(stage) + step + 1
      /\ \A k \in 0..3 : after[k] = IF k < stage THEN total[k]
                                    ELSE IF k = stage THEN step + 1 ELSE 0
  BY <1>2, <1>3, NextPositionExact
<1>7. performed' = after
  <2>1. \A k \in 0..3 : performed'[k] = IF k < stage THEN total[k]
                                        ELSE IF k = stage THEN step + 1 ELSE 0
    <3> TAKE k \in 0..3
    <3>1. performed'[k] = IF k = stage THEN performed[k] + 1 ELSE performed[k]
      BY <1>3
    <3> QED BY <1>2, <1>3, <3>1
  <2>2. performed' = [k \in 0..3 |-> performed'[k]]
    BY <1>3
  <2> HIDE DEF after
  <2>3. \A k \in 0..3 : performed'[k] = after[k]
    BY <1>6, <2>1
  <2> USE DEF after
  <2> HIDE DEF p, q
  <2> QED BY <2>2, <2>3
<1> HIDE DEF p, q
<1>8. after \in [0..3 -> Nat]
  BY <1>2, <1>5
<1>9. stage' = p /\ step' = q
  BY <1>1 DEF p, q
<1>10. Announced(stage)' + step' = stage_cur'
  <2>1. Announced(stage)' = Announced(p)
    BY <1>1 DEF Announced, p
  <2> QED BY <1>1, <1>3, <1>6, <1>9, <2>1
<1>11. ASSUME pc' = "idle" PROVE after = total
  <2>1. ~ (Announced(p) + q < Announced(4))
    BY <1>1, <1>3, <1>4, <1>6, <1>11
  <2>2. p = 4
    BY <1>2, <1>5, <2>1, AllCallsMade
  <2> QED BY <1>2, <2>2
<1>12. Keeping'
  <2>1. config'[1] > 0 /\ performed' \in [0..3 -> Nat]
    BY <1>1, <1>3, <1>7, <1>8
  <2>2. pc' \in {"idle", "count"} => performed' = total'
    BY <1>1, <1>7, <1>11
  <2>3. performed' = [k \in 0..3 |-> IF k < stage' THEN total'[k]
                                     ELSE IF k = stage' THEN step' ELSE 0]
    BY <1>1, <1>7, <1>9
  <2>4. stage' < 4 => step' < total'[stage']
    BY <1>1, <1>5, <1>9
  <2> HIDE DEF after
  <2> QED BY <1>10, <2>1, <2>2, <2>3, <2>4 DEF Keeping
<1>13. performed[stage] < total[stage] /\ \A j \in 0..(stage-1) : performed[j] = total[j]
  BY <1>2, <1>3
<1> QED BY <1>1, <1>2, <1>12, <1>13

LEMMA KeepingCount ==
  ASSUME IInv, Keeping, FuzzCount, performed' = [k \in 0..3 |-> 0]
  PROVE  Keeping' /\ total' \in [0..3 -> Nat] /\ performed = total
<1>1. total' \in [0..3 -> Nat] /\ stage' \in 0..4
  BY FuzzCountInv DEF IInv, TypeOK
<1>2. /\ pc = "count" /\ step' = 0 /\ stage_cur' = 0 /\ config' = config
      /\ total' = [k \in 0..3 |-> CASE k = 0 -> RulesMutationCount
                                    [] k = 2 -> IF EdgeSet(tree_cur) = {} THEN 0 ELSE config[2]
                                    [] OTHER -> config[k]]
      /\ stage_max' = total'[0] + total'[1] + total'[2] + total'[3]
      /\ pc' = IF stage_max' > 0 THEN "fuzz" ELSE "idle"
      /\ IF total'[0] > 0 THEN stage' = 0 ELSE stage' = 1
  BY DEF FuzzCount
<1>3. config[1] > 0 /\ performed = total
  BY <1>2 DEF Keeping
<1>4. total'[1] = config[1]
  BY <1>2
<1>5. total'[0] \in Nat /\ total'[1] \in Nat /\ total'[2] \in Nat /\ total'[3] \in Nat
  BY <1>1
<1>6. pc' = "fuzz"
  BY <1>2, <1>3, <1>4, <1>5
<1>7. performed' \in [0..3 -> Nat]
  OBVIOUS
<1>8. /\ performed' = [k \in 0..3 |-> IF k < stage' THEN total'[k]
                                     ELSE IF k = stage' THEN step' ELSE 0]
      /\ Announced(stage)' + step' = stage_cur'
      /\ stage' < 4 => step' < total'[stage']
  <2>1. CASE total'[0] > 0
    <3>1. stage' = 0 /\ step' = 0 /\ stage_cur' = 0
      BY <1>2, <2>1
    <3> HIDE DEF RulesMutationCount
    <3> QED BY <1>5, <2>1, <3>1 DEF Announced
  <2>2. CASE ~ (total'[0] > 0)
    <3>1. stage' = 1 /\ step' = 0 /\ stage_cur' = 0 /\ total'[0] = 0
      BY <1>2, <1>5, <2>2
    <3>2. step' < total'[stage']
      BY <1>3, <1>4, <3>1
    <3>3. \A k \in 0..3 : (IF k < 1 THEN total'[k] ELSE IF k = 1 THEN 0 ELSE 0) = 0
      BY <3>1
    <3>4. performed' = [k \in 0..3 |-> IF k < stage' THEN total'[k]
                                       ELSE IF k = stage' THEN step' ELSE 0]
      BY <3>1, <3>3
    <3>5. Announced(stage)' + step' = stage_cur'
      BY <3>1 DEF Announced
    <3> QED BY <3>2, <3>4, <3>5
  <2> QED BY <2>1, <2>2
<1> QED BY <1>1, <1>2, <1>3, <1>6, <1>7, <1>8 DEF Keeping

LEMMA KeepingNext ==
  ASSUME IInv, Keeping, [HNext]_hvars
  PROVE  Keeping' /\ [Schedule!Announce \/ Schedule!Mutate]_(Schedule!sched)
<1> USE DEF Schedule!Nothing, Schedule!Kinds
<1>1. ASSUME FuzzCount, performed' = [k \in 0..3 |-> 0]
      PROVE  Keeping' /\ Schedule!Announce
  BY <1>1, KeepingCount DEF Schedule!Announce
<1>2. ASSUME Fuzz, performed' = [performed EXCEPT ![stage] = @ + 1]
      PROVE  Keeping' /\ Schedule!Mutate
  <2>1. /\ Keeping' /\ stage \in 0..3 /\ performed[stage] < total[stage]
        /\ \A j \in 0..(stage-1) : performed[j] = total[j]
        /\ UNCHANGED total
    BY <1>2, KeepingFuzz
  <2>2. Schedule!Perform(stage)
    BY <1>2, <2>1 DEF Schedule!Perform
  <2> QED BY <2>1, <2>2 DEF Schedule!Mutate
<1>3. ASSUME UNCHANGED <<performed, tried>>, NEW e \in Entries, QueueGet(e)
      PROVE  Keeping' /\ UNCHANGED Schedule!sched
  BY <1>3 DEF QueueGet, Keeping, Counted, Schedule!sched
<1>4. ASSUME UNCHANGED <<performed, tried>>, NotInteresting \/ QueueNewEntry
      PROVE  Keeping' /\ UNCHANGED Schedule!sched
  <2>1. /\ pc = "target" /\ pc' = NextCall
        /\ UNCHANGED <<tree_cur, stage, step, total, config, stage_cur, stage_max>>
    BY <1>4 DEF NotInteresting, QueueNewEntry
  <2>2. Counted /\ TypeOK /\ stage_max = Announced(4)
    BY <2>1 DEF IInv, Counted, TreesSound, Announcement
  <2>3. /\ config[1] > 0 /\ performed \in [0..3 -> Nat]
        /\ performed = [k \in 0..3 |-> IF k < stage THEN total[k]
                                       ELSE IF k = stage THEN step ELSE 0]
        /\ Announced(stage) + step = stage_cur
        /\ stage < 4 => step < total[stage]
    BY <2>2 DEF Keeping
  <2>4. ASSUME pc' \in {"idle", "count"} PROVE performed = total
    <3>1. total \in [0..3 -> Nat] /\ stage \in 0..4 /\ step \in Nat
      BY <2>2 DEF TypeOK
    <3>2. ~ (stage_cur < stage_max)
      BY <2>1, <2>4 DEF NextCall
    <3>3. stage = 4
      BY <2>2, <2>3, <3>1, <3>2, AllCallsMade
    <3> QED BY <2>3, <3>1, <3>3
  <2>5. Announced(stage)' = Announced(stage)
    BY <2>1 DEF Announced
  <2>6. Keeping'
    BY <1>4, <2>1, <2>3, <2>4, <2>5 DEF Keeping
  <2> QED BY <1>4, <2>1, <2>6 DEF Schedule!sched
<1>5. ASSUME UNCHANGED <<performed, tried>>, UNCHANGED vars
      PROVE  Keeping' /\ UNCHANGED Schedule!sched
  BY <1>5 DEF vars, aflVars, Keeping, Counted, Announced, Schedule!sched
<1> QED BY <1>1, <1>2, <1>3, <1>4, <1>5, HistoryStep

(* Set to make random mutations, the hooks make exactly the mutations they *)
(* announce, kind after kind, before the next test case is announced.      *)
(* (Set to make none they do not: see RandomStepsHonoured.)                *)
THEOREM ScheduleIsKept ==
  ASSUME 0 \notin RandomChoices
  PROVE  HSpec => Schedule!Steps
<1>1. HInit => Keeping /\ Schedule!Init
  <2> SUFFICES ASSUME HInit PROVE Keeping /\ Schedule!Init
    OBVIOUS
  <2>1. config[1] > 0
    <3>1. PICK a \in RandomChoices, b \in RecursiveChoices, c \in SplicingChoices :
            config = <<a, b, c>>
      BY DEF HInit, Init
    <3>2. a \in Nat /\ a # 0
      BY SettingsAssumption
    <3> QED BY <3>1, <3>2
  <2>2. ~Counted /\ performed = [k \in 0..3 |-> 0] /\ total = [k \in 0..3 |-> 0]
    BY DEF HInit, Init, Counted
  <2>3. performed \in [0..3 -> Nat]
    BY <2>2
  <2> QED BY <2>1, <2>2, <2>3 DEF Keeping, Schedule!Init, Schedule!Nothing, Schedule!Kinds
<1>2. HSpec => [](IInv /\ Keeping)
  BY <1>1, KeepingNext, HistoryInvariance, PTL DEF HSpec
<1>3. IInv /\ Keeping /\ [HNext]_hvars => [Schedule!Announce \/ Schedule!Mutate]_(Schedule!sched)
  BY KeepingNext
<1> QED BY <1>1, <1>2, <1>3, PTL DEF HSpec, Schedule!Steps

-----------------------------------------------------------------------------
(* The children of node p of t are those of node q of u, as far as their   *)
(* symbols go: f says where they are.                                      *)
KeepsChildren(t, p, u, q, f) ==
  /\ f \in [Children(t, p) -> Children(u, q)]
  /\ \A y \in Children(u, q) : \E x \in Children(t, p) : f[x] = y
  /\ \A a, b \in Children(t, p) : a < b => f[a] < f[b]
  /\ \A c \in Children(t, p) : u[f[c]].id = t[c].id

LEMMA SameChildIds ==
  ASSUME NEW t, NEW u, Len(t) \in Nat, Len(u) \in Nat, NEW p \in Nat, NEW q \in Nat,
         NEW f, KeepsChildren(t, p, u, q, f)
  PROVE  ChildIds(t, p) = ChildIds(u, q)
<1> DEFINE S == Children(t, p)
           T == Children(u, q)
           n == Cardinality(S)
<1>0. /\ f \in [S -> T] /\ \A y \in T : \E x \in S : f[x] = y
      /\ \A a, b \in S : a < b => f[a] < f[b]
      /\ \A c \in S : u[f[c]].id = t[c].id
  BY DEF KeepsChildren
<1>1. S \in SUBSET Nat /\ IsFiniteSet(S) /\ T \in SUBSET Nat
  BY ChildrenFinite
<1>2. /\ Cardinality(T) = n
      /\ \A k \in 1..n : Ascending(T)[k] = f[Ascending(S)[k]]
  <2> HIDE DEF S, T
  <2> QED BY <1>0, <1>1, AscendingMoved DEF n
<1>3. \A k \in 1..n : Ascending(S)[k] \in S
  BY <1>1, AscendingMembers
<1>4. DOMAIN Ascending(S) = 1..n /\ DOMAIN Ascending(T) = 1..n
  BY <1>2 DEF Ascending
<1>5. \A k \in 1..n : u[Ascending(T)[k]].id = t[Ascending(S)[k]].id
  <2> HIDE DEF S, T, n
  <2> QED BY <1>0, <1>2, <1>3
<1>6. /\ ChildIds(t, p) = [k \in 1..n |-> t[Ascending(S)[k]].id]
      /\ ChildIds(u, q) = [k \in 1..n |-> u[Ascending(T)[k]].id]
  BY <1>4 DEF ChildIds
<1> HIDE DEF S, T, n
<1> QED BY <1>5, <1>6

(* A tree keeps its shapes as part of another.                             *)
LEMMA HeldShapes ==
  ASSUME NEW t \in Seq(Node), NEW m \in Seq(Node), NEW i \in Nat, Holds(t, i, m),
         \A k \in 1..Len(m) : t[(i-1)+k].id = m[k].id /\ t[(i-1)+k].rule = m[k].rule,
         NEW p \in 1..Len(m)
  PROVE  (i-1)+p \in 1..Len(t) /\ Shape(t, (i-1)+p) = Shape(m, p)
<1> DEFINE d == i-1
           S == Children(m, p)
           T == Children(t, d+p)
           f == [c \in S |-> d+c]
<1>1. /\ Len(t) \in Nat /\ Len(m) \in Nat
      /\ \A k \in 1..Len(t) : t[k].depth \in Nat
      /\ \A k \in 1..Len(m) : m[k].depth \in Nat
  BY FuzzNodes, TreeTyping
<1>2. i \in 1..Len(t) /\ d + Len(m) <= Len(t) /\ d \in Nat
  BY DEF Holds
<1>3. \A c \in Nat : c \in S <=> d+c \in T
  BY <1>1, ChildrenInside
<1>4. p \in Nat /\ p >= 1 /\ d+p \in Nat /\ d+p \in 1..Len(t)
  BY <1>1, <1>2
<1>5. /\ S \in SUBSET Nat /\ \A c \in S : c \in (p+1)..Len(m)
      /\ T \in SUBSET Nat /\ \A c \in T : c \in (d+p+1)..Len(t)
  BY <1>1, <1>4, ChildrenFinite
<1> HIDE DEF d, S, T
<1>6. f \in [S -> T]
  BY <1>3, <1>5
<1>7. ASSUME NEW y \in T PROVE \E x \in S : f[x] = y
  <2>1. y-d \in Nat /\ d+(y-d) = y
    BY <1>1, <1>2, <1>4, <1>5
  <2>2. y-d \in S
    BY <1>3, <2>1
  <2> QED BY <2>1, <2>2
<1>8. \A a, b \in S : a < b => f[a] < f[b]
  BY <1>2, <1>5
<1>9. \A c \in S : t[f[c]].id = m[c].id
  <2>1. \A c \in S : c \in 1..Len(m)
    BY <1>1, <1>4, <1>5
  <2> QED BY <2>1 DEF d
<1> HIDE DEF f
<1>10. ChildIds(m, p) = ChildIds(t, d+p)
  <2>1. \A y \in T : \E x \in S : f[x] = y
    BY <1>7
  <2>2. KeepsChildren(m, p, t, d+p, f)
    BY <1>6, <1>8, <1>9, <2>1 DEF KeepsChildren, S, T
  <2> QED BY <1>1, <1>4, <2>2, SameChildIds
<1>11. t[d+p].id = m[p].id /\ t[d+p].rule = m[p].rule
  BY DEF d
<1> QED BY <1>4, <1>10, <1>11 DEF Shape, d

(* So do the nodes of a tree that are outside a replaced part.             *)
SameOutside(t, e, u, l, i) ==
  /\ AlikeOutside(t, e, u, l, i)
  /\ \A k \in 1..i : u[k].id = t[k].id
  /\ \A k \in 1..(i-1) : u[k].rule = t[k].rule
  /\ \A k \in 1..(Len(t) - e) : u[l+k].id = t[e+k].id /\ u[l+k].rule = t[e+k].rule

LEMMA ShapesBefore ==
  ASSUME NEW t \in Seq(Node), NEW u \in Seq(Node),
         NEW e \in Nat, NEW l \in Nat, NEW i \in Nat, SameOutside(t, e, u, l, i),
         NEW p \in 1..(i-1)
  PROVE  p \in 1..Len(t) /\ Shape(u, p) = Shape(t, p)
<1> DEFINE S == Children(t, p)
           T == Children(u, p)
           f == [c \in S |-> IF c <= i THEN c ELSE c-e+l]
<1>1. /\ Len(t) \in Nat /\ Len(u) \in Nat
      /\ \A k \in 1..Len(t) : t[k].depth \in Nat
      /\ \A k \in 1..Len(u) : u[k].depth \in Nat
  BY FuzzNodes, TreeTyping
<1>0. /\ AlikeOutside(t, e, u, l, i)
      /\ \A k \in 1..i : u[k].id = t[k].id
      /\ \A k \in 1..(i-1) : u[k].rule = t[k].rule
      /\ \A k \in 1..(Len(t) - e) : u[l+k].id = t[e+k].id
  BY DEF SameOutside
<1>2. i >= 1 /\ i <= e /\ e <= Len(t) /\ i <= l /\ l <= Len(u) /\ Len(t) - e = Len(u) - l
  BY <1>0 DEF AlikeOutside
<1>3. p \in Nat /\ p >= 1 /\ p < i /\ p \in 1..Len(t)
  BY <1>1, <1>2
<1>4. /\ S \in SUBSET Nat /\ \A c \in S : c \in (p+1)..Len(t)
      /\ T \in SUBSET Nat /\ \A c \in T : c \in (p+1)..Len(u)
  BY <1>1, <1>3, ChildrenFinite
<1>5. \A c \in S : (c <= i /\ c \in T) \/ (c > e /\ c-e+l \in T)
  BY <1>0, <1>1, ChildrenBefore
<1>6. \A c \in T : (c <= i /\ c \in S) \/ (c > l /\ c-l+e \in S)
  <2>1. AlikeOutside(u, l, t, e, i)
    BY <1>0, <1>1, AlikeSymmetric
  <2> QED BY <1>1, <2>1, ChildrenBefore
<1> HIDE DEF S, T
<1>7. \A c \in S :
        /\ c \in Nat /\ f[c] \in T
        /\ c <= i => f[c] = c
        /\ ~ (c <= i) => c > e /\ f[c] = c-e+l
  BY <1>2, <1>4, <1>5
<1>8. f \in [S -> T]
  BY <1>7
<1> HIDE DEF f
<1>9. ASSUME NEW y \in T PROVE \E x \in S : f[x] = y
  <2>1. CASE y <= i /\ y \in S
    BY <1>7, <2>1
  <2>2. CASE y > l /\ y-l+e \in S
    <3>1. y \in Nat /\ ~ (y-l+e <= i) /\ (y-l+e)-e+l = y
      BY <1>2, <1>4, <2>2
    <3> QED BY <1>7, <2>2, <3>1
  <2> QED BY <1>6, <2>1, <2>2
<1>10. ASSUME NEW a \in S, NEW b \in S, a < b PROVE f[a] < f[b]
  <2>1. a \in Nat /\ b \in Nat
    BY <1>7
  <2>2. CASE b <= i
    BY <1>7, <1>10, <2>1, <2>2
  <2>3. CASE a <= i /\ ~ (b <= i)
    BY <1>2, <1>7, <2>1, <2>3
  <2>4. CASE ~ (a <= i) /\ ~ (b <= i)
    BY <1>2, <1>7, <1>10, <2>1, <2>4
  <2> QED BY <1>10, <2>1, <2>2, <2>3, <2>4
<1>11. ASSUME NEW c \in S PROVE u[f[c]].id = t[c].id
  <2>1. c \in (p+1)..Len(t) /\ c \in Nat
    BY <1>4
  <2>2. CASE c <= i
    <3>1. c \in 1..i
      BY <1>3, <2>1, <2>2
    <3> QED BY <1>0, <1>7, <2>2, <3>1
  <2>3. CASE ~ (c <= i)
    <3> DEFINE k == c-e
    <3>1. k \in 1..(Len(t) - e) /\ e+k = c /\ f[c] = l+k
      BY <1>1, <1>2, <1>7, <2>1, <2>3
    <3> HIDE DEF k
    <3>2. u[l+k].id = t[e+k].id
      BY <1>0, <3>1
    <3> QED BY <3>1, <3>2
  <2> QED BY <2>2, <2>3
<1>12. ChildIds(t, p) = ChildIds(u, p)
  <2>1. \A y \in T : \E x \in S : f[x] = y
    BY <1>9
  <2>2. \A a, b \in S : a < b => f[a] < f[b]
    BY <1>10
  <2>3. \A c \in S : u[f[c]].id = t[c].id
    BY <1>11
  <2>4. KeepsChildren(t, p, u, p, f)
    BY <1>8, <2>1, <2>2, <2>3 DEF KeepsChildren, S, T
  <2> QED BY <1>1, <1>3, <2>4, SameChildIds
<1>13. p \in 1..i
  BY <1>3
<1> QED BY <1>0, <1>3, <1>12, <1>13 DEF Shape

LEMMA ShapesAfter ==
  ASSUME NEW t \in Seq(Node), NEW u \in Seq(Node),
         NEW e \in Nat, NEW l \in Nat, NEW i \in Nat, SameOutside(t, e, u, l, i),
         NEW p \in 1..(Len(t) - e)
  PROVE  e+p \in 1..Len(t) /\ Shape(u, l+p) = Shape(t, e+p)
<1> DEFINE S == Children(t, e+p)
           T == Children(u, l+p)
           f == [c \in S |-> c-e+l]
<1>1. Len(t) \in Nat /\ Len(u) \in Nat
  BY FuzzNodes, TreeTyping
<1>0. /\ AlikeOutside(t, e, u, l, i)
      /\ \A k \in 1..(Len(t) - e) : u[l+k].id = t[e+k].id /\ u[l+k].rule = t[e+k].rule
  BY DEF SameOutside
<1>2. i >= 1 /\ i <= e /\ e <= Len(t) /\ i <= l /\ l <= Len(u) /\ Len(t) - e = Len(u) - l
  BY <1>0 DEF AlikeOutside
<1>3. p \in Nat /\ p >= 1 /\ e+p \in 1..Len(t) /\ e+p \in Nat /\ l+p \in Nat
  BY <1>1, <1>2
<1>4. /\ S \in SUBSET Nat /\ \A c \in S : c \in (e+p+1)..Len(t)
      /\ T \in SUBSET Nat /\ \A c \in T : c \in (l+p+1)..Len(u)
  BY <1>1, <1>3, ChildrenFinite
<1>5. \A c \in Nat : e+c \in S <=> l+c \in T
  BY <1>0, <1>1, ChildrenAfter
<1> HIDE DEF S, T
<1>6. \A c \in S : c \in Nat /\ c-e \in 1..(Len(t) - e) /\ e+(c-e) = c /\ l+(c-e) = c-e+l
  BY <1>1, <1>2, <1>3, <1>4
<1>7. ASSUME NEW c \in S PROVE c-e+l \in T
  <2> DEFINE k == c-e
  <2>1. k \in Nat /\ e+k = c /\ l+k = c-e+l
    BY <1>6
  <2> HIDE DEF k
  <2>2. l+k \in T
    BY <1>5, <2>1
  <2> QED BY <2>1, <2>2
<1>8. f \in [S -> T]
  BY <1>7
<1>9. ASSUME NEW y \in T PROVE \E x \in S : f[x] = y
  <2>1. y \in Nat /\ y-l \in Nat /\ l+(y-l) = y /\ (e+(y-l))-e+l = y
    BY <1>1, <1>2, <1>3, <1>4
  <2>2. e+(y-l) \in S
    BY <1>5, <2>1
  <2> QED BY <2>1, <2>2
<1>10. ASSUME NEW a \in S, NEW b \in S, a < b PROVE f[a] < f[b]
  <2>1. a \in Nat /\ b \in Nat
    BY <1>6
  <2> QED BY <1>10, <2>1
<1>11. ASSUME NEW c \in S PROVE u[f[c]].id = t[c].id
  <2> DEFINE k == c-e
  <2>1. k \in 1..(Len(t) - e) /\ e+k = c /\ f[c] = l+k
    BY <1>6
  <2> HIDE DEF k, f
  <2>2. u[l+k].id = t[e+k].id
    BY <1>0, <2>1
  <2> QED BY <2>1, <2>2
<1> HIDE DEF f
<1>12. ChildIds(t, e+p) = ChildIds(u, l+p)
  <2>1. \A y \in T : \E x \in S : f[x] = y
    BY <1>9
  <2>2. \A a, b \in S : a < b => f[a] < f[b]
    BY <1>10
  <2>3. \A c \in S : u[f[c]].id = t[c].id
    BY <1>11
  <2>4. KeepsChildren(t, e+p, u, l+p, f)
    BY <1>8, <2>1, <2>2, <2>3 DEF KeepsChildren, S, T
  <2> QED BY <1>1, <1>3, <2>4, SameChildIds
<1> QED BY <1>0, <1>3, <1>12 DEF Shape

(* A subtree has only shapes of the tree.                                  *)
LEMMA SubtreeShapes ==
  ASSUME NEW t \in FuzzTree, NEW i \in 1..Len(t)
  PROVE  Shapes(Subtree(t, i)) \subseteq Shapes(t)
<1> DEFINE m == Subtree(t, i)
<1>1. t \in Seq(Node) /\ NodeSet(Node) /\ Len(t) \in Nat
  BY FuzzNodes, LenProperties DEF FuzzTree
<1>2. m \in Seq(Node) /\ \A k \in 1..Len(m) : m[k] = t[i+k-1]
  BY <1>1, SubtreeElements
<1>3. Holds(t, i, m)
  BY <1>1, SubtreeIsHeld
<1>4. i \in Nat /\ DOMAIN m = 1..Len(m) /\ DOMAIN t = 1..Len(t)
  BY <1>1, <1>2
<1> HIDE DEF m
<1>5. ASSUME NEW k \in 1..Len(m)
      PROVE  t[(i-1)+k].id = m[k].id /\ t[(i-1)+k].rule = m[k].rule
  <2>1. Len(m) \in Nat
    BY <1>2, LenProperties
  <2>2. (i-1)+k = i+k-1
    BY <1>4, <2>1
  <2> QED BY <1>2, <2>2
<1>6. ASSUME NEW p \in 1..Len(m) PROVE Shape(m, p) \in Shapes(t)
  <2>1. (i-1)+p \in 1..Len(t) /\ Shape(t, (i-1)+p) = Shape(m, p)
    <3>1. \A k \in 1..Len(m) : t[(i-1)+k].id = m[k].id /\ t[(i-1)+k].rule = m[k].rule
      BY <1>5
    <3> QED BY <1>1, <1>2, <1>3, <1>4, <3>1, HeldShapes
  <2> QED BY <1>4, <2>1 DEF Shapes
<1> QED BY <1>4, <1>6 DEF Shapes, m

(* A replacement with the same symbol makes no shape of its own.           *)
LEMMA ReplaceShapes ==
  ASSUME NEW t \in FuzzTree, NEW m \in FuzzTree, NEW i \in 1..Len(t), m[1].id = t[i].id
  PROVE  Shapes(ReplaceSubtree(t, i, m)) \subseteq Shapes(t) \cup Shapes(m)
<1> DEFINE u == ReplaceSubtree(t, i, m)
           e == SubtreeEnd(t, i)
           l == (i-1) + Len(m)
<1>1. /\ t \in Seq(Node) /\ m \in Seq(Node) /\ IsTree(t) /\ IsTree(m) /\ NodeSet(Node)
      /\ Len(t) \in Nat /\ Len(m) \in Nat /\ Len(m) > 0
  BY FuzzNodes, LenProperties DEF FuzzTree, IsTree
<1>2. e \in i..Len(t) /\ i \in Nat /\ e \in Nat /\ l \in Nat
  BY <1>1, SubtreeEndExists
<1>3. /\ u \in Seq(Node) /\ Len(u) = l + (Len(t)-e)
      /\ \A k \in 1..(i-1) : u[k] = t[k]
      /\ \A k \in 1..Len(m) : /\ u[(i-1)+k] = AtDepth(m[k], m[k].depth - m[1].depth + t[i].depth)
                              /\ u[(i-1)+k].id = m[k].id
      /\ \A k \in 1..(Len(t)-e) : u[l+k] = t[e+k]
  <2>1. u \in Seq(Node) /\ Len(u) = l + (Len(t)-e)
    BY <1>1, ReplaceLength
  <2>2. ASSUME NEW k \in 1..(i-1) PROVE u[k] = t[k]
    BY <1>1, ReplaceBefore
  <2>3. ASSUME NEW k \in 1..Len(m)
        PROVE  /\ u[(i-1)+k] = AtDepth(m[k], m[k].depth - m[1].depth + t[i].depth)
               /\ u[(i-1)+k].id = m[k].id
    BY <1>1, ReplaceInside
  <2>4. ASSUME NEW k \in 1..(Len(t)-e) PROVE u[l+k] = t[e+k]
    BY <1>1, ReplaceAfter
  <2> HIDE DEF u, e, l
  <2> QED BY <2>1, <2>2, <2>3, <2>4
<1>4. Holds(u, i, m) /\ AlikeOutside(t, e, u, l, i)
  BY <1>1, ReplaceHolds
<1> HIDE DEF u, e
<1>5. DOMAIN u = 1..Len(u) /\ DOMAIN m = 1..Len(m) /\ DOMAIN t = 1..Len(t)
  BY <1>1, <1>3
<1>6. \A k \in 1..Len(m) : u[(i-1)+k].id = m[k].id /\ u[(i-1)+k].rule = m[k].rule
  <2> TAKE k \in 1..Len(m)
  <2>1. m[k] \in Node
    BY <1>1, ElementOfSeq
  <2> QED BY <1>3, <2>1, FuzzNodes
<1>7. \A k \in 1..i : u[k].id = t[k].id
  <2>1. u[(i-1)+1].id = m[1].id /\ (i-1)+1 = i
    <3>1. 1 \in 1..Len(m) /\ (i-1)+1 = i
      BY <1>1, <1>2
    <3>2. \A k \in 1..Len(m) : u[(i-1)+k].id = m[k].id
      BY <1>3
    <3> QED BY <3>1, <3>2
  <2>2. \A k \in 1..i : k = i \/ k \in 1..(i-1)
    BY <1>2
  <2> QED BY <1>3, <2>1, <2>2
<1>8. \A k \in 1..(Len(t)-e) : u[l+k].id = t[e+k].id /\ u[l+k].rule = t[e+k].rule
  BY <1>3
<1> HIDE DEF l
<1>11. SameOutside(t, e, u, l, i)
  BY <1>3, <1>4, <1>7, <1>8 DEF SameOutside
<1>9. ASSUME NEW k \in 1..Len(u)
      PROVE  \/ k \in 1..(i-1)
             \/ \E p \in 1..Len(m) : k = (i-1)+p
             \/ \E p \in 1..(Len(t)-e) : k = l+p
  <2>1. CASE k < i
    BY <1>2, <2>1
  <2>2. CASE ~ (k < i) /\ k <= l
    <3>1. k-(i-1) \in 1..Len(m) /\ k = (i-1)+(k-(i-1))
      BY <1>1, <1>2, <2>2 DEF l
    <3> QED BY <3>1
  <2>3. CASE k > l
    <3>1. k-l \in 1..(Len(t)-e) /\ k = l+(k-l)
      BY <1>1, <1>2, <1>3, <2>3
    <3> QED BY <3>1
  <2> QED BY <1>1, <1>2, <1>3, <2>1, <2>2, <2>3
<1>10. ASSUME NEW k \in 1..Len(u) PROVE Shape(u, k) \in Shapes(t) \cup Shapes(m)
  <2>1. CASE k \in 1..(i-1)
    <3>1. k \in 1..Len(t) /\ Shape(u, k) = Shape(t, k)
      BY <1>1, <1>2, <1>3, <1>11, <2>1, ShapesBefore
    <3> QED BY <1>5, <3>1 DEF Shapes
  <2>2. ASSUME NEW p \in 1..Len(m), k = (i-1)+p PROVE Shape(u, k) \in Shapes(m)
    <3>1. Shape(u, (i-1)+p) = Shape(m, p)
      <4>1. u \in Seq(Node) /\ m \in Seq(Node) /\ i \in Nat /\ Holds(u, i, m)
        BY <1>1, <1>2, <1>3, <1>4
      <4> QED BY <1>6, <4>1, HeldShapes
    <3> QED BY <1>5, <2>2, <3>1 DEF Shapes
  <2>3. ASSUME NEW p \in 1..(Len(t)-e), k = l+p PROVE Shape(u, k) \in Shapes(t)
    <3>1. e+p \in 1..Len(t) /\ Shape(u, l+p) = Shape(t, e+p)
      BY <1>1, <1>2, <1>3, <1>11, ShapesAfter
    <3> QED BY <1>5, <2>3, <3>1 DEF Shapes
  <2> QED BY <1>9, <2>1, <2>2, <2>3
<1> QED BY <1>5, <1>10 DEF Shapes, u

(* Nor does a recursion edge repeated.                                     *)
LEMMA RepeatEdgeShapes ==
  ASSUME NEW t \in FuzzTree, NEW c \in EdgeSet(t), NEW num \in Nat
  PROVE  Shapes(RepeatEdge(t, c, num)) \subseteq Shapes(t)
<1> DEFINE p == ParentOf(t, c)
           part == Subtree(t, p)
           at == c-p+1
           V == {x \in FuzzTree : x[1].id = t[c].id /\ Shapes(x) \subseteq Shapes(t)}
           tail == Subtree(t, c)
<1>1. /\ NodeSet(Node) /\ t \in Seq(Node) /\ IsTree(t) /\ Len(t) \in Nat
      /\ c \in 2..Len(t) /\ p \in 1..(c-1) /\ t[p].id = t[c].id
      /\ SubtreeEnd(t, c) <= SubtreeEnd(t, p) /\ c <= SubtreeEnd(t, c)
  <2>1. NodeSet(Node) /\ t \in Seq(Node) /\ IsTree(t)
    BY FuzzNodes DEF FuzzTree
  <2> QED BY <2>1, EdgeParent, LenProperties
<1> HIDE DEF p
<1>2. c \in 1..Len(t) /\ p \in 1..Len(t) /\ p \in Nat /\ c \in Nat /\ p < c
  BY <1>1
<1>3. /\ SubtreeEnd(t, p) \in p..Len(t) /\ SubtreeEnd(t, c) \in c..Len(t)
  BY <1>1, <1>2, SubtreeEndExists
<1>4. \A i \in 1..Len(t) : Subtree(t, i) \in FuzzTree /\ Subtree(t, i)[1].id = t[i].id
  BY <1>1, SubtreeElements, SubtreeIsTree DEF FuzzTree
<1>5. part \in V /\ tail \in V
  BY <1>1, <1>2, <1>4, SubtreeShapes
<1>6. at \in 1..Len(part) /\ part[at].id = t[c].id
  <2>1. /\ Len(part) = SubtreeEnd(t, p) - p + 1
        /\ \A k \in 1..(SubtreeEnd(t, p) - p + 1) : part[k] = t[p+k-1]
    BY <1>1, <1>2, SubtreeElements
  <2>2. at \in 1..(SubtreeEnd(t, p) - p + 1) /\ p+at-1 = c
    BY <1>1, <1>2, <1>3
  <2> QED BY <2>1, <2>2
<1>7. ASSUME NEW m \in V PROVE ReplaceSubtree(part, at, m) \in V
  <2>1. m \in FuzzTree /\ m[1].id = part[at].id /\ Shapes(m) \subseteq Shapes(t)
    BY <1>6
  <2>2. part \in FuzzTree /\ Shapes(part) \subseteq Shapes(t) /\ part[1].id = t[c].id
    BY <1>5
  <2> HIDE DEF part, at
  <2>3. ReplaceSubtree(part, at, m) \in FuzzTree
    BY <1>6, <2>1, <2>2, ReplaceFuzzTree
  <2>4. Shapes(ReplaceSubtree(part, at, m)) \subseteq Shapes(part) \cup Shapes(m)
    BY <1>6, <2>1, <2>2, ReplaceShapes
  <2>5. ReplaceSubtree(part, at, m)[1].id = part[1].id
    BY <1>1, <1>6, <2>1, <2>2, ReplaceIsTree DEF FuzzTree
  <2> QED BY <2>1, <2>2, <2>3, <2>4, <2>5
<1>8. \A m \in V : ReplaceSubtree(part, at, m) \in V
  BY <1>7
<1> HIDE DEF part, at, V, tail
<1> DEFINE last == Tails(part, at, tail, num)[num]
<1>9. last \in V
  <2>1. \A n \in 0..num : Tails(part, at, tail, num)[n] \in V
    BY <1>5, <1>8, TailsStep
  <2> QED BY <2>1
<1> HIDE DEF last
<1>10. last \in FuzzTree /\ last[1].id = t[c].id /\ Shapes(last) \subseteq Shapes(t)
  BY <1>9 DEF V
<1>11. Shapes(ReplaceSubtree(t, c, last)) \subseteq Shapes(t) \cup Shapes(last)
  BY <1>2, <1>10, ReplaceShapes
<1>12. RepeatEdge(t, c, num) = ReplaceSubtree(t, c, last)
  BY DEF RepeatEdge, last, part, at, tail, p
<1> QED BY <1>10, <1>11, <1>12

(* A, the shapes that are the grammar's or were parsed, has those of the   *)
(* working tree and of the chunk store: then it has those of the mutants.  *)
KnownShapes(A) ==
  /\ GrammarShapes \subseteq A
  /\ Shapes(tree_cur) \subseteq A
  /\ \A s \in chunks : Shapes(s) \subseteq A

LEMMA GeneratedShapes ==
  ASSUME tree_cur \in FuzzTree, NEW i \in 1..Len(tree_cur),
         NEW r \in DOMAIN Rules[tree_cur[i].id], NEW m \in GenTrees[tree_cur[i].id][r],
         NEW A, KnownShapes(A)
  PROVE  Shapes(ReplaceSubtree(tree_cur, i, m)) \subseteq A
<1>1. tree_cur[i].id \in Ids
  BY OtherRulesFacts DEF FuzzTree
<1>2. m \in FuzzTree /\ m[1].id = tree_cur[i].id
  BY <1>1, GenTreesAreTrees
<1>3. Shapes(m) \subseteq GrammarShapes
  BY <1>1, GenTreesAssumption
<1>4. Shapes(ReplaceSubtree(tree_cur, i, m)) \subseteq Shapes(tree_cur) \cup Shapes(m)
  BY <1>2, ReplaceShapes
<1> QED BY <1>3, <1>4 DEF KnownShapes

LEMMA MutantsShapes ==
  ASSUME IInv, pc = "fuzz", NEW A, KnownShapes(A), NEW t,
         \/ stage = 0 /\ t \in RulesMutants
         \/ stage = 1 /\ t \in RandomMutants
         \/ stage = 2 /\ t \in RecursiveMutants
         \/ stage = 3 /\ t \in SplicingMutants
  PROVE  Shapes(t) \subseteq A
<1>1. /\ tree_cur \in FuzzTree /\ chunks \subseteq FuzzTree /\ tree_cur \in Seq(Node)
      /\ stage = 0 => /\ rules_node \in 1..Len(tree_cur)
                      /\ rules_rule \in OtherRules(rules_node, 0)
  BY FuzzingFacts
<1>2. DOMAIN tree_cur = 1..Len(tree_cur)
  BY <1>1
<1>3. CASE stage = 0 /\ t \in RulesMutants
  <2>1. rules_rule \in DOMAIN Rules[tree_cur[rules_node].id]
    BY <1>1, <1>3, OtherRulesFacts
  <2>2. PICK m \in GenTrees[tree_cur[rules_node].id][rules_rule] :
          t = ReplaceSubtree(tree_cur, rules_node, m)
    BY <1>3 DEF RulesMutants
  <2> QED BY <1>1, <1>3, <2>1, <2>2, GeneratedShapes
<1>4. CASE t \in RandomMutants
  <2>1. PICK i \in DOMAIN tree_cur :
          \E r \in DOMAIN Rules[tree_cur[i].id] : \E m \in GenTrees[tree_cur[i].id][r] :
            t = ReplaceSubtree(tree_cur, i, m)
    BY <1>4 DEF RandomMutants
  <2>2. PICK r \in DOMAIN Rules[tree_cur[i].id] :
          \E m \in GenTrees[tree_cur[i].id][r] : t = ReplaceSubtree(tree_cur, i, m)
    BY <2>1
  <2>3. PICK m \in GenTrees[tree_cur[i].id][r] : t = ReplaceSubtree(tree_cur, i, m)
    BY <2>2
  <2> QED BY <1>1, <1>2, <2>3, GeneratedShapes
<1>5. CASE t \in RecursiveMutants
  <2>1. PICK c \in EdgeSet(tree_cur), num \in RepeatCounts : t = RepeatEdge(tree_cur, c, num)
    BY <1>5 DEF RecursiveMutants, RecursiveAttempts
  <2>2. num \in Nat
    BY RepeatCountsNat
  <2> QED BY <1>1, <2>1, <2>2, RepeatEdgeShapes DEF KnownShapes
<1>6. CASE t \in SplicingMutants
  <2>1. PICK i \in DOMAIN tree_cur : \E m \in Alternatives(tree_cur[i].id) :
          t = ReplaceSubtree(tree_cur, i, m)
    BY <1>6 DEF SplicingMutants
  <2>2. PICK m \in Alternatives(tree_cur[i].id) : t = ReplaceSubtree(tree_cur, i, m)
    BY <2>1
  <2>3. PICK s \in chunks : \E j \in DOMAIN s : s[j].id = tree_cur[i].id /\ m = Subtree(s, j)
    BY DEF Alternatives
  <2>4. PICK j \in DOMAIN s : s[j].id = tree_cur[i].id /\ m = Subtree(s, j)
    BY <2>3
  <2>5. s \in FuzzTree /\ NodeSet(Node) /\ s \in Seq(Node) /\ IsTree(s) /\ j \in 1..Len(s)
    BY <1>1, FuzzNodes DEF FuzzTree
  <2>6. m \in FuzzTree /\ m[1].id = tree_cur[i].id
    BY <2>4, <2>5, SubtreeElements, SubtreeIsTree DEF FuzzTree
  <2>7. Shapes(m) \subseteq Shapes(s)
    BY <2>4, <2>5, SubtreeShapes
  <2>8. Shapes(t) \subseteq Shapes(tree_cur) \cup Shapes(m)
    BY <1>1, <1>2, <2>2, <2>6, ReplaceShapes
  <2> QED BY <2>7, <2>8 DEF KnownShapes
<1> QED BY <1>3, <1>4, <1>5, <1>6

(* What the mutator knows: the grammar, and what it parsed so far.         *)
Known == GrammarShapes \cup UNION {Shapes(EntryTree[e]) : e \in Entries \ unfuzzed}

ShapesKnown == KnownShapes(Known) /\ Shapes(mutated_tree) \subseteq Known

LEMMA NoShapes == Shapes(<<>>) = {}
<1>1. DOMAIN <<>> = {}
  OBVIOUS
<1> QED BY <1>1 DEF Shapes

LEMMA ShapesKnownInit == Init => ShapesKnown
BY NoShapes DEF Init, ShapesKnown, KnownShapes, Known

LEMMA ShapesKnownNext == IInv /\ ShapesKnown /\ [Next]_vars => ShapesKnown'
<1> SUFFICES ASSUME IInv, ShapesKnown, [Next]_vars PROVE ShapesKnown'
  OBVIOUS
<1> USE DEF ShapesKnown
<1>1. ASSUME Known' = Known, tree_cur' = tree_cur,
             Shapes(mutated_tree)' \subseteq Known, \A s \in chunks' : Shapes(s) \subseteq Known
      PROVE  ShapesKnown'
  BY <1>1 DEF KnownShapes
<1>2. ASSUME NEW e \in Entries, QueueGet(e) PROVE ShapesKnown'
  <2>1. /\ tree_cur' = EntryTree[e] /\ chunks' = chunks \cup {EntryTree[e]}
        /\ unfuzzed' = unfuzzed \ {e} /\ mutated_tree' = mutated_tree
    BY <1>2 DEF QueueGet
  <2>2. Known \cup Shapes(EntryTree[e]) \subseteq Known'
    BY <2>1 DEF Known
  <2>3. Shapes(tree_cur)' = Shapes(EntryTree[e]) /\ Shapes(mutated_tree)' = Shapes(mutated_tree)
    BY <2>1
  <2> QED BY <2>1, <2>2, <2>3 DEF KnownShapes
<1>3. CASE FuzzCount
  <2>1. UNCHANGED <<tree_cur, mutated_tree, chunks, unfuzzed>>
    BY <1>3 DEF FuzzCount
  <2> QED BY <1>1, <2>1 DEF Known, KnownShapes
<1>4. CASE Fuzz
  <2>1. PICK t : /\ pc = "fuzz" /\ Fuzzed(t)
                 /\ \/ stage = 0 /\ t \in RulesMutants
                    \/ stage = 1 /\ t \in RandomMutants
                    \/ stage = 2 /\ t \in RecursiveMutants
                    \/ stage = 3 /\ t \in SplicingMutants
    BY <1>4 DEF Fuzz, FuzzRules, FuzzRandom, FuzzRecursive, FuzzSplicing
  <2>2. mutated_tree' = t /\ UNCHANGED <<tree_cur, chunks, unfuzzed>>
    BY <2>1 DEF Fuzzed
  <2>3. Shapes(t) \subseteq Known
    BY <2>1, MutantsShapes
  <2> QED BY <1>1, <2>2, <2>3 DEF Known, KnownShapes
<1>5. CASE NotInteresting
  <2>1. UNCHANGED <<tree_cur, mutated_tree, chunks, unfuzzed>>
    BY <1>5 DEF NotInteresting
  <2> QED BY <1>1, <2>1 DEF Known, KnownShapes
<1>6. CASE QueueNewEntry
  <2>1. /\ mutated_tree' = <<>> /\ chunks' = chunks \cup {mutated_tree}
        /\ UNCHANGED <<tree_cur, unfuzzed>>
    BY <1>6 DEF QueueNewEntry
  <2>2. Shapes(mutated_tree)' = {}
    BY <2>1, NoShapes
  <2> QED BY <1>1, <2>1, <2>2 DEF Known, KnownShapes
<1>7. CASE UNCHANGED vars
  <2>1. UNCHANGED <<tree_cur, mutated_tree, chunks, unfuzzed>>
    BY <1>7 DEF vars, aflVars
  <2> QED BY <1>1, <2>1 DEF Known, KnownShapes
<1>8. CASE Finished
  BY <1>7, <1>8 DEF Finished
<1> QED BY <1>2, <1>3, <1>4, <1>5, <1>6, <1>7, <1>8 DEF Next, FuzzStep

(* Every mutant is a derivation tree, and each of its nodes has the        *)
(* children of a rule of the grammar or those a parsed test case gave it.  *)
THEOREM MutantsAreDerivations == Spec => []MutantsFollowTheGrammar
<1>1. IInv /\ ShapesKnown => MutantsFollowTheGrammar
  BY DEF IInv, TreesSound, ShapesKnown, Known, MutantsFollowTheGrammar
<1>2. Spec => [](IInv /\ ShapesKnown)
  BY InitInv, NextInv, ShapesKnownInit, ShapesKnownNext, PTL DEF Spec
<1> QED BY <1>1, <1>2, PTL
=============================================================================
