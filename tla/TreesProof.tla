----------------------------- MODULE TreesProof -----------------------------
(***************************************************************************)
(* What the operators of Trees return, for trees of every shape and size.  *)
(***************************************************************************)
EXTENDS Trees, SumsProof, SequenceTheorems, FunctionTheorems

-----------------------------------------------------------------------------
(* N is a set of nodes, whatever else they hold besides id and depth, that *)
(* a node stays in when it is moved to another depth.                      *)
NodeSet(N) ==
  \A x \in N : /\ x.depth \in Nat
              /\ \A d \in Nat : /\ AtDepth(x, d) \in N
                               /\ AtDepth(x, d).id = x.id /\ AtDepth(x, d).depth = d

(* The values that arithmetic on a tree's depths needs.                    *)
LEMMA TreeTyping ==
  ASSUME NEW N, NodeSet(N), NEW t \in Seq(N)
  PROVE  /\ Len(t) \in Nat
         /\ \A n \in 1..Len(t) : t[n] \in N /\ t[n].depth \in Nat
<1>1. Len(t) \in Nat
  BY LenProperties
<1>2. \A n \in 1..Len(t) : t[n] \in N
  BY ElementOfSeq
<1>3. \A n \in N : n.depth \in Nat
  BY DEF NodeSet
<1> QED
  BY <1>1, <1>2, <1>3

(* A subtree has exactly one last node, and SubtreeEnd is it.              *)
LEMMA SubtreeEndUnique ==
  ASSUME NEW N, NodeSet(N), NEW t \in Seq(N), NEW i \in 1..Len(t),
         NEW j, NEW k, IsSubtreeEnd(t, i, j), IsSubtreeEnd(t, i, k)
  PROVE  j = k
<1>1. /\ Len(t) \in Nat
      /\ \A n \in 1..Len(t) : t[n] \in N /\ t[n].depth \in Nat
  BY TreeTyping
<1>2. j \in Int /\ k \in Int /\ i <= j /\ i <= k /\ j <= Len(t) /\ k <= Len(t)
  BY <1>1 DEF IsSubtreeEnd
<1>3. ~ (j < k)
  BY <1>1, <1>2 DEF IsSubtreeEnd
<1>4. ~ (k < j)
  BY <1>1, <1>2 DEF IsSubtreeEnd
<1> QED
  BY <1>2, <1>3, <1>4

(* A node that ends the subtree is the one SubtreeEnd chooses.             *)
LEMMA SubtreeEndIs ==
  ASSUME NEW N, NodeSet(N), NEW t \in Seq(N), NEW i \in 1..Len(t),
         NEW j, IsSubtreeEnd(t, i, j)
  PROVE  SubtreeEnd(t, i) = j
<1>1. j \in i..Len(t)
  BY DEF IsSubtreeEnd
<1>2. IsSubtreeEnd(t, i, SubtreeEnd(t, i))
  BY <1>1 DEF SubtreeEnd
<1> QED
  BY <1>2, SubtreeEndUnique

(* Every node's subtree has a last node.                                   *)
LEMMA SubtreeEndExists ==
  ASSUME NEW N, NodeSet(N), NEW t \in Seq(N), NEW i \in 1..Len(t)
  PROVE  /\ IsSubtreeEnd(t, i, SubtreeEnd(t, i))
         /\ SubtreeEnd(t, i) \in i..Len(t)
<1>1. /\ Len(t) \in Nat
      /\ \A n \in 1..Len(t) : t[n] \in N /\ t[n].depth \in Nat
  BY TreeTyping
<1> DEFINE After == {n \in (i+1)..(Len(t)+1) : n = Len(t)+1 \/ t[n].depth <= t[i].depth}
<1>2. After \in SUBSET Nat /\ After # {}
  <2>1. Len(t)+1 \in (i+1)..(Len(t)+1) /\ (i+1)..(Len(t)+1) \subseteq Nat
    BY <1>1
  <2> QED BY <2>1
<1>3. PICK m \in After : \A n \in After : m <= n
  <2> HIDE DEF After
  <2> QED BY <1>2, LeastNat
<1>4. IsSubtreeEnd(t, i, m-1)
  <2>1. m \in (i+1)..(Len(t)+1)
    BY <1>3
  <2>2. ASSUME NEW k \in (i+1)..(m-1) PROVE t[k].depth > t[i].depth
    <3>1. k \notin After
      BY <1>1, <1>3, <2>1
    <3>2. k \in (i+1)..(Len(t)+1) /\ k # Len(t)+1 /\ k \in 1..Len(t)
      BY <1>1, <2>1
    <3> QED BY <1>1, <3>1, <3>2
  <2>3. ASSUME m-1 < Len(t) PROVE t[(m-1)+1].depth <= t[i].depth
    BY <1>1, <1>3, <2>1, <2>3
  <2> QED BY <1>1, <2>1, <2>2, <2>3 DEF IsSubtreeEnd
<1> QED
  BY <1>4, SubtreeEndIs DEF IsSubtreeEnd

-----------------------------------------------------------------------------
(* A segment of a tree's subtree is a tree of its own.                     *)
LEMMA SubtreeElements ==
  ASSUME NEW N, NodeSet(N), NEW t \in Seq(N), NEW i \in 1..Len(t)
  PROVE  /\ Subtree(t, i) \in Seq(N)
         /\ Len(Subtree(t, i)) = SubtreeEnd(t, i) - i + 1
         /\ \A k \in 1..(SubtreeEnd(t, i) - i + 1) : Subtree(t, i)[k] = t[i+k-1]
<1>1. SubtreeEnd(t, i) \in i..Len(t) /\ Len(t) \in Nat
  BY SubtreeEndExists, LenProperties
<1>2. \A k \in i..SubtreeEnd(t, i) : t[k] \in N
  BY <1>1, ElementOfSeq
<1> QED
  BY <1>1, <1>2, SubSeqProperties DEF Subtree

(* A subtree is a tree of its own, with node i as its root.                *)
LEMMA SubtreeIsTree ==
  ASSUME NEW N, NodeSet(N), NEW t \in Seq(N), NEW i \in 1..Len(t), IsTree(t)
  PROVE  IsTree(Subtree(t, i)) /\ Subtree(t, i)[1] = t[i]
<1> DEFINE e == SubtreeEnd(t, i)
           s == Subtree(t, i)
<1>1. /\ e \in i..Len(t) /\ Len(t) \in Nat
      /\ \A k \in (i+1)..e : t[k].depth > t[i].depth
      /\ \A n \in 1..Len(t) : t[n].depth \in Nat
  BY SubtreeEndExists, TreeTyping DEF IsSubtreeEnd
<1>2. Len(s) = e - i + 1 /\ \A k \in 1..(e - i + 1) : s[k] = t[i+k-1]
  BY SubtreeElements
<1> HIDE DEF e, s
<1>3. s[1] = t[i]
  BY <1>1, <1>2
<1>4. ASSUME NEW k \in 2..Len(s)
      PROVE s[1].depth < s[k].depth /\ s[k].depth <= s[k-1].depth + 1
  <2>1. s[k] = t[i+k-1] /\ s[k-1] = t[i+k-2] /\ i+k-1 \in (i+1)..e
    BY <1>1, <1>2
  <2>2. i+k-1 \in 2..Len(t) /\ (i+k-1)-1 = i+k-2
    BY <1>1, <2>1
  <2> QED BY <1>1, <1>3, <2>1, <2>2 DEF IsTree
<1>5. Len(s) > 0
  BY <1>1, <1>2
<1> QED
  BY <1>3, <1>4, <1>5 DEF IsTree, s

-----------------------------------------------------------------------------
(* A tree moved to another depth.                                          *)
LEMMA RebaseElements ==
  ASSUME NEW N, NodeSet(N), NEW m \in Seq(N), IsTree(m), NEW d \in Nat
  PROVE  /\ Rebase(m, d) \in Seq(N) /\ Len(Rebase(m, d)) = Len(m)
         /\ \A k \in 1..Len(m) :
              /\ Rebase(m, d)[k] = AtDepth(m[k], m[k].depth - m[1].depth + d)
              /\ Rebase(m, d)[k].id = m[k].id
              /\ Rebase(m, d)[k].depth = m[k].depth - m[1].depth + d
<1> DEFINE b == Rebase(m, d)
           to(k) == m[k].depth - m[1].depth + d
<1>1. Len(m) \in Nat /\ \A n \in 1..Len(m) : m[n] \in N /\ m[n].depth \in Nat
  BY TreeTyping
<1>2. ASSUME NEW k \in 1..Len(m) PROVE to(k) \in Nat
  <2>1. 1 \in 1..Len(m) /\ (k = 1 \/ k \in 2..Len(m))
    BY <1>1
  <2>2. m[k].depth \in Nat /\ m[1].depth \in Nat
    BY <1>1, <2>1
  <2>3. k \in 2..Len(m) => m[1].depth < m[k].depth
    BY DEF IsTree
  <2> QED BY <2>1, <2>2, <2>3
<1>3. \A x \in N, n \in Nat :
         AtDepth(x, n) \in N /\ AtDepth(x, n).id = x.id /\ AtDepth(x, n).depth = n
  BY DEF NodeSet
<1>4. b = [k \in 1..Len(m) |-> AtDepth(m[k], to(k))]
  BY DEF Rebase
<1> HIDE DEF b, to
<1>5. \A k \in 1..Len(m) : /\ b[k] \in N /\ b[k] = AtDepth(m[k], to(k))
                           /\ b[k].id = m[k].id /\ b[k].depth = to(k)
  BY <1>1, <1>2, <1>3, <1>4, Zenon
<1>6. b \in Seq(N) /\ Len(b) = Len(m)
  <2>1. b \in [1..Len(m) -> N]
    BY <1>4, <1>5
  <2>2. \A S, n : n \in Nat => \A f \in [1..n -> S] : f \in Seq(S) /\ Len(f) = n
    OBVIOUS
  <2> QED BY <1>1, <2>1, <2>2
<1> QED BY <1>5, <1>6 DEF b, to

(* r is s with elements i..e replaced by m, element by element.            *)
Spliced(r, s, i, e, m) ==
  /\ \A k \in 1..(i-1) : r[k] = s[k]
  /\ \A k \in 1..Len(m) : r[(i-1)+k] = m[k]
  /\ \A k \in 1..(Len(s)-e) : r[(i-1)+Len(m)+k] = s[e+k]

LEMMA SpliceElements ==
  ASSUME NEW V, NEW s \in Seq(V), NEW m \in Seq(V),
         NEW i \in 1..Len(s), NEW e \in i..Len(s)
  PROVE  /\ Splice(s, i, e, m) \in Seq(V)
         /\ Len(Splice(s, i, e, m)) = (i-1) + Len(m) + (Len(s)-e)
         /\ Spliced(Splice(s, i, e, m), s, i, e, m)
<1> DEFINE r == Splice(s, i, e, m)
           a == SubSeq(s, 1, i-1)
           c == SubSeq(s, e+1, Len(s))
           p == a \o m
<1>1. /\ Len(s) \in Nat /\ Len(m) \in Nat
      /\ \A n \in 1..Len(s) : s[n] \in V
      /\ i-1 \in Nat /\ Len(s)-e \in Nat /\ e+1 \in Int
  BY LenProperties, ElementOfSeq
<1>2. a \in Seq(V) /\ Len(a) = i-1 /\ \A k \in 1..(i-1) : a[k] = s[k]
  <2>1. \A n \in 1..(i-1) : s[n] \in V
    BY <1>1
  <2>2. i-1 \in Int /\ 1 \in Int
    BY <1>1
  <2> QED BY <2>1, <2>2, SubSeqProperties
<1>3. c \in Seq(V) /\ Len(c) = Len(s)-e /\ \A k \in 1..(Len(s)-e) : c[k] = s[e+k]
  <2>1. \A n \in (e+1)..Len(s) : s[n] \in V
    BY <1>1
  <2>2. e+1 \in Int /\ Len(s) \in Int
    BY <1>1
  <2>3. /\ c \in Seq(V)
        /\ Len(c) = IF e+1 <= Len(s) THEN Len(s)-(e+1)+1 ELSE 0
        /\ \A k \in 1..(Len(s)-(e+1)+1) : c[k] = s[(e+1)+k-1]
    BY <2>1, <2>2, SubSeqProperties
  <2>4. Len(c) = Len(s)-e
    BY <1>1, <2>3
  <2>5. ASSUME NEW k \in 1..(Len(s)-e) PROVE c[k] = s[e+k]
    <3>1. k \in 1..(Len(s)-(e+1)+1) /\ (e+1)+k-1 = e+k
      BY <1>1
    <3> QED BY <2>3, <3>1
  <2> QED BY <2>3, <2>4, <2>5
<1>4. r = p \o c
  BY DEF Splice
<1> HIDE DEF r, a, c
<1>5. /\ p \in Seq(V) /\ Len(p) = Len(a) + Len(m)
      /\ \A k \in 1..(Len(a) + Len(m)) : p[k] = IF k <= Len(a) THEN a[k] ELSE m[k-Len(a)]
  BY <1>2, ConcatProperties
<1> HIDE DEF p
<1>6. /\ r \in Seq(V) /\ Len(r) = Len(p) + Len(c)
      /\ \A k \in 1..(Len(p) + Len(c)) : r[k] = IF k <= Len(p) THEN p[k] ELSE c[k-Len(p)]
  <2>1. p \in Seq(V) /\ c \in Seq(V)
    BY <1>3, <1>5
  <2> QED BY <1>4, <2>1, ConcatProperties
<1>7. Len(p) = (i-1) + Len(m) /\ Len(r) = (i-1) + Len(m) + (Len(s)-e)
  BY <1>2, <1>3, <1>5, <1>6
<1>8. ASSUME NEW k \in 1..(i-1) PROVE r[k] = s[k]
  <2>1. k \in 1..(Len(a) + Len(m)) /\ k <= Len(a) /\ k \in 1..(Len(p) + Len(c)) /\ k <= Len(p)
    BY <1>1, <1>2, <1>3, <1>5
  <2> QED BY <1>2, <1>5, <1>6, <2>1
<1>9. ASSUME NEW k \in 1..Len(m) PROVE r[(i-1)+k] = m[k]
  <2> DEFINE n == (i-1)+k
  <2>1. /\ n \in 1..(Len(a) + Len(m)) /\ ~(n <= Len(a)) /\ n - Len(a) = k
        /\ n \in 1..(Len(p) + Len(c)) /\ n <= Len(p)
    BY <1>1, <1>2, <1>3, <1>5
  <2> HIDE DEF n
  <2>2. r[n] = m[k]
    BY <1>5, <1>6, <2>1
  <2> QED BY <2>2 DEF n
<1>10. ASSUME NEW k \in 1..(Len(s)-e) PROVE r[(i-1)+Len(m)+k] = s[e+k]
  <2> DEFINE n == (i-1)+Len(m)+k
  <2>1. n \in 1..(Len(p) + Len(c)) /\ ~(n <= Len(p)) /\ n - Len(p) = k
    BY <1>1, <1>3, <1>7
  <2> HIDE DEF n
  <2>2. r[n] = c[k]
    BY <1>6, <2>1
  <2> QED BY <1>3, <2>2 DEF n
<1>11. Spliced(r, s, i, e, m)
  BY <1>8, <1>9, <1>10 DEF Spliced
<1> QED BY <1>6, <1>7, <1>11 DEF r

(* The nodes of a tree in which the subtree of node i gave way to m.       *)
Replaced(r, t, e, i, m) ==
  /\ \A k \in 1..(i-1) : r[k] = t[k]
  /\ \A k \in 1..Len(m) :
       /\ r[(i-1)+k] = AtDepth(m[k], m[k].depth - m[1].depth + t[i].depth)
       /\ r[(i-1)+k].id = m[k].id
       /\ r[(i-1)+k].depth = m[k].depth - m[1].depth + t[i].depth
  /\ \A k \in 1..(Len(t)-e) : r[(i-1)+Len(m)+k] = t[e+k]

LEMMA ReplaceFacts ==
  ASSUME NEW N, NodeSet(N), NEW t \in Seq(N), NEW m \in Seq(N),
         NEW i \in 1..Len(t), IsTree(m)
  PROVE  /\ ReplaceSubtree(t, i, m) \in Seq(N)
         /\ Len(ReplaceSubtree(t, i, m)) = (i-1) + Len(m) + (Len(t)-SubtreeEnd(t, i))
         /\ Replaced(ReplaceSubtree(t, i, m), t, SubtreeEnd(t, i), i, m)
<1> DEFINE e == SubtreeEnd(t, i)
           r == ReplaceSubtree(t, i, m)
           b == Rebase(m, t[i].depth)
<1>1. /\ Len(t) \in Nat /\ Len(m) \in Nat /\ e \in i..Len(t)
      /\ \A n \in 1..Len(t) : t[n] \in N /\ t[n].depth \in Nat
  BY TreeTyping, SubtreeEndExists
<1>2. /\ b \in Seq(N) /\ Len(b) = Len(m)
      /\ \A k \in 1..Len(m) : /\ b[k] = AtDepth(m[k], m[k].depth - m[1].depth + t[i].depth)
                              /\ b[k].id = m[k].id
                              /\ b[k].depth = m[k].depth - m[1].depth + t[i].depth
  BY <1>1, RebaseElements
<1>3. r = Splice(t, i, e, b)
  BY DEF ReplaceSubtree
<1> HIDE DEF e, r, b
<1>4. /\ r \in Seq(N)
      /\ Len(r) = (i-1) + Len(b) + (Len(t)-e)
      /\ Spliced(r, t, i, e, b)
  BY <1>1, <1>2, <1>3, SpliceElements
<1>5. /\ r \in Seq(N)
      /\ Len(r) = (i-1) + Len(m) + (Len(t)-e)
      /\ \A k \in 1..(i-1) : r[k] = t[k]
      /\ \A k \in 1..Len(m) : r[(i-1)+k] = b[k]
      /\ \A k \in 1..(Len(t)-e) : r[(i-1)+Len(m)+k] = t[e+k]
  BY <1>2, <1>4 DEF Spliced
<1>6. Replaced(r, t, e, i, m)
  BY <1>2, <1>5 DEF Replaced
<1> QED BY <1>5, <1>6 DEF e, r

LEMMA ReplaceElements ==
  ASSUME NEW N, NodeSet(N), NEW t \in Seq(N), NEW m \in Seq(N),
         NEW i \in 1..Len(t), IsTree(m)
  PROVE  /\ ReplaceSubtree(t, i, m) \in Seq(N)
         /\ Len(ReplaceSubtree(t, i, m)) = (i-1) + Len(m) + (Len(t)-SubtreeEnd(t, i))
         /\ \A k \in 1..(i-1) : ReplaceSubtree(t, i, m)[k] = t[k]
         /\ \A k \in 1..Len(m) :
              /\ ReplaceSubtree(t, i, m)[(i-1)+k] =
                   AtDepth(m[k], m[k].depth - m[1].depth + t[i].depth)
              /\ ReplaceSubtree(t, i, m)[(i-1)+k].id = m[k].id
              /\ ReplaceSubtree(t, i, m)[(i-1)+k].depth = m[k].depth - m[1].depth + t[i].depth
         /\ \A k \in 1..(Len(t)-SubtreeEnd(t, i)) :
              ReplaceSubtree(t, i, m)[(i-1)+Len(m)+k] = t[SubtreeEnd(t, i)+k]
<1>1. Replaced(ReplaceSubtree(t, i, m), t, SubtreeEnd(t, i), i, m)
  BY ReplaceFacts
<1>2. /\ ReplaceSubtree(t, i, m) \in Seq(N)
      /\ Len(ReplaceSubtree(t, i, m)) = (i-1) + Len(m) + (Len(t)-SubtreeEnd(t, i))
  BY ReplaceFacts
<1> QED BY <1>1, <1>2, Zenon DEF Replaced

(* The same, for the length, and for one node before, in and after the     *)
(* new subtree.                                                            *)
LEMMA ReplaceLength ==
  ASSUME NEW N, NodeSet(N), NEW t \in Seq(N), NEW m \in Seq(N),
         NEW i \in 1..Len(t), IsTree(m)
  PROVE  /\ ReplaceSubtree(t, i, m) \in Seq(N)
         /\ Len(ReplaceSubtree(t, i, m)) = (i-1) + Len(m) + (Len(t)-SubtreeEnd(t, i))
BY ReplaceFacts

LEMMA ReplaceBefore ==
  ASSUME NEW N, NodeSet(N), NEW t \in Seq(N), NEW m \in Seq(N),
         NEW i \in 1..Len(t), IsTree(m), NEW k \in 1..(i-1)
  PROVE  ReplaceSubtree(t, i, m)[k] = t[k]
<1>1. Replaced(ReplaceSubtree(t, i, m), t, SubtreeEnd(t, i), i, m)
  BY ReplaceFacts
<1> QED BY <1>1, Zenon DEF Replaced

LEMMA ReplaceInside ==
  ASSUME NEW N, NodeSet(N), NEW t \in Seq(N), NEW m \in Seq(N),
         NEW i \in 1..Len(t), IsTree(m), NEW k \in 1..Len(m)
  PROVE  /\ ReplaceSubtree(t, i, m)[(i-1)+k] =
              AtDepth(m[k], m[k].depth - m[1].depth + t[i].depth)
         /\ ReplaceSubtree(t, i, m)[(i-1)+k].id = m[k].id
         /\ ReplaceSubtree(t, i, m)[(i-1)+k].depth = m[k].depth - m[1].depth + t[i].depth
<1>1. Replaced(ReplaceSubtree(t, i, m), t, SubtreeEnd(t, i), i, m)
  BY ReplaceFacts
<1> QED BY <1>1, Zenon DEF Replaced

LEMMA ReplaceAfter ==
  ASSUME NEW N, NodeSet(N), NEW t \in Seq(N), NEW m \in Seq(N),
         NEW i \in 1..Len(t), IsTree(m), NEW k \in 1..(Len(t)-SubtreeEnd(t, i))
  PROVE  ReplaceSubtree(t, i, m)[(i-1)+Len(m)+k] = t[SubtreeEnd(t, i)+k]
<1>1. Replaced(ReplaceSubtree(t, i, m), t, SubtreeEnd(t, i), i, m)
  BY ReplaceFacts
<1> QED BY <1>1, Zenon DEF Replaced

-----------------------------------------------------------------------------
(* Replacing a subtree by a tree gives a tree; the new subtree is m.       *)
LEMMA ReplaceIsTree ==
  ASSUME NEW N, NodeSet(N), NEW t \in Seq(N), NEW m \in Seq(N),
         NEW i \in 1..Len(t), IsTree(t), IsTree(m)
  PROVE  /\ IsTree(ReplaceSubtree(t, i, m))
         /\ SubtreeEnd(ReplaceSubtree(t, i, m), i) = (i-1) + Len(m)
         /\ i \in 1..Len(ReplaceSubtree(t, i, m))
         /\ ReplaceSubtree(t, i, m)[1].depth = t[1].depth
         /\ m[1].id = t[i].id => ReplaceSubtree(t, i, m)[1].id = t[1].id
<1> DEFINE e == SubtreeEnd(t, i)
           r == ReplaceSubtree(t, i, m)
<1>1. /\ Len(t) \in Nat /\ Len(m) \in Nat /\ Len(m) > 0 /\ e \in i..Len(t)
      /\ \A n \in 1..Len(t) : t[n] \in N /\ t[n].depth \in Nat
      /\ \A n \in 1..Len(m) : m[n] \in N /\ m[n].depth \in Nat
      /\ e < Len(t) => t[e+1].depth <= t[i].depth
  BY TreeTyping, SubtreeEndExists DEF IsTree, IsSubtreeEnd
<1>2. /\ r \in Seq(N)
      /\ Len(r) = (i-1) + Len(m) + (Len(t)-e)
      /\ \A k \in 1..(i-1) : r[k] = t[k]
      /\ \A k \in 1..Len(m) : /\ r[(i-1)+k].id = m[k].id
                              /\ r[(i-1)+k].depth = m[k].depth - m[1].depth + t[i].depth
      /\ \A k \in 1..(Len(t)-e) : r[(i-1)+Len(m)+k] = t[e+k]
  BY ReplaceElements
<1> HIDE DEF e, r
<1>3. \A n \in 1..Len(r) : r[n] \in N /\ r[n].depth \in Nat
  BY <1>2, TreeTyping
<1>4. /\ \A k \in 2..Len(t) : t[1].depth < t[k].depth /\ t[k].depth <= t[k-1].depth + 1
      /\ \A k \in 2..Len(m) : m[1].depth < m[k].depth /\ m[k].depth <= m[k-1].depth + 1
  BY DEF IsTree
<1>0. /\ i \in Nat /\ e \in Nat /\ Len(t) \in Nat /\ Len(m) \in Nat /\ Len(r) \in Nat
      /\ 1 <= i /\ i <= e /\ e <= Len(t) /\ 1 <= Len(m)
      /\ Len(r) = (i-1) + Len(m) + (Len(t)-e)
  BY <1>1, <1>2
<1>5. i = 1 => e = Len(t)
  <2> SUFFICES ASSUME i = 1, e < Len(t) PROVE FALSE
    BY <1>1
  <2>1. e+1 \in 2..Len(t) /\ t[e+1].depth \in Nat /\ t[1].depth \in Nat
    BY <1>1
  <2> QED BY <1>1, <1>4, <2>1
<1>6. r[i].id = m[1].id /\ r[i].depth = t[i].depth
  <2>1. 1 \in 1..Len(m) /\ (i-1)+1 = i /\ m[1].depth \in Nat /\ t[i].depth \in Nat
    BY <1>1
  <2>2. r[(i-1)+1].id = m[1].id /\ r[(i-1)+1].depth = m[1].depth - m[1].depth + t[i].depth
    BY <1>2, <2>1
  <2> QED BY <2>1, <2>2
<1>7. \A k \in 1..(i-1) : r[k] = t[k]
  BY <1>2
<1>8. ASSUME NEW k \in 2..Len(m)
      PROVE  /\ (i-1)+k \in 1..Len(r) /\ (i-1)+(k-1) \in 1..Len(r)
             /\ r[(i-1)+k].depth > t[i].depth
             /\ r[(i-1)+k].depth <= r[(i-1)+(k-1)].depth + 1
  <2>1. k-1 \in 1..Len(m) /\ k \in 1..Len(m) /\ 1 \in 1..Len(m)
    BY <1>1
  <2>2. /\ r[(i-1)+k].depth = m[k].depth - m[1].depth + t[i].depth
        /\ r[(i-1)+(k-1)].depth = m[k-1].depth - m[1].depth + t[i].depth
    BY <1>2, <2>1
  <2>3. m[k].depth \in Nat /\ m[k-1].depth \in Nat /\ m[1].depth \in Nat /\ t[i].depth \in Nat
    BY <1>1, <2>1
  <2>4. m[1].depth < m[k].depth /\ m[k].depth <= m[k-1].depth + 1
    BY <1>4
  <2>5. (i-1)+k \in 1..Len(r) /\ (i-1)+(k-1) \in 1..Len(r)
    BY <1>1, <1>2
  <2>6. \A x, y, z, d \in Nat : z < x /\ x <= y + 1 =>
           x - z + d > d /\ x - z + d <= (y - z + d) + 1
    OBVIOUS
  <2>7. /\ m[k].depth - m[1].depth + t[i].depth > t[i].depth
        /\ m[k].depth - m[1].depth + t[i].depth <= (m[k-1].depth - m[1].depth + t[i].depth) + 1
    BY <2>3, <2>4, <2>6
  <2> QED BY <2>2, <2>5, <2>7
<1>9. \A k \in 1..Len(m) : r[(i-1)+k].depth >= t[i].depth
  <2> SUFFICES ASSUME NEW k \in 1..Len(m) PROVE r[(i-1)+k].depth >= t[i].depth
    OBVIOUS
  <2>1. CASE k = 1
    <3>1. (i-1)+k = i /\ t[i].depth \in Nat
      BY <1>1, <2>1
    <3> QED BY <1>6, <3>1
  <2>2. CASE k # 1
    <3>1. k \in 2..Len(m) /\ (i-1)+k \in 1..Len(r)
      BY <1>1, <1>2, <2>2
    <3>2. r[(i-1)+k].depth > t[i].depth /\ r[(i-1)+k].depth \in Nat /\ t[i].depth \in Nat
      BY <1>1, <1>3, <1>8, <3>1
    <3> QED BY <3>2
  <2> QED BY <2>1, <2>2
<1>10. ASSUME NEW n \in 2..Len(r)
       PROVE  r[1].depth < r[n].depth /\ r[n].depth <= r[n-1].depth + 1
  <2>0. r[1].depth \in Nat /\ r[n].depth \in Nat /\ r[n-1].depth \in Nat /\ t[i].depth \in Nat
    <3>1. 1 \in 1..Len(r) /\ n \in 1..Len(r) /\ n-1 \in 1..Len(r)
      BY <1>1, <1>2
    <3> QED BY <1>1, <1>3, <3>1
  <2>1. CASE n < i
    <3>0. 1 \in 1..(i-1) /\ n \in 1..(i-1) /\ n-1 \in 1..(i-1) /\ n \in 2..Len(t)
      BY <1>0, <2>1
    <3>1. r[1] = t[1] /\ r[n] = t[n] /\ r[n-1] = t[n-1] /\ n \in 2..Len(t)
      BY <1>7, <3>0
    <3> QED BY <1>4, <3>1
  <2>2. CASE n = i
    <3>1. r[1] = t[1] /\ r[n-1] = t[n-1]
      BY <1>1, <1>7, <2>2
    <3>2. i \in 2..Len(t)
      BY <1>1, <2>2
    <3>3. t[1].depth < t[i].depth /\ t[i].depth <= t[i-1].depth + 1
      BY <1>4, <3>2
    <3> QED BY <1>6, <2>2, <3>1, <3>3
  <2>3. CASE i < n /\ n <= (i-1)+Len(m)
    <3>1. PICK k \in 2..Len(m) : n = (i-1)+k /\ n-1 = (i-1)+(k-1)
      <4>1. n-(i-1) \in 2..Len(m) /\ n = (i-1)+(n-(i-1)) /\ n-1 = (i-1)+((n-(i-1))-1)
        BY <1>1, <1>2, <2>3
      <4> QED BY <4>1
    <3>2. r[n].depth > t[i].depth /\ r[n].depth <= r[n-1].depth + 1
      BY <1>8, <3>1
    <3>3. r[1].depth <= t[i].depth
      <4>1. CASE i = 1
        BY <1>6, <2>0, <4>1
      <4>2. CASE i > 1
        <5>1. r[1] = t[1] /\ i \in 2..Len(t)
          BY <1>1, <1>7, <4>2
        <5>2. t[1].depth < t[i].depth
          BY <1>4, <5>1
        <5> QED BY <2>0, <5>1, <5>2
      <4> QED BY <1>0, <4>1, <4>2
    <3>4. \A x, y, z \in Nat : x <= y /\ z > y => x < z
      OBVIOUS
    <3>5. r[1].depth < r[n].depth
      BY <2>0, <3>2, <3>3, <3>4
    <3> QED BY <3>2, <3>5
  <2>4. CASE (i-1)+Len(m) < n
    <3>1. PICK k \in 1..(Len(t)-e) : n = (i-1)+Len(m)+k
      <4>1. n-((i-1)+Len(m)) \in 1..(Len(t)-e) /\ n = (i-1)+Len(m)+(n-((i-1)+Len(m)))
        BY <1>1, <1>2, <2>4
      <4> QED BY <4>1
    <3>2. r[n] = t[e+k] /\ e+k \in 2..Len(t)
      BY <1>1, <1>2, <3>1
    <3>3. i > 1 /\ r[1] = t[1]
      <4>1. i # 1
        BY <1>0, <1>5, <3>1
      <4>2. i > 1 /\ 1 \in 1..(i-1)
        BY <1>0, <4>1
      <4> QED BY <1>7, <4>2
    <3>4. t[1].depth < t[e+k].depth /\ t[e+k].depth <= t[(e+k)-1].depth + 1
      BY <1>4, <3>2
    <3>5. CASE k = 1
      <4>1. t[e+k].depth <= t[i].depth
        BY <1>0, <1>1, <3>1, <3>5
      <4>2. Len(m) \in 1..Len(m) /\ n-1 = (i-1)+Len(m)
        BY <1>1, <3>1, <3>5
      <4>3. r[n-1].depth >= t[i].depth
        BY <1>9, <4>2
      <4>4. \A x, y, z \in Nat : x <= y /\ z >= y => x <= z + 1
        OBVIOUS
      <4>5. r[n].depth <= t[i].depth
        BY <3>2, <4>1
      <4>6. r[n].depth <= r[n-1].depth + 1
        BY <2>0, <4>3, <4>4, <4>5
      <4> QED BY <3>2, <3>3, <3>4, <4>6
    <3>6. CASE k > 1
      <4>1. k-1 \in 1..(Len(t)-e) /\ n-1 = (i-1)+Len(m)+(k-1) /\ e+(k-1) = (e+k)-1
        BY <1>1, <3>1, <3>6
      <4>2. r[n-1] = t[(e+k)-1]
        BY <1>2, <4>1
      <4> QED BY <3>2, <3>3, <3>4, <4>2
    <3> QED BY <3>5, <3>6
  <2> QED BY <1>1, <2>1, <2>2, <2>3, <2>4
<1>11. IsTree(r)
  <2>1. Len(r) > 0
    BY <1>1, <1>2
  <2> QED BY <1>10, <2>1 DEF IsTree
<1>12. i \in 1..Len(r)
  BY <1>1, <1>2
<1>13. IsSubtreeEnd(r, i, (i-1)+Len(m))
  <2>1. (i-1)+Len(m) \in i..Len(r)
    BY <1>1, <1>2
  <2>2. ASSUME NEW n \in (i+1)..((i-1)+Len(m)) PROVE r[n].depth > r[i].depth
    <3>1. n-(i-1) \in 2..Len(m) /\ n = (i-1)+(n-(i-1))
      BY <1>1
    <3> QED BY <1>6, <1>8, <3>1
  <2>3. ASSUME (i-1)+Len(m) < Len(r)
        PROVE  r[((i-1)+Len(m))+1].depth <= r[i].depth
    <3>1. 1 \in 1..(Len(t)-e) /\ e < Len(t)
      BY <1>1, <1>2, <2>3
    <3>2. r[(i-1)+Len(m)+1] = t[e+1] /\ t[e+1].depth <= t[i].depth
      BY <1>1, <1>2, <3>1
    <3> QED BY <1>6, <3>2
  <2> QED BY <2>1, <2>2, <2>3 DEF IsSubtreeEnd
<1>14. r[1].depth = t[1].depth /\ (m[1].id = t[i].id => r[1].id = t[1].id)
  <2>1. CASE i = 1
    BY <1>6, <2>1
  <2>2. CASE i > 1
    <3>1. 1 \in 1..(i-1)
      BY <1>1, <2>2
    <3> QED BY <1>7, <3>1
  <2> QED BY <1>1, <2>1, <2>2
<1>15. SubtreeEnd(r, i) = (i-1) + Len(m)
  BY <1>2, <1>12, <1>13, SubtreeEndIs
<1> QED
  BY <1>11, <1>12, <1>14, <1>15 DEF r

-----------------------------------------------------------------------------
(* Where the recursion edges of the new tree come from: from t before the  *)
(* cut (node i included, which keeps its id), from m, or from t after it.  *)
LEMMA ReplaceEdges ==
  ASSUME NEW N, NodeSet(N), NEW t \in Seq(N), NEW m \in Seq(N),
         NEW i \in 1..Len(t), IsTree(t), IsTree(m), m[1].id = t[i].id,
         NEW x \in EdgeSet(ReplaceSubtree(t, i, m))
  PROVE  \/ x <= i /\ x \in EdgeSet(t)
         \/ i < x /\ x <= (i-1)+Len(m) /\ x-(i-1) \in EdgeSet(m)
         \/ (i-1)+Len(m) < x /\ x - ((i-1)+Len(m)) + SubtreeEnd(t, i) \in EdgeSet(t)
<1> DEFINE e == SubtreeEnd(t, i)
           r == ReplaceSubtree(t, i, m)
           l == (i-1)+Len(m)
<1>1. /\ \A n \in 1..Len(t) : t[n].depth \in Nat
      /\ \A n \in 1..Len(m) : m[n].depth \in Nat
      /\ \A n \in (i+1)..e : t[n].depth > t[i].depth
      /\ e < Len(t) => t[e+1].depth <= t[i].depth
      /\ \A n \in 1..Len(r) : r[n].depth \in Nat
  BY TreeTyping, SubtreeEndExists, ReplaceElements DEF IsSubtreeEnd
<1>2. /\ \A k \in 1..(i-1) : r[k] = t[k]
      /\ \A k \in 1..Len(m) : /\ r[(i-1)+k].id = m[k].id
                              /\ r[(i-1)+k].depth = m[k].depth - m[1].depth + t[i].depth
      /\ \A k \in 1..(Len(t)-e) : r[l+k] = t[e+k]
  <2>0. i \in 1..Len(t) /\ t \in Seq(N) /\ m \in Seq(N) /\ IsTree(m)
    OBVIOUS
  <2>1. \A k \in 1..(i-1) : r[k] = t[k]
    <3> SUFFICES ASSUME NEW k \in 1..(i-1)
                 PROVE  ReplaceSubtree(t, i, m)[k] = t[k]
      OBVIOUS
    <3> QED BY <2>0, ReplaceBefore
  <2>2. \A k \in 1..Len(m) : /\ r[(i-1)+k].id = m[k].id
                             /\ r[(i-1)+k].depth = m[k].depth - m[1].depth + t[i].depth
    <3> SUFFICES ASSUME NEW k \in 1..Len(m)
                 PROVE  /\ ReplaceSubtree(t, i, m)[(i-1)+k].id = m[k].id
                        /\ ReplaceSubtree(t, i, m)[(i-1)+k].depth
                             = m[k].depth - m[1].depth + t[i].depth
      OBVIOUS
    <3> QED BY <2>0, ReplaceInside
  <2>3. \A k \in 1..(Len(t)-e) : r[(i-1)+Len(m)+k] = t[e+k]
    <3> SUFFICES ASSUME NEW k \in 1..(Len(t)-SubtreeEnd(t, i))
                 PROVE  ReplaceSubtree(t, i, m)[(i-1)+Len(m)+k] = t[SubtreeEnd(t, i)+k]
      OBVIOUS
    <3> QED BY <2>0, ReplaceAfter
  <2> HIDE DEF e, r
  <2> QED BY <2>1, <2>2, <2>3
<1>3. /\ i \in Nat /\ e \in Nat /\ l \in Nat
      /\ Len(t) \in Nat /\ Len(m) \in Nat /\ Len(r) \in Nat
      /\ 1 <= i /\ i <= e /\ e <= Len(t) /\ i <= l /\ l = (i-1)+Len(m)
      /\ Len(r) = l + (Len(t)-e)
  <2>1. /\ Len(t) \in Nat /\ Len(m) \in Nat /\ Len(m) > 0 /\ e \in i..Len(t)
        /\ Len(r) = (i-1) + Len(m) + (Len(t)-e)
    BY SubtreeEndExists, ReplaceLength, LenProperties DEF IsTree
  <2> HIDE DEF e, r
  <2> QED BY <2>1
<1>4. IsSubtreeEnd(r, i, l)
  <2>1. r \in Seq(N) /\ i \in 1..Len(r) /\ SubtreeEnd(r, i) = l
    BY ReplaceLength, ReplaceIsTree
  <2> HIDE DEF r, l
  <2> QED BY <2>1, SubtreeEndExists
<1>5. PICK p \in 1..(x-1) : IsParent(r, p, x) /\ r[p].id = r[x].id /\ x \in 2..Len(r)
  BY DEF EdgeSet
<1> HIDE DEF e, r, l
<1>6. /\ x \in Nat /\ p \in Nat /\ 1 <= p /\ p < x /\ 2 <= x /\ x <= Len(r)
      /\ r[p].depth + 1 = r[x].depth
      /\ \A k \in (p+1)..(x-1) : r[k].depth >= r[x].depth
  BY <1>3, <1>5 DEF IsParent
<1>60. x \in Nat /\ p \in Nat /\ 1 <= p /\ p < x /\ 2 <= x /\ x <= Len(r)
  BY <1>6
<1>7. r[i].id = t[i].id /\ r[i].depth = t[i].depth
  <2>1. 1 \in 1..Len(m) /\ (i-1)+1 = i /\ i \in 1..Len(t)
    BY <1>3
  <2>2. r[i].id = m[1].id /\ r[i].depth = m[1].depth - m[1].depth + t[i].depth
    BY <1>2, <2>1
  <2>3. m[1].depth \in Nat /\ t[i].depth \in Nat
    BY <1>1, <2>1
  <2> QED BY <2>2, <2>3
<1>8. \A k \in (i+1)..l : r[k].depth > t[i].depth
  BY <1>4, <1>7 DEF IsSubtreeEnd
<1>9. CASE x <= i
  <2>1. r[x].id = t[x].id /\ r[x].depth = t[x].depth /\ r[p] = t[p] /\ x \in 2..Len(t)
    <3>1. p \in 1..(i-1) /\ x \in 2..Len(t) /\ (x = i \/ x \in 1..(i-1))
      BY <1>3, <1>60, <1>9
    <3> QED BY <1>2, <1>7, <3>1
  <2>2. \A k \in (p+1)..(x-1) : t[k].depth >= t[x].depth
    <3> SUFFICES ASSUME NEW k \in (p+1)..(x-1) PROVE t[k].depth >= t[x].depth
      OBVIOUS
    <3>1. k \in 1..(i-1)
      BY <1>3, <1>60, <1>9
    <3>2. r[k] = t[k] /\ r[k].depth >= r[x].depth
      BY <1>2, <1>6, <3>1
    <3> QED BY <2>1, <3>2
  <2>3. t[p].depth + 1 = t[x].depth
    BY <1>6, <2>1
  <2>4. IsParent(t, p, x)
    BY <2>2, <2>3 DEF IsParent
  <2>5. x \in EdgeSet(t)
    BY <1>5, <2>1, <2>4 DEF EdgeSet
  <2> QED BY <1>9, <2>5
<1>10. CASE i < x /\ x <= l
  <2>1. p >= i
    <3> SUFFICES ASSUME p < i PROVE FALSE
      BY <1>3, <1>60
    <3>1. i \in (p+1)..(x-1) /\ x \in (i+1)..l /\ i \in 1..Len(r) /\ x \in 1..Len(r)
      BY <1>3, <1>60, <1>10
    <3>2. r[i].depth >= r[x].depth /\ r[x].depth > r[i].depth
      BY <1>6, <1>7, <1>8, <3>1
    <3>3. r[i].depth \in Nat /\ r[x].depth \in Nat
      BY <1>1, <3>1
    <3> QED BY <3>2, <3>3
  <2>2. PICK y \in 2..Len(m) : x = (i-1)+y /\ \E q \in 1..(y-1) : p = (i-1)+q
    <3>1. x-(i-1) \in 2..Len(m) /\ p-(i-1) \in 1..((x-(i-1))-1)
          /\ x = (i-1)+(x-(i-1)) /\ p = (i-1)+(p-(i-1))
      BY <1>3, <1>60, <1>10, <2>1
    <3> QED BY <3>1
  <2>20. PICK q \in 1..(y-1) : p = (i-1)+q
    BY <2>2
  <2>3. y \in 1..Len(m) /\ q \in 1..Len(m) /\ 1 \in 1..Len(m) /\ y \in Nat /\ q \in Nat /\ y-1 \in Nat
    BY <1>3
  <2>4. /\ r[x].id = m[y].id /\ r[x].depth = m[y].depth - m[1].depth + t[i].depth
        /\ r[p].id = m[q].id /\ r[p].depth = m[q].depth - m[1].depth + t[i].depth
    BY <1>2, <2>2, <2>20, <2>3
  <2>5. m[y].depth \in Nat /\ m[q].depth \in Nat /\ m[1].depth \in Nat /\ t[i].depth \in Nat
    BY <1>1, <2>3
  <2>6. m[q].depth + 1 = m[y].depth
    <3>1. (m[q].depth - m[1].depth + t[i].depth) + 1 = m[y].depth - m[1].depth + t[i].depth
      BY <1>6, <2>4
    <3>2. PICK a \in Nat, b \in Nat, c \in Nat, d \in Nat :
            a = m[q].depth /\ b = m[y].depth /\ c = m[1].depth /\ d = t[i].depth
      BY <2>5
    <3>3. (a - c + d) + 1 = b - c + d
      BY <3>1, <3>2
    <3>4. a + 1 = b
      BY <3>3
    <3> QED BY <3>2, <3>4
  <2>7. ASSUME NEW k \in (q+1)..(y-1) PROVE m[k].depth >= m[y].depth
    <3>1. k \in 1..Len(m) /\ (i-1)+k \in (p+1)..(x-1)
      BY <1>3, <2>2, <2>20, <2>3
    <3>2. r[(i-1)+k].depth = m[k].depth - m[1].depth + t[i].depth /\ r[(i-1)+k].depth >= r[x].depth
      BY <1>2, <1>6, <3>1
    <3>3. m[k].depth \in Nat
      BY <1>1, <3>1
    <3>4. \A a, b, c, d \in Nat : a - c + d >= b - c + d => a >= b
      OBVIOUS
    <3>5. m[k].depth - m[1].depth + t[i].depth >= m[y].depth - m[1].depth + t[i].depth
      BY <2>4, <3>2
    <3> QED BY <2>5, <3>3, <3>4, <3>5
  <2>8. IsParent(m, q, y)
    BY <2>6, <2>7 DEF IsParent
  <2>9. y \in EdgeSet(m)
    BY <1>5, <2>4, <2>8 DEF EdgeSet
  <2>10. x-(i-1) = y
    BY <1>3, <2>2, <2>3
  <2> QED BY <1>10, <2>9, <2>10 DEF l
<1>11. CASE l < x
  <2>1. PICK y \in (e+1)..Len(t) : x = l + (y-e) /\ y-e \in 1..(Len(t)-e)
    <3>1. (x-l)+e \in (e+1)..Len(t) /\ x = l + (((x-l)+e)-e) /\ ((x-l)+e)-e \in 1..(Len(t)-e)
      BY <1>3, <1>60, <1>11
    <3> QED BY <3>1
  <2>2. y \in Nat /\ e < y /\ y <= Len(t) /\ y \in 2..Len(t) /\ e + (y-e) = y /\ x-y = l-e
    BY <1>3, <2>1
  <2>3. r[x] = t[y]
    BY <1>2, <2>1, <2>2
  <2>4. ASSUME NEW k \in (e+1)..Len(t) PROVE r[l+(k-e)] = t[k]
    <3>1. k-e \in 1..(Len(t)-e) /\ e + (k-e) = k
      BY <1>3
    <3> QED BY <1>2, <3>1
  <2>5. ASSUME p < i PROVE y \in EdgeSet(t)
    <3>1. r[p] = t[p]
      <4>1. p \in 1..(i-1)
        BY <1>3, <1>60, <2>5
      <4> QED BY <1>2, <4>1
    <3>2. i \in (p+1)..(x-1) /\ i \in 1..Len(t) /\ y \in 1..Len(t) /\ p \in 1..(y-1)
      BY <1>3, <1>60, <1>11, <2>2, <2>5, <2>1, SMTT(30)
    <3>3. t[i].depth >= t[y].depth /\ t[i].depth \in Nat /\ t[y].depth \in Nat
      BY <1>1, <1>6, <1>7, <2>3, <3>2
    <3>4. ASSUME NEW k \in (p+1)..(y-1) PROVE t[k].depth >= t[y].depth
      <4>1. CASE k < i
        <5>1. k \in (p+1)..(x-1) /\ k \in 1..(i-1)
          BY <1>3, <1>60, <1>11, <2>2, <4>1
        <5> QED BY <1>2, <1>6, <2>3, <5>1
      <4>2. CASE i <= k /\ k <= e
        <5>1. k = i \/ k \in (i+1)..e
          BY <1>3, <1>60, <4>2
        <5>2. k = i \/ t[k].depth > t[i].depth
          BY <1>1, <5>1
        <5>3. t[k].depth \in Nat
          <6>1. k \in 1..Len(t)
            BY <1>3, <1>60, <4>2
          <6> QED BY <1>1, <6>1
        <5>4. \A a, b, c \in Nat : b >= c /\ a > b => a >= c
          OBVIOUS
        <5> QED BY <3>3, <5>2, <5>3, <5>4
      <4>3. CASE e < k
        <5>1. k \in (e+1)..Len(t) /\ l+(k-e) \in (p+1)..(x-1)
          BY <1>3, <1>60, <2>1, <2>2, <2>5, <4>3, SMTT(30)
        <5>2. r[l+(k-e)] = t[k] /\ r[l+(k-e)].depth >= r[x].depth
          BY <1>6, <2>4, <5>1
        <5> QED BY <2>3, <5>2
      <4>4. k \in Int /\ e \in Int /\ i \in Int
        BY <1>3, <1>60
      <4> QED BY <4>1, <4>2, <4>3, <4>4
    <3>5. IsParent(t, p, y)
      BY <1>6, <2>3, <3>1, <3>2, <3>4 DEF IsParent
    <3>6. t[p].id = t[y].id
      BY <1>5, <2>3, <3>1
    <3> QED BY <2>2, <3>2, <3>5, <3>6 DEF EdgeSet
  <2>6. ASSUME i <= p /\ p <= l PROVE FALSE
    <3>1. /\ l+1 \in 1..Len(r) /\ i \in 1..Len(r) /\ p \in 1..Len(r) /\ x \in 1..Len(r)
          /\ l < Len(r)
      BY <1>3, <1>60, <1>11, <2>6, SMTT(30)
    <3>2. r[l+1].depth <= r[i].depth
      BY <1>4, <3>1 DEF IsSubtreeEnd
    <3>3. p = i \/ p \in (i+1)..l
      BY <1>3, <1>60, <2>6
    <3>4. x = l+1 \/ l+1 \in (p+1)..(x-1)
      BY <1>3, <1>60, <1>11, <2>6, SMTT(30)
    <3>5. r[l+1].depth \in Nat /\ r[i].depth \in Nat /\ r[p].depth \in Nat /\ r[x].depth \in Nat
      BY <1>1, <3>1
    <3>6. p = i \/ r[p].depth > r[i].depth
      BY <1>7, <1>8, <3>3
    <3>7. x = l+1 \/ r[l+1].depth >= r[x].depth
      BY <1>6, <3>4
    <3>8. r[p].depth + 1 = r[x].depth
      BY <1>6
    <3>9. \A a, b, c, d \in Nat : (b <= a /\ (c = a \/ c > a) /\ (d = b \/ b >= d)) => c + 1 # d
      OBVIOUS
    <3> QED BY <3>2, <3>5, <3>6, <3>7, <3>8, <3>9
  <2>7. ASSUME l < p PROVE y \in EdgeSet(t)
    <3>1. PICK q \in (e+1)..Len(t) : p = l + (q-e) /\ q \in 1..(y-1)
      <4>1. (p-l)+e \in (e+1)..Len(t) /\ p = l + (((p-l)+e)-e) /\ (p-l)+e \in 1..(y-1)
        <5>1. /\ l \in Nat /\ e \in Nat /\ y \in Nat /\ p \in Nat /\ x \in Nat /\ Len(t) \in Nat
              /\ l < p /\ p < x /\ x-y = l-e /\ y <= Len(t)
          BY <1>3, <1>60, <2>2, <2>7
        <5> QED BY <5>1
      <4> QED BY <4>1
    <3>2. r[p] = t[q]
      BY <2>4, <3>1
    <3>3. ASSUME NEW k \in (q+1)..(y-1) PROVE t[k].depth >= t[y].depth
      <4>1. k \in (e+1)..Len(t) /\ l+(k-e) \in (p+1)..(x-1)
        <5>1. q \in Nat /\ k \in Nat /\ e < q /\ q < k /\ k < y
          BY <1>3, <2>2, <3>1
        <5>2. p = l + (q-e) /\ x = l + (y-e) /\ l \in Nat /\ e \in Nat /\ y <= Len(t)
              /\ y \in Nat /\ p \in Nat /\ x \in Nat /\ Len(t) \in Nat
          BY <1>3, <1>60, <2>1, <2>2, <3>1
        <5> QED BY <5>1, <5>2
      <4>2. r[l+(k-e)] = t[k] /\ r[l+(k-e)].depth >= r[x].depth
        BY <1>6, <2>4, <4>1
      <4> QED BY <2>3, <4>2
    <3>4. IsParent(t, q, y)
      BY <1>6, <2>3, <3>1, <3>2, <3>3 DEF IsParent
    <3>5. t[q].id = t[y].id
      BY <1>5, <2>3, <3>2
    <3> QED BY <2>2, <3>1, <3>4, <3>5 DEF EdgeSet
  <2>8. y \in EdgeSet(t)
    <3>1. p < i \/ (i <= p /\ p <= l) \/ l < p
      BY <1>3, <1>60
    <3>2. CASE p < i
      BY <2>5, <3>2
    <3>3. CASE i <= p /\ p <= l
      BY <2>6, <3>3
    <3>4. CASE l < p
      BY <2>7, <3>4
    <3> QED BY <3>1, <3>2, <3>3, <3>4
  <2>9. (x-l)+e = y
    BY <1>3, <1>60, <2>1, <2>2
  <2> QED BY <1>11, <2>8, <2>9 DEF e, l
<1> QED
  BY <1>3, <1>60, <1>9, <1>10, <1>11 DEF l

-----------------------------------------------------------------------------
(* The tails that grow when an edge is repeated: what the first one is and *)
(* each clone keeps, they all are.                                         *)
LEMMA TailsStep ==
  ASSUME NEW part, NEW at, NEW num \in Nat, NEW V, NEW tail \in V,
         \A m \in V : ReplaceSubtree(part, at, m) \in V
  PROVE  /\ Tails(part, at, tail, num)[0] = tail
         /\ \A n \in 0..num : Tails(part, at, tail, num)[n] \in V
         /\ \A n \in 1..num : Tails(part, at, tail, num)[n] =
                                ReplaceSubtree(part, at, Tails(part, at, tail, num)[n-1])
<1> DEFINE Only(x) == CHOOSE r \in {ReplaceSubtree(part, at, m) : m \in {x}} : TRUE
           Body(f) == [n \in 0..num |-> IF n = 0 THEN tail ELSE Only(f[n-1])]
           F == CHOOSE f : f = Body(f)
<1>1. \A x : Only(x) = ReplaceSubtree(part, at, x)
  OBVIOUS
<1>2. Tails(part, at, tail, num) = F
  BY DEF Tails
<1> HIDE DEF Only
<1>3. \E f : f = Body(f)
  <2> DEFINE h == [p \in (1..num) \X V |-> ReplaceSubtree(part, at, p[2])]
  <2>1. IsStep(h, num, V)
    BY DEF IsStep
  <2>2. \A k \in 1..num, v \in V : h[<<k, v>>] = ReplaceSubtree(part, at, v)
    OBVIOUS
  <2> HIDE DEF h
  <2>3. PICK f \in [0..num -> V] : Follows(f, h, num, tail)
    BY <2>1, RecursionExists
  <2>4. \A n \in 0..num : f[n] = IF n = 0 THEN tail ELSE Only(f[n-1])
    <3> TAKE n \in 0..num
    <3>1. n # 0 => n \in 1..num /\ n-1 \in 0..num
      OBVIOUS
    <3> QED BY <1>1, <2>2, <2>3, <3>1 DEF Follows
  <2>5. f = Body(f)
    BY <2>3, <2>4
  <2> QED BY <2>5
<1>4. F = Body(F)
  <2> HIDE DEF Body
  <2> QED BY <1>3
<1> HIDE DEF F
<1>5. F[0] = tail /\ \A n \in 1..num : F[n] = Only(F[n-1])
  BY <1>4
<1>6. \A n \in 1..num : F[n-1] \in V => F[n] \in V
  BY <1>1, <1>5
<1>7. \A n \in 0..num : F[n] \in V
  BY <1>5, <1>6, RecursionStays
<1> QED BY <1>1, <1>2, <1>5, <1>7

(* Repeating an edge makes a tree with the same root symbol.               *)
LEMMA RepeatEdgeIsTree ==
  ASSUME NEW N, NodeSet(N), NEW t \in Seq(N), IsTree(t), NEW c \in 2..Len(t),
         ParentOf(t, c) \in 1..(c-1), c <= SubtreeEnd(t, ParentOf(t, c)),
         t[ParentOf(t, c)].id = t[c].id, NEW num \in Nat
  PROVE  /\ RepeatEdge(t, c, num) \in Seq(N)
         /\ IsTree(RepeatEdge(t, c, num))
         /\ RepeatEdge(t, c, num)[1].id = t[1].id
<1> DEFINE p == ParentOf(t, c)
           part == Subtree(t, p)
           at == c-p+1
           V == {x \in Seq(N) : IsTree(x) /\ x[1].id = t[c].id}
<1>1. c \in 1..Len(t) /\ p \in 1..Len(t) /\ Len(t) \in Nat
  BY LenProperties
<1> HIDE DEF p
<1>2. /\ part \in Seq(N) /\ IsTree(part) /\ part[1].id = t[c].id
      /\ at \in 1..Len(part) /\ part[at].id = t[c].id
  <2>1. /\ part \in Seq(N) /\ Len(part) = SubtreeEnd(t, p) - p + 1
        /\ \A k \in 1..(SubtreeEnd(t, p) - p + 1) : part[k] = t[p+k-1]
    BY <1>1, SubtreeElements
  <2>2. SubtreeEnd(t, p) \in p..Len(t)
    BY <1>1, SubtreeEndExists
  <2>3. at \in 1..(SubtreeEnd(t, p) - p + 1) /\ p+at-1 = c
    <3>1. p \in Int /\ c \in Int /\ SubtreeEnd(t, p) \in Int /\ p < c /\ c <= SubtreeEnd(t, p)
      BY <1>1, <2>2 DEF p
    <3> QED BY <3>1
  <2>4. IsTree(part) /\ part[1] = t[p]
    BY <1>1, SubtreeIsTree
  <2> QED BY <2>1, <2>3, <2>4 DEF p
<1>3. Subtree(t, c) \in V
  <2>1. Subtree(t, c) \in Seq(N) /\ IsTree(Subtree(t, c)) /\ Subtree(t, c)[1] = t[c]
    BY <1>1, SubtreeElements, SubtreeIsTree
  <2> QED BY <2>1
<1>4. \A m \in V : ReplaceSubtree(part, at, m) \in V
  <2> HIDE DEF part, at
  <2> TAKE m \in V
  <2>1. ReplaceSubtree(part, at, m) \in Seq(N)
    BY <1>2, ReplaceElements
  <2>2. IsTree(ReplaceSubtree(part, at, m)) /\ ReplaceSubtree(part, at, m)[1].id = part[1].id
    BY <1>2, ReplaceIsTree
  <2> QED BY <1>2, <2>1, <2>2
<1> DEFINE tail == Tails(part, at, Subtree(t, c), num)[num]
<1>5. tail \in V
  <2> HIDE DEF part, at, V
  <2>1. num \in 0..num
    OBVIOUS
  <2> QED BY <1>3, <1>4, <2>1, TailsStep
<1>6. RepeatEdge(t, c, num) = ReplaceSubtree(t, c, tail)
  BY DEF RepeatEdge, p
<1> HIDE DEF tail
<1>7. ReplaceSubtree(t, c, tail) \in Seq(N)
  BY <1>1, <1>5, ReplaceElements
<1>8. /\ IsTree(ReplaceSubtree(t, c, tail))
      /\ ReplaceSubtree(t, c, tail)[1].id = t[1].id
  BY <1>1, <1>5, ReplaceIsTree
<1> QED BY <1>6, <1>7, <1>8

-----------------------------------------------------------------------------
(* A tree has finitely many recursion edges, none above its second node.   *)
LEMMA EdgeSetFinite ==
  ASSUME NEW N, NodeSet(N), NEW t \in Seq(N)
  PROVE  /\ EdgeSet(t) \subseteq 2..Len(t)
         /\ IsFiniteSet(EdgeSet(t))
         /\ Cardinality(EdgeSet(t)) \in Nat
<1>1. Len(t) \in Nat
  BY LenProperties
<1>2. EdgeSet(t) \subseteq 2..Len(t)
  BY DEF EdgeSet
<1>3. IsFiniteSet(2..Len(t))
  BY <1>1, FS_Interval
<1>4. IsFiniteSet(EdgeSet(t))
  BY <1>2, <1>3, FS_Subset
<1> QED
  BY <1>2, <1>4, FS_CardinalityType

(* The child of an edge has one parent, which has the child's id and whose *)
(* subtree holds the child's whole subtree.                                *)
LEMMA EdgeParent ==
  ASSUME NEW N, NodeSet(N), NEW t \in Seq(N), NEW c \in EdgeSet(t)
  PROVE  /\ c \in 2..Len(t)
         /\ ParentOf(t, c) \in 1..(c-1)
         /\ t[ParentOf(t, c)].id = t[c].id
         /\ SubtreeEnd(t, c) <= SubtreeEnd(t, ParentOf(t, c))
         /\ c <= SubtreeEnd(t, c)
<1>1. /\ Len(t) \in Nat
      /\ \A n \in 1..Len(t) : t[n].depth \in Nat
  BY TreeTyping
<1>2. c \in 2..Len(t) /\ c \in Nat /\ 2 <= c /\ c <= Len(t) /\ c \in 1..Len(t)
  BY <1>1 DEF EdgeSet
<1>3. PICK p \in 1..(c-1) : IsParent(t, p, c) /\ t[p].id = t[c].id
  BY DEF EdgeSet
<1>4. p \in Nat /\ 1 <= p /\ p < c /\ p \in 1..Len(t)
  BY <1>1, <1>2
<1>5. /\ t[p].depth + 1 = t[c].depth
      /\ \A k \in (p+1)..(c-1) : t[k].depth >= t[c].depth
  BY <1>3 DEF IsParent
<1>6. \A q \in 1..(c-1) : IsParent(t, q, c) => q = p
  <2> SUFFICES ASSUME NEW q \in 1..(c-1), IsParent(t, q, c), q # p PROVE FALSE
    OBVIOUS
  <2>1. /\ t[q].depth + 1 = t[c].depth
        /\ \A k \in (q+1)..(c-1) : t[k].depth >= t[c].depth
    BY DEF IsParent
  <2>2. q \in 1..Len(t) /\ (p \in (q+1)..(c-1) \/ q \in (p+1)..(c-1))
    BY <1>2, <1>4
  <2>3. t[p].depth \in Nat /\ t[q].depth \in Nat /\ t[c].depth \in Nat
    BY <1>1, <1>2, <1>4, <2>2
  <2>4. t[p].depth >= t[c].depth \/ t[q].depth >= t[c].depth
    BY <1>5, <2>1, <2>2
  <2> QED BY <1>5, <2>1, <2>3, <2>4
<1>7. ParentOf(t, c) = p
  <2>1. ParentOf(t, c) \in 1..(c-1) /\ IsParent(t, ParentOf(t, c), c)
    BY <1>3 DEF ParentOf
  <2> QED BY <1>6, <2>1
<1> DEFINE e == SubtreeEnd(t, c)
           f == SubtreeEnd(t, p)
<1>8. /\ e \in c..Len(t) /\ f \in p..Len(t)
      /\ \A k \in (c+1)..e : t[k].depth > t[c].depth
      /\ f < Len(t) => t[f+1].depth <= t[p].depth
  BY <1>2, <1>4, SubtreeEndExists DEF IsSubtreeEnd
<1> HIDE DEF e, f
<1>9. e \in Nat /\ f \in Nat /\ c <= e /\ e <= Len(t) /\ p <= f /\ f <= Len(t)
  BY <1>1, <1>2, <1>4, <1>8
<1>10. e <= f
  <2> SUFFICES ASSUME f < e PROVE FALSE
    BY <1>9
  <2>1. /\ f+1 \in 1..Len(t)
        /\ f+1 \in (p+1)..(c-1) \/ f+1 = c \/ f+1 \in (c+1)..e
    BY <1>1, <1>2, <1>4, <1>9
  <2>2. t[f+1].depth \in Nat /\ t[p].depth \in Nat /\ t[c].depth \in Nat
    BY <1>1, <1>2, <1>4, <2>1
  <2>3. t[f+1].depth >= t[c].depth \/ t[f+1].depth = t[c].depth \/ t[f+1].depth > t[c].depth
    BY <1>5, <1>8, <2>1
  <2>4. t[f+1].depth <= t[p].depth
    BY <1>1, <1>8, <1>9
  <2>5. \A a, b, d \in Nat : (a >= d \/ a = d \/ a > d) /\ a <= b => b + 1 # d
    OBVIOUS
  <2> QED BY <1>5, <2>2, <2>3, <2>4, <2>5
<1> QED
  BY <1>2, <1>3, <1>7, <1>9, <1>10 DEF e, f

(* The edges inside a subtree are edges of the tree.                       *)
LEMMA SubtreeEdges ==
  ASSUME NEW N, NodeSet(N), NEW t \in Seq(N), NEW c \in 1..Len(t),
         NEW y \in EdgeSet(Subtree(t, c))
  PROVE  /\ y \in 2..(SubtreeEnd(t, c) - c + 1)
         /\ (y-1)+c \in EdgeSet(t)
<1> DEFINE s == Subtree(t, c)
           e == SubtreeEnd(t, c)
<1>1. /\ Len(s) = e - c + 1
      /\ \A k \in 1..(e - c + 1) : s[k] = t[c+k-1]
  BY SubtreeElements
<1>2. e \in c..Len(t) /\ Len(t) \in Nat
  BY SubtreeEndExists, LenProperties
<1>3. PICK q \in 1..(y-1) : IsParent(s, q, y) /\ s[q].id = s[y].id /\ y \in 2..Len(s)
  BY DEF EdgeSet
<1> HIDE DEF s, e
<1>4. c \in Nat /\ e \in Nat /\ c <= e /\ e <= Len(t) /\ 1 <= c /\ Len(t) \in Nat
  BY <1>2
<1>5. y \in Nat /\ q \in Nat /\ 1 <= q /\ q < y /\ y <= e - c + 1
  BY <1>1, <1>3, <1>4
<1>6. ASSUME NEW k \in 1..(e - c + 1) PROVE s[k] = t[(k-1)+c]
  <2>1. c+k-1 = (k-1)+c
    BY <1>4
  <2> QED BY <1>1, <2>1
<1>7. y \in 1..(e - c + 1) /\ q \in 1..(e - c + 1) /\ y \in 2..(e - c + 1)
  BY <1>4, <1>5
<1>8. s[y] = t[(y-1)+c] /\ s[q] = t[(q-1)+c]
  BY <1>6, <1>7
<1> DEFINE child == (y-1)+c
           parent == (q-1)+c
<1>9. ASSUME NEW k \in (parent+1)..(child-1)
      PROVE  t[k].depth >= t[child].depth
  <2>1. /\ (k-c)+1 \in (q+1)..(y-1) /\ (k-c)+1 \in 1..(e - c + 1)
        /\ (((k-c)+1)-1)+c = k
    BY <1>4, <1>5
  <2>2. s[(k-c)+1] = t[k]
    BY <1>6, <2>1
  <2>3. s[(k-c)+1].depth >= s[y].depth
    BY <1>3, <2>1 DEF IsParent
  <2> QED BY <1>8, <2>2, <2>3
<1>10. child \in 2..Len(t) /\ parent \in 1..(child-1)
  BY <1>4, <1>5
<1>11. t[parent].depth + 1 = t[child].depth
  BY <1>3, <1>8 DEF IsParent
<1>12. t[parent].id = t[child].id
  BY <1>3, <1>8
<1> HIDE DEF child, parent
<1>13. IsParent(t, parent, child)
  BY <1>9, <1>10, <1>11 DEF IsParent
<1>14. child \in EdgeSet(t)
  BY <1>10, <1>12, <1>13 DEF EdgeSet
<1> QED
  BY <1>7, <1>14 DEF e, child

-----------------------------------------------------------------------------
(* Hanging a tree without edges in place of a subtree adds no edge.        *)
LEMMA ReplaceByMinimal ==
  ASSUME NEW N, NodeSet(N), NEW t \in Seq(N), NEW m \in Seq(N),
         NEW i \in 1..Len(t), IsTree(t), IsTree(m), m[1].id = t[i].id,
         EdgeSet(m) = {}
  PROVE  Cardinality(EdgeSet(ReplaceSubtree(t, i, m))) <= Cardinality(EdgeSet(t))
<1> DEFINE r == ReplaceSubtree(t, i, m)
           e == SubtreeEnd(t, i)
           l == (i-1)+Len(m)
           g == [x \in EdgeSet(r) |-> IF x <= i THEN x ELSE x - l + e]
<1>1. /\ r \in Seq(N) /\ e \in i..Len(t)
      /\ Len(t) \in Nat /\ Len(m) \in Nat /\ Len(m) > 0
  BY ReplaceElements, SubtreeEndExists, LenProperties DEF IsTree
<1>2. \A x \in EdgeSet(r) : \/ x <= i /\ x \in EdgeSet(t)
                            \/ l < x /\ x - l + e \in EdgeSet(t)
  BY ReplaceEdges
<1>3. EdgeSet(r) \subseteq 2..Len(r) /\ IsFiniteSet(EdgeSet(t))
  BY <1>1, EdgeSetFinite
<1> HIDE DEF r, e, l
<1>4. i \in Nat /\ 1 <= i /\ l \in Nat /\ i <= l /\ e \in Nat /\ i <= e
  BY <1>1 DEF l
<1>5. \A x \in EdgeSet(r) : x \in Int
  BY <1>3
<1>6. \A x \in EdgeSet(r) : g[x] \in EdgeSet(t)
  BY <1>2, <1>4, <1>5
<1>7. \A x, y \in EdgeSet(r) : g[x] = g[y] => x = y
  BY <1>2, <1>4, <1>5
<1>8. g \in Injection(EdgeSet(r), EdgeSet(t))
  <2>1. g \in [EdgeSet(r) -> EdgeSet(t)]
    BY <1>6
  <2>2. DOMAIN g = EdgeSet(r)
    OBVIOUS
  <2> HIDE DEF g
  <2> QED BY <1>7, <2>1, <2>2 DEF Injection, IsInjective
<1> HIDE DEF g
<1>9. Cardinality(EdgeSet(r)) <= Cardinality(EdgeSet(t))
  BY <1>3, <1>8, FS_Injection
<1> QED BY <1>9 DEF r

(* Where the recursion edges of the tree come from in which node c took    *)
(* the place of its parent i: from the same place before i, from the       *)
(* subtree of c or from behind the one of i, but never from c.             *)
PromotedFrom(t, c) ==
  LET i == ParentOf(t, c)
      e == SubtreeEnd(t, i)
      l == i + (SubtreeEnd(t, c) - c)
  IN  [x \in EdgeSet(PromoteSubtree(t, c)) |->
         IF x <= i THEN x ELSE IF x <= l THEN x - i + c ELSE x - l + e]

LEMMA PromoteEdges ==
  ASSUME NEW N, NodeSet(N), NEW t \in Seq(N), NEW c \in EdgeSet(t), IsTree(t)
  PROVE  /\ PromotedFrom(t, c) \in [EdgeSet(PromoteSubtree(t, c)) -> EdgeSet(t) \ {c}]
         /\ \A x, y \in EdgeSet(PromoteSubtree(t, c)) :
              x < y => PromotedFrom(t, c)[x] < PromotedFrom(t, c)[y]
         /\ PromoteSubtree(t, c) \in Seq(N) /\ IsTree(PromoteSubtree(t, c))
         /\ PromoteSubtree(t, c)[1].id = t[1].id
         /\ PromoteSubtree(t, c)[1].depth = t[1].depth
         /\ Len(PromoteSubtree(t, c)) = Len(t) - (SubtreeEnd(t, ParentOf(t, c)) - ParentOf(t, c))
                                               + (SubtreeEnd(t, c) - c)
<1> DEFINE i == ParentOf(t, c)
           m == Subtree(t, c)
           r == ReplaceSubtree(t, i, m)
           e == SubtreeEnd(t, i)
           f == SubtreeEnd(t, c)
           l == i + (f-c)
           g == PromotedFrom(t, c)
<1>0. Len(t) \in Nat
  BY LenProperties
<1>1. c \in 2..Len(t) /\ i \in 1..(c-1) /\ t[i].id = t[c].id /\ f <= e /\ c <= f
  BY EdgeParent
<1>2. c \in 1..Len(t) /\ i \in 1..Len(t)
  BY <1>0, <1>1
<1>3. /\ m \in Seq(N) /\ IsTree(m) /\ m[1] = t[c] /\ Len(m) = f - c + 1
      /\ f \in c..Len(t) /\ e \in i..Len(t)
  BY <1>2, SubtreeElements, SubtreeIsTree, SubtreeEndExists
<1>4. m[1].id = t[i].id
  BY <1>1, <1>3
<1>5. c \in 1..Len(t) /\ \A y \in EdgeSet(m) : y \in 2..(f-c+1) /\ (y-1)+c \in EdgeSet(t)
  BY <1>2, SubtreeEdges
<1>6. r = PromoteSubtree(t, c)
  BY DEF PromoteSubtree
<1>7. g = [x \in EdgeSet(r) |-> IF x <= i THEN x ELSE IF x <= l THEN x - i + c ELSE x - l + e]
  BY <1>6 DEF PromotedFrom
<1> HIDE DEF i, m, g
<1>8. /\ r \in Seq(N) /\ Len(r) = (i-1) + Len(m) + (Len(t)-e)
      /\ IsTree(r) /\ r[1].id = t[1].id /\ r[1].depth = t[1].depth
  <2>1. i \in 1..Len(t) /\ m \in Seq(N) /\ IsTree(m) /\ m[1].id = t[i].id
    BY <1>2, <1>3, <1>4
  <2>2. r \in Seq(N) /\ Len(r) = (i-1) + Len(m) + (Len(t)-e)
    BY <2>1, ReplaceElements
  <2>3. IsTree(r) /\ r[1].id = t[1].id /\ r[1].depth = t[1].depth
    BY <2>1, ReplaceIsTree
  <2> QED BY <2>2, <2>3
<1>9. \A x \in EdgeSet(r) : \/ x <= i /\ x \in EdgeSet(t)
                            \/ i < x /\ x <= (i-1)+Len(m) /\ x-(i-1) \in EdgeSet(m)
                            \/ (i-1)+Len(m) < x /\ x - ((i-1)+Len(m)) + e \in EdgeSet(t)
  BY <1>2, <1>3, <1>4, ReplaceEdges
<1>10. EdgeSet(r) \subseteq 2..Len(r)
  BY <1>8, EdgeSetFinite
<1> HIDE DEF r, e, f, l
<1>11. /\ i \in Nat /\ c \in Nat /\ f \in Nat /\ e \in Nat /\ l \in Nat /\ Len(m) \in Nat
       /\ 1 <= i /\ i < c /\ c <= f /\ f <= e /\ e <= Len(t)
       /\ Len(m) = f - c + 1 /\ l = i + (f-c) /\ (i-1)+Len(m) = l
  BY <1>0, <1>1, <1>2, <1>3 DEF l
<1>12. \A x \in EdgeSet(r) : x \in Int
  BY <1>10
<1>13. \A x \in EdgeSet(r) :
         \/ x <= i /\ x \in EdgeSet(t)
         \/ i < x /\ x <= l /\ x - i + c \in EdgeSet(t)
         \/ l < x /\ x - l + e \in EdgeSet(t)
  <2> SUFFICES ASSUME NEW x \in EdgeSet(r)
               PROVE  \/ x <= i /\ x \in EdgeSet(t)
                      \/ i < x /\ x <= l /\ x - i + c \in EdgeSet(t)
                      \/ l < x /\ x - l + e \in EdgeSet(t)
    OBVIOUS
  <2>1. CASE i < x /\ x <= l /\ x-(i-1) \in EdgeSet(m)
    <3>1. ((x-(i-1))-1)+c \in EdgeSet(t)
      BY <1>5, <2>1
    <3>2. ((x-(i-1))-1)+c = x - i + c
      BY <1>11, <1>12
    <3> QED BY <2>1, <3>1, <3>2
  <2> QED BY <1>9, <1>11, <2>1
<1>14. ASSUME NEW x \in EdgeSet(r) PROVE g[x] \in EdgeSet(t) \ {c}
  <2>1. g[x] = IF x <= i THEN x ELSE IF x <= l THEN x - i + c ELSE x - l + e
    BY <1>7
  <2>2. CASE x <= i /\ x \in EdgeSet(t)
    BY <1>11, <1>12, <2>1, <2>2
  <2>3. CASE i < x /\ x <= l /\ x - i + c \in EdgeSet(t)
    BY <1>11, <1>12, <2>1, <2>3
  <2>4. CASE l < x /\ x - l + e \in EdgeSet(t)
    BY <1>11, <1>12, <2>1, <2>4
  <2> QED BY <1>13, <2>2, <2>3, <2>4
<1>15. \A x, y \in EdgeSet(r) : x < y => g[x] < g[y]
  <2>1. \A x \in EdgeSet(r) : g[x] = IF x <= i THEN x ELSE IF x <= l THEN x - i + c ELSE x - l + e
    BY <1>7
  <2> QED BY <1>11, <1>12, <2>1
<1>16. g \in [EdgeSet(r) -> EdgeSet(t) \ {c}]
  BY <1>7, <1>14
<1>17. Len(r) = Len(t) - (e - i) + (f - c)
  BY <1>0, <1>8, <1>11
<1> HIDE DEF l
<1> QED BY <1>6, <1>8, <1>15, <1>16, <1>17 DEF r, e, f, g, i

(* Hanging the child of an edge in place of its parent takes at least that *)
(* edge away, and makes the tree smaller.                                  *)
LEMMA PromoteShrinks ==
  ASSUME NEW N, NodeSet(N), NEW t \in Seq(N), NEW c \in EdgeSet(t), IsTree(t)
  PROVE  /\ PromoteSubtree(t, c) \in Seq(N)
         /\ IsTree(PromoteSubtree(t, c))
         /\ PromoteSubtree(t, c)[1].id = t[1].id
         /\ PromoteSubtree(t, c)[1].depth = t[1].depth
         /\ Len(PromoteSubtree(t, c)) < Len(t)
         /\ Cardinality(EdgeSet(PromoteSubtree(t, c))) < Cardinality(EdgeSet(t))
<1> DEFINE r == PromoteSubtree(t, c)
           g == PromotedFrom(t, c)
<1>1. /\ g \in [EdgeSet(r) -> EdgeSet(t) \ {c}]
      /\ \A x, y \in EdgeSet(r) : x < y => g[x] < g[y]
      /\ r \in Seq(N) /\ IsTree(r) /\ r[1].id = t[1].id /\ r[1].depth = t[1].depth
      /\ Len(r) = Len(t) - (SubtreeEnd(t, ParentOf(t, c)) - ParentOf(t, c)) + (SubtreeEnd(t, c) - c)
  BY PromoteEdges
<1> HIDE DEF r, g
<1>2. Len(r) < Len(t)
  <2> DEFINE i == ParentOf(t, c)
             e == SubtreeEnd(t, i)
             f == SubtreeEnd(t, c)
  <2>1. Len(t) \in Nat /\ c \in 2..Len(t) /\ i \in 1..(c-1) /\ f <= e /\ c <= f
    BY EdgeParent, LenProperties
  <2>2. f \in c..Len(t) /\ e \in i..Len(t)
    <3>1. c \in 1..Len(t) /\ i \in 1..Len(t)
      BY <2>1
    <3> HIDE DEF i
    <3> QED BY <3>1, SubtreeEndExists
  <2> HIDE DEF i, e, f
  <2> QED BY <1>1, <2>1, <2>2 DEF i, e, f
<1>3. /\ EdgeSet(r) \subseteq 2..Len(r) /\ EdgeSet(t) \subseteq 2..Len(t)
      /\ IsFiniteSet(EdgeSet(t))
      /\ Cardinality(EdgeSet(t)) \in Nat /\ Cardinality(EdgeSet(r)) \in Nat
  BY <1>1, EdgeSetFinite
<1>4. g \in Injection(EdgeSet(r), EdgeSet(t) \ {c})
  <2>1. \A x \in EdgeSet(r) : x \in Int /\ g[x] \in Int
    BY <1>1, <1>3
  <2>2. \A x, y \in EdgeSet(r) : g[x] = g[y] => x = y
    BY <1>1, <2>1
  <2> QED BY <1>1, <2>2 DEF Injection, IsInjective
<1>5. IsFiniteSet(EdgeSet(t) \ {c}) /\ Cardinality(EdgeSet(t) \ {c}) = Cardinality(EdgeSet(t)) - 1
  BY <1>3, FS_RemoveElement
<1>6. Cardinality(EdgeSet(r)) <= Cardinality(EdgeSet(t) \ {c})
  BY <1>4, <1>5, FS_Injection
<1>7. Cardinality(EdgeSet(r)) < Cardinality(EdgeSet(t))
  BY <1>3, <1>5, <1>6
<1> QED BY <1>1, <1>2, <1>7 DEF r

-----------------------------------------------------------------------------
(* The list Ascending(S) of a finite set of numbers holds its members, the *)
(* one with k-1 smaller ones in place k.                                   *)
LEMMA AscendingMembers ==
  ASSUME NEW S \in SUBSET Nat, IsFiniteSet(S)
  PROVE  /\ Ascending(S) \in Seq(S)
         /\ Len(Ascending(S)) = Cardinality(S)
         /\ \A k \in 1..Cardinality(S) :
              /\ Ascending(S)[k] \in S
              /\ Cardinality({d \in S : d < Ascending(S)[k]}) = k-1
         /\ \A c, d \in S :
              Cardinality({x \in S : x < c}) = Cardinality({x \in S : x < d}) => c = d
<1> DEFINE below == [c \in S |-> {d \in S : d < c}]
           n == Cardinality(S)
<1>1. OrdersAll(S, below)
  <2>1. \A c, d \in S : c = d \/ c < d \/ d < c
    OBVIOUS
  <2>2. \A c, d \in S : c < d => \A x \in S : x < c => x < d
    OBVIOUS
  <2>3. \A c \in S : ~ (c < c)
    OBVIOUS
  <2> QED BY <2>1, <2>2, <2>3 DEF OrdersAll
<1>2. \A c \in S : below[c] = {d \in S : d < c}
  OBVIOUS
<1> HIDE DEF below
<1>3. /\ n \in Nat
      /\ \A k \in 0..(n-1) : \E c \in S : Cardinality(below[c]) = k
      /\ \A c, d \in S : Cardinality(below[c]) = Cardinality(below[d]) => c = d
  <2>1. RanksAll(S, below)
    BY <1>1, Ranks
  <2> QED BY <2>1 DEF RanksAll
<1>4. ASSUME NEW k \in 1..n
      PROVE  Ascending(S)[k] \in S /\ Cardinality({d \in S : d < Ascending(S)[k]}) = k-1
  <2>1. k-1 \in 0..(n-1)
    BY <1>3
  <2>2. \E c \in S : Cardinality({d \in S : d < c}) = k-1
    BY <1>2, <1>3, <2>1
  <2>3. Ascending(S)[k] = CHOOSE c \in S : Cardinality({d \in S : d < c}) = k-1
    BY DEF Ascending
  <2> QED BY <2>2, <2>3
<1>5. Ascending(S) \in [1..n -> S]
  BY <1>4 DEF Ascending
<1>6. \A s : s \in [1..n -> S] => s \in Seq(S) /\ Len(s) = n
  BY <1>3
<1>7. \A c, d \in S :
        Cardinality({x \in S : x < c}) = Cardinality({x \in S : x < d}) => c = d
  <2> SUFFICES ASSUME NEW c \in S, NEW d \in S,
                      Cardinality({x \in S : x < c}) = Cardinality({x \in S : x < d})
               PROVE  c = d
    OBVIOUS
  <2>1. Cardinality(below[c]) = Cardinality(below[d])
    BY <1>2
  <2> QED BY <1>3, <2>1
<1> HIDE DEF n
<1>8. Ascending(S) \in Seq(S) /\ Len(Ascending(S)) = n
  BY <1>5, <1>6
<1> QED BY <1>4, <1>7, <1>8 DEF n

(* The list has every member, in increasing order.                         *)
LEMMA AscendingOrder ==
  ASSUME NEW S \in SUBSET Nat, IsFiniteSet(S)
  PROVE  /\ \A c \in S : \E k \in 1..Cardinality(S) : Ascending(S)[k] = c
         /\ \A j, k \in 1..Cardinality(S) : j < k <=> Ascending(S)[j] < Ascending(S)[k]
<1> DEFINE below == [c \in S |-> {d \in S : d < c}]
           n == Cardinality(S)
           A == Ascending(S)
<1>1. OrdersAll(S, below)
  <2>1. \A c, d \in S : c = d \/ c < d \/ d < c
    OBVIOUS
  <2>2. \A c, d \in S : c < d => \A x \in S : x < c => x < d
    OBVIOUS
  <2>3. \A c \in S : ~ (c < c)
    OBVIOUS
  <2> QED BY <2>1, <2>2, <2>3 DEF OrdersAll
<1>2. \A c \in S : below[c] = {d \in S : d < c}
  OBVIOUS
<1> HIDE DEF below
<1>3. RanksAll(S, below)
  BY <1>1, Ranks
<1>4. /\ n \in Nat
      /\ \A k \in 1..n : A[k] \in S /\ Cardinality(below[A[k]]) = k-1
      /\ \A c, d \in S : Cardinality(below[c]) = Cardinality(below[d]) => c = d
  <2>1. /\ \A k \in 1..n : A[k] \in S /\ Cardinality({d \in S : d < A[k]}) = k-1
        /\ n \in Nat
    BY AscendingMembers, FS_CardinalityType
  <2> HIDE DEF A, n
  <2>2. ASSUME NEW k \in 1..n PROVE A[k] \in S /\ Cardinality(below[A[k]]) = k-1
    <3>1. A[k] \in S /\ Cardinality({d \in S : d < A[k]}) = k-1
      BY <2>1
    <3>2. below[A[k]] = {d \in S : d < A[k]}
      BY <1>2, <3>1
    <3> QED BY <3>1, <3>2
  <2> QED BY <1>3, <2>1, <2>2 DEF RanksAll
<1> HIDE DEF A, n
<1>5. ASSUME NEW c \in S PROVE \E k \in 1..n : A[k] = c
  <2> DEFINE k == Cardinality(below[c]) + 1
  <2>1. Cardinality(below[c]) \in 0..(n-1)
    BY <1>3 DEF RanksAll, n
  <2>2. k \in 1..n /\ k-1 = Cardinality(below[c])
    BY <1>4, <2>1
  <2> HIDE DEF k
  <2> QED BY <1>4, <2>2
<1>6. ASSUME NEW j \in 1..n, NEW k \in 1..n PROVE j < k <=> A[j] < A[k]
  <2>1. A[j] \in S /\ A[k] \in S
    BY <1>4
  <2>2. A[j] \in below[A[k]] <=> Cardinality(below[A[j]]) < Cardinality(below[A[k]])
    BY <1>3, <2>1 DEF RanksAll
  <2>3. A[j] \in below[A[k]] <=> A[j] < A[k]
    BY <1>2, <2>1
  <2>4. j-1 < k-1 <=> j < k
    BY <1>4
  <2> QED BY <1>4, <2>2, <2>3, <2>4
<1> QED BY <1>5, <1>6 DEF A, n

(* A list S whose members map, in order, to a list T without its entry     *)
(* n+1: what is behind entry n of S maps to what is behind entry n+1 of T. *)
LEMMA RanksKept ==
  ASSUME NEW S \in SUBSET Nat, IsFiniteSet(S), NEW T \in SUBSET Nat, IsFiniteSet(T),
         NEW n \in Nat, n+1 \in 1..Cardinality(T),
         NEW g \in [S -> T \ {Ascending(T)[n+1]}],
         \A a, b \in S : a < b => g[a] < g[b],
         NEW k \in (n+1)..Cardinality(S)
  PROVE  \E j \in (n+2)..Cardinality(T) : g[Ascending(S)[k]] = Ascending(T)[j]
<1> DEFINE x == Ascending(S)[k]
           B == {d \in S : d < x}
           C == {d \in T : d < g[x]}
           h == [d \in B |-> g[d]]
<1>1. Cardinality(S) \in Nat /\ Cardinality(T) \in Nat /\ k \in 1..Cardinality(S) /\ k \in Nat
  BY FS_CardinalityType
<1>2. x \in S /\ Cardinality(B) = k-1
  BY <1>1, AscendingMembers
<1>3. g[x] \in T /\ g[x] # Ascending(T)[n+1]
  BY <1>2
<1> HIDE DEF x
<1>4. PICK j \in 1..Cardinality(T) : Ascending(T)[j] = g[x]
  BY <1>3, AscendingOrder
<1>5. Cardinality(C) = j-1
  <2>1. C = {d \in T : d < Ascending(T)[j]}
    BY <1>4
  <2> HIDE DEF C
  <2> QED BY <2>1, AscendingMembers
<1>6. IsFiniteSet(C)
  <2>1. C \in SUBSET T
    OBVIOUS
  <2> QED BY <2>1, FS_Subset
<1>7. h \in Injection(B, C)
  <2>1. \A a, b \in S : a \in Nat /\ b \in Nat /\ g[a] \in Nat /\ g[b] \in Nat
    OBVIOUS
  <2>2. h \in [B -> C]
    BY <1>2
  <2>3. \A a, b \in B : h[a] = h[b] => a = b
    BY <2>1
  <2>4. DOMAIN h = B
    OBVIOUS
  <2> HIDE DEF h, B, C
  <2> QED BY <2>2, <2>3, <2>4 DEF Injection, IsInjective
<1> HIDE DEF B, C, h
<1>8. Cardinality(B) <= Cardinality(C)
  BY <1>6, <1>7, FS_Injection
<1>9. j \in (n+2)..Cardinality(T)
  <2>1. k-1 <= j-1 /\ j # n+1
    BY <1>2, <1>3, <1>4, <1>5, <1>8
  <2> QED BY <1>1, <2>1
<1> QED BY <1>4, <1>9 DEF x

-----------------------------------------------------------------------------
(* list_pop_front, k times.                                                *)
LEMMA DropFirstElements ==
  ASSUME NEW S, NEW s \in Seq(S), NEW k \in Nat
  PROVE  /\ DropFirst(s, k) \in Seq(S)
         /\ Len(DropFirst(s, k)) = IF k <= Len(s) THEN Len(s) - k ELSE 0
         /\ \A n \in 1..(Len(s) - k) : DropFirst(s, k)[n] = s[k+n]
<1>1. Len(s) \in Nat /\ \A n \in 1..Len(s) : s[n] \in S
  BY LenProperties, ElementOfSeq
<1>2. k+1 \in Int /\ Len(s) \in Int /\ \A n \in (k+1)..Len(s) : s[n] \in S
  BY <1>1
<1>3. /\ SubSeq(s, k+1, Len(s)) \in Seq(S)
      /\ Len(SubSeq(s, k+1, Len(s))) = IF k+1 <= Len(s) THEN Len(s)-(k+1)+1 ELSE 0
      /\ \A n \in 1..(Len(s)-(k+1)+1) : SubSeq(s, k+1, Len(s))[n] = s[(k+1)+n-1]
  BY <1>2, SubSeqProperties
<1>4. Len(s)-(k+1)+1 = Len(s)-k
  BY <1>1
<1>5. ASSUME NEW n \in 1..(Len(s)-k) PROVE SubSeq(s, k+1, Len(s))[n] = s[k+n]
  <2>1. (k+1)+n-1 = k+n
    BY <1>1
  <2> QED BY <1>3, <1>4, <2>1
<1>6. Len(SubSeq(s, k+1, Len(s))) = IF k <= Len(s) THEN Len(s) - k ELSE 0
  BY <1>1, <1>3
<1> QED
  BY <1>3, <1>5, <1>6 DEF DropFirst

(* Popping k entries and then j is popping k+j.                            *)
LEMMA DropFirstAgain ==
  ASSUME NEW S, NEW s \in Seq(S), NEW k \in Nat, NEW j \in Nat
  PROVE  /\ DropFirst(s, 0) = s
         /\ DropFirst(DropFirst(s, k), j) = DropFirst(s, k+j)
         /\ DropFirst(s, k) # <<>> => /\ k < Len(s)
                                      /\ Head(DropFirst(s, k)) = s[k+1]
                                      /\ Tail(DropFirst(s, k)) = DropFirst(s, k+1)
<1>0. Len(s) \in Nat
  BY LenProperties
<1>1. \A n \in Nat : /\ DropFirst(s, n) \in Seq(S)
                     /\ Len(DropFirst(s, n)) = IF n <= Len(s) THEN Len(s) - n ELSE 0
                     /\ \A i \in 1..(Len(s) - n) : DropFirst(s, n)[i] = s[n+i]
  BY DropFirstElements
<1> DEFINE d == DropFirst(s, k)
<1>2. d \in Seq(S) /\ Len(d) \in Nat
  BY <1>1, LenProperties
<1>3. /\ DropFirst(d, j) \in Seq(S)
      /\ Len(DropFirst(d, j)) = IF j <= Len(d) THEN Len(d) - j ELSE 0
      /\ \A i \in 1..(Len(d) - j) : DropFirst(d, j)[i] = d[j+i]
  <2> HIDE DEF d
  <2> QED BY <1>2, DropFirstElements
<1>4. k+j \in Nat /\ k+1 \in Nat /\ 0 \in Nat
  OBVIOUS
<1>5. DropFirst(s, 0) = s
  <2>1. DropFirst(s, 0) \in Seq(S) /\ Len(DropFirst(s, 0)) = Len(s)
    BY <1>0, <1>1
  <2>2. \A i \in 1..Len(s) : DropFirst(s, 0)[i] = s[i]
    <3>1. \A i \in 1..Len(s) : i \in 1..(Len(s)-0) /\ 0+i = i
      BY <1>0
    <3> QED BY <1>1, <3>1
  <2> QED BY <2>1, <2>2, SeqEqual
<1>6. DropFirst(d, j) = DropFirst(s, k+j)
  <2>1. Len(d) = IF k <= Len(s) THEN Len(s) - k ELSE 0
    BY <1>1
  <2>2. /\ DropFirst(s, k+j) \in Seq(S)
        /\ Len(DropFirst(s, k+j)) = IF k+j <= Len(s) THEN Len(s) - (k+j) ELSE 0
        /\ \A i \in 1..(Len(s) - (k+j)) : DropFirst(s, k+j)[i] = s[(k+j)+i]
    BY <1>1, <1>4
  <2>3. \A i \in 1..(Len(s) - k) : d[i] = s[k+i]
    BY <1>1
  <2> HIDE DEF d
  <2>4. Len(DropFirst(d, j)) = Len(DropFirst(s, k+j))
    BY <1>0, <1>3, <2>1, <2>2
  <2>5. ASSUME NEW i \in 1..Len(DropFirst(d, j))
        PROVE  DropFirst(d, j)[i] = DropFirst(s, k+j)[i]
    <3>1. k+j <= Len(s) /\ Len(d) = Len(s) - k /\ j <= Len(d) /\ i \in 1..(Len(d) - j)
      BY <1>0, <1>3, <2>1
    <3>2. i \in 1..(Len(s) - (k+j)) /\ j+i \in 1..(Len(s) - k) /\ k+(j+i) = (k+j)+i
      BY <1>0, <3>1
    <3> QED BY <1>3, <2>2, <2>3, <3>1, <3>2
  <2> QED BY <1>3, <2>2, <2>4, <2>5, SeqEqual
<1>7. ASSUME d # <<>>
      PROVE  k < Len(s) /\ Head(d) = s[k+1] /\ Tail(d) = DropFirst(s, k+1)
  <2>1. /\ Len(d) = IF k <= Len(s) THEN Len(s) - k ELSE 0
        /\ \A i \in 1..(Len(s) - k) : d[i] = s[k+i]
    BY <1>1
  <2>2. /\ DropFirst(s, k+1) \in Seq(S)
        /\ Len(DropFirst(s, k+1)) = IF k+1 <= Len(s) THEN Len(s) - (k+1) ELSE 0
        /\ \A i \in 1..(Len(s) - (k+1)) : DropFirst(s, k+1)[i] = s[(k+1)+i]
    BY <1>1, <1>4
  <2> HIDE DEF d
  <2>3. /\ Head(d) = d[1] /\ Tail(d) \in Seq(S) /\ Len(Tail(d)) = Len(d)-1
        /\ \A i \in 1..Len(Tail(d)) : Tail(d)[i] = d[i+1]
    BY <1>2, <1>7, HeadTailProperties
  <2>4. Len(d) # 0
    BY <1>2, <1>7, EmptySeq
  <2>5. k < Len(s) /\ Len(d) = Len(s) - k
    BY <1>0, <2>1, <2>4
  <2>6. Head(d) = s[k+1]
    <3>1. 1 \in 1..(Len(s) - k)
      BY <1>0, <2>5
    <3> QED BY <2>1, <2>3, <3>1
  <2>7. Len(Tail(d)) = Len(DropFirst(s, k+1))
    BY <1>0, <2>2, <2>3, <2>5
  <2>8. ASSUME NEW i \in 1..Len(Tail(d)) PROVE Tail(d)[i] = DropFirst(s, k+1)[i]
    <3>1. /\ i \in 1..(Len(s) - (k+1)) /\ i+1 \in 1..(Len(s) - k)
          /\ k+(i+1) = (k+1)+i
      BY <1>0, <2>3, <2>5
    <3> QED BY <2>1, <2>2, <2>3, <3>1
  <2> QED BY <2>2, <2>3, <2>5, <2>6, <2>7, <2>8, SeqEqual
<1> QED BY <1>5, <1>6, <1>7

-----------------------------------------------------------------------------
(* The work lists of a tree.                                               *)
LEMMA WorkLists ==
  ASSUME NEW N, NodeSet(N), NEW t \in Seq(N)
  PROVE  /\ Len(t) \in Nat
         /\ NonTerminalNodes(t) \in Seq(Nat \ {0})
         /\ Len(NonTerminalNodes(t)) = Len(t)
         /\ \A k \in 1..Len(t) : NonTerminalNodes(t)[k] = k
         /\ RecursionEdges(t) \in Seq(Nat \ {0})
         /\ RecursionEdges(t) \in Seq(EdgeSet(t))
         /\ Len(RecursionEdges(t)) = Cardinality(EdgeSet(t))
         /\ Cardinality(EdgeSet(t)) \in Nat
<1>2. Len(t) \in Nat
  BY LenProperties
<1>3. /\ NonTerminalNodes(t) \in Seq(Nat \ {0})
      /\ Len(NonTerminalNodes(t)) = Len(t)
      /\ \A k \in 1..Len(t) : NonTerminalNodes(t)[k] = k
  <2> DEFINE s == [k \in 1..Len(t) |-> k]
  <2>1. s \in [1..Len(t) -> Nat \ {0}]
    BY <1>2
  <2>2. \A f : f \in [1..Len(t) -> Nat \ {0}] => f \in Seq(Nat \ {0}) /\ Len(f) = Len(t)
    BY <1>2
  <2>3. \A k \in 1..Len(t) : s[k] = k
    OBVIOUS
  <2>4. NonTerminalNodes(t) = s
    BY DEF NonTerminalNodes
  <2> QED BY <2>1, <2>2, <2>3, <2>4
<1>4. EdgeSet(t) \subseteq 2..Len(t) /\ IsFiniteSet(EdgeSet(t)) /\ Cardinality(EdgeSet(t)) \in Nat
  BY EdgeSetFinite
<1>5. EdgeSet(t) \subseteq Nat \ {0}
  BY <1>2, <1>4
<1>6. /\ RecursionEdges(t) \in Seq(EdgeSet(t))
      /\ Len(RecursionEdges(t)) = Cardinality(EdgeSet(t))
  BY <1>4, <1>5, AscendingMembers DEF RecursionEdges
<1>7. RecursionEdges(t) \in Seq(Nat \ {0})
  <2>1. \A S, T : S \subseteq T => Seq(S) \subseteq Seq(T)
    OBVIOUS
  <2> HIDE DEF RecursionEdges
  <2> QED BY <1>5, <1>6, <2>1
<1> QED BY <1>2, <1>3, <1>4, <1>6, <1>7

(* The root's subtree is the whole tree.                                   *)
LEMMA RootEnd ==
  ASSUME NEW N, NodeSet(N), NEW t \in Seq(N), IsTree(t)
  PROVE  SubtreeEnd(t, 1) = Len(t) /\ NonTermSize(t, 1) = Len(t) /\ Len(t) > 0
<1>1. Len(t) \in Nat /\ Len(t) > 0
  BY LenProperties DEF IsTree
<1>2. 1 \in 1..Len(t)
  BY <1>1
<1>3. IsSubtreeEnd(t, 1, Len(t))
  BY <1>1, <1>2 DEF IsSubtreeEnd, IsTree
<1>4. SubtreeEnd(t, 1) = Len(t)
  BY <1>1, <1>2, <1>3, SubtreeEndIs
<1> QED BY <1>1, <1>4 DEF NonTermSize

-----------------------------------------------------------------------------
(* The list of a set of numbers moved in order is the list moved.          *)
LEMMA AscendingMoved ==
  ASSUME NEW S \in SUBSET Nat, IsFiniteSet(S), NEW T \in SUBSET Nat, NEW f \in [S -> T],
         \A y \in T : \E x \in S : f[x] = y,
         \A a, b \in S : a < b => f[a] < f[b]
  PROVE  /\ IsFiniteSet(T) /\ Cardinality(T) = Cardinality(S)
         /\ \A k \in 1..Cardinality(S) : Ascending(T)[k] = f[Ascending(S)[k]]
<1> DEFINE below(R, c) == {d \in R : d < c}
<1>1. \A a, b \in S : /\ f[a] \in T /\ (f[a] < f[b] <=> a < b)
                      /\ f[a] = f[b] => a = b
  <2>1. \A a, b \in S : a \in Nat /\ b \in Nat /\ f[a] \in Nat /\ f[b] \in Nat
    OBVIOUS
  <2>2. \A a, b \in S : a < b \/ a = b \/ b < a
    BY <2>1
  <2> QED BY <2>1, <2>2
<1>2. IsFiniteSet(T) /\ Cardinality(T) = Cardinality(S)
  <2>1. f \in Bijection(S, T)
    BY <1>1, Fun_IsBij
  <2>2. ExistsBijection(S, T)
    BY <2>1 DEF ExistsBijection
  <2> QED BY <2>2, FS_Bijection
<1>3. ASSUME NEW c \in S
      PROVE  Cardinality(below(T, f[c])) = Cardinality(below(S, c))
  <2> DEFINE B == below(S, c)
             C == below(T, f[c])
             g == [x \in B |-> f[x]]
  <2>1. g \in [B -> C]
    BY <1>1
  <2>2. \A a, b \in B : g[a] = g[b] => a = b
    BY <1>1
  <2>3. \A y \in C : \E x \in B : g[x] = y
    BY <1>1
  <2>4. IsFiniteSet(B)
    <3>1. B \in SUBSET S
      OBVIOUS
    <3> HIDE DEF B
    <3> QED BY <3>1, FS_Subset
  <2> HIDE DEF B, C, g
  <2>5. ExistsBijection(B, C)
    BY <2>1, <2>2, <2>3, Fun_IsBij DEF ExistsBijection
  <2>6. Cardinality(B) = Cardinality(C)
    BY <2>4, <2>5, FS_Bijection
  <2> QED BY <2>6 DEF B, C
<1>4. ASSUME NEW k \in 1..Cardinality(S) PROVE Ascending(T)[k] = f[Ascending(S)[k]]
  <2> DEFINE c == Ascending(S)[k]
             d == Ascending(T)[k]
  <2>1. c \in S /\ Cardinality(below(S, c)) = k-1
    BY AscendingMembers
  <2>2. d \in T /\ Cardinality(below(T, d)) = k-1
    BY <1>2, AscendingMembers
  <2>3. Cardinality(below(T, f[c])) = k-1 /\ f[c] \in T
    BY <1>3, <2>1
  <2> HIDE DEF c, d
  <2>4. \A x, y \in T : Cardinality(below(T, x)) = Cardinality(below(T, y)) => x = y
    BY <1>2, AscendingMembers
  <2>5. d = f[c]
    BY <2>2, <2>3, <2>4, Zenon
  <2> QED BY <2>5 DEF c, d
<1> QED BY <1>2, <1>4

(* Node p's children are a finite set of later nodes.                      *)
LEMMA ChildrenFinite ==
  ASSUME NEW t, Len(t) \in Nat, NEW p \in Nat
  PROVE  /\ Children(t, p) \in SUBSET Nat /\ IsFiniteSet(Children(t, p))
         /\ \A c \in Children(t, p) : c \in (p+1)..Len(t) /\ IsParent(t, p, c)
<1>1. Children(t, p) \in SUBSET ((p+1)..Len(t))
  BY DEF Children
<1>2. IsFiniteSet((p+1)..Len(t))
  BY FS_Interval
<1>3. (p+1)..Len(t) \subseteq Nat
  OBVIOUS
<1>4. \A c \in Children(t, p) : c \in (p+1)..Len(t) /\ IsParent(t, p, c)
  BY DEF Children
<1> QED BY <1>1, <1>2, <1>3, <1>4, FS_Subset

(* t holds m, moved to another depth, as the subtree of node i.            *)
Holds(t, i, m) ==
  /\ i \in 1..Len(t) /\ (i-1) + Len(m) <= Len(t)
  /\ \A k \in 1..Len(m) :
       /\ m[1].depth <= m[k].depth
       /\ t[(i-1)+k].depth = m[k].depth - m[1].depth + t[i].depth
  /\ \A k \in 1..Len(t) : k = (i-1) + Len(m) + 1 => t[k].depth <= t[i].depth

LEMMA ParentMoved ==
  ASSUME NEW t, NEW d \in Nat, NEW p \in Nat, p >= 1, NEW c \in Nat
  PROVE  IsParent(t, d+p, d+c) <=>
           /\ p \in 1..(c-1)
           /\ t[d+p].depth + 1 = t[d+c].depth
           /\ \A k \in (p+1)..(c-1) : t[d+k].depth >= t[d+c].depth
<1>1. d+p \in 1..(d+c-1) <=> p \in 1..(c-1)
  OBVIOUS
<1>2. ASSUME \A n \in (d+p+1)..(d+c-1) : t[n].depth >= t[d+c].depth, NEW k \in (p+1)..(c-1)
      PROVE  t[d+k].depth >= t[d+c].depth
  <2>1. d+k \in (d+p+1)..(d+c-1)
    OBVIOUS
  <2> QED BY <1>2, <2>1, Zenon
<1>3. ASSUME \A k \in (p+1)..(c-1) : t[d+k].depth >= t[d+c].depth, NEW n \in (d+p+1)..(d+c-1)
      PROVE  t[n].depth >= t[d+c].depth
  <2>1. n-d \in (p+1)..(c-1) /\ d+(n-d) = n
    OBVIOUS
  <2>2. t[d+(n-d)].depth >= t[d+c].depth
    BY <1>3, <2>1, Zenon
  <2> QED BY <2>1, <2>2
<1> QED BY <1>1, <1>2, <1>3 DEF IsParent

(* Then the nodes of m have the children in t that they have in m.         *)
LEMMA ChildrenInside ==
  ASSUME NEW t, NEW m, Len(t) \in Nat, Len(m) \in Nat, NEW i \in Nat,
         \A k \in 1..Len(t) : t[k].depth \in Nat,
         \A k \in 1..Len(m) : m[k].depth \in Nat,
         Holds(t, i, m), NEW p \in 1..Len(m)
  PROVE  \A c \in Nat : c \in Children(m, p) <=> (i-1)+c \in Children(t, (i-1)+p)
<1> DEFINE d == i-1
           L == Len(m)
           M == Len(t)
           x(k) == t[d+k].depth
           y(k) == m[k].depth
           h == t[i].depth
<1>1. /\ d \in Nat /\ i = d+1 /\ L \in Nat /\ M \in Nat /\ d + L <= M /\ h \in Nat
      /\ \A k \in 1..L : y(1) <= y(k) /\ x(k) = y(k) - y(1) + h /\ y(k) \in Nat
      /\ \A k \in 1..M : t[k].depth \in Nat
      /\ L+1 <= M-d => x(L+1) <= h
  <2>1. d \in Nat /\ i = d+1
    BY DEF Holds
  <2>2. d + L <= M /\ h \in Nat
    BY DEF Holds
  <2>3. \A k \in 1..L : y(1) <= y(k) /\ x(k) = y(k) - y(1) + h /\ y(k) \in Nat
    BY DEF Holds
  <2>4. ASSUME L+1 <= M-d PROVE x(L+1) <= h
    <3>1. d+(L+1) \in 1..M /\ d+(L+1) = d+L+1
      BY <2>1, <2>4
    <3> QED BY <3>1 DEF Holds
  <2> QED BY <2>1, <2>2, <2>3, <2>4
<1>2. \A k \in 1..(M-d) : x(k) \in Nat
  <2>1. \A k \in 1..(M-d) : d+k \in 1..M
    BY <1>1
  <2> QED BY <1>1, <2>1
<1>3. p \in Nat /\ p >= 1 /\ p <= L
  OBVIOUS
<1>4. \A c \in Nat : IsParent(t, d+p, d+c) <=>
                       /\ p \in 1..(c-1)
                       /\ x(p) + 1 = x(c)
                       /\ \A k \in (p+1)..(c-1) : x(k) >= x(c)
  BY <1>1, <1>3, ParentMoved
<1>5. \A c \in Nat : IsParent(m, p, c) <=>
                       /\ p \in 1..(c-1)
                       /\ y(p) + 1 = y(c)
                       /\ \A k \in (p+1)..(c-1) : y(k) >= y(c)
  BY DEF IsParent
<1>6. \A c \in Nat :
        /\ c \in Children(m, p) <=> c \in (p+1)..L /\ IsParent(m, p, c)
        /\ d+c \in Children(t, d+p) <=> d+c \in (d+p+1)..M /\ IsParent(t, d+p, d+c)
  BY DEF Children
<1> HIDE DEF d, L, M, x, y, h
<1>7. \A c \in Nat : d+c \in (d+p+1)..M <=> c \in (p+1)..(M-d)
  BY <1>1, <1>3
<1>8. ASSUME NEW c \in Nat, c \in (p+1)..L, IsParent(m, p, c)
      PROVE  c \in (p+1)..(M-d) /\ IsParent(t, d+p, d+c)
  <2>1. /\ p \in 1..(c-1) /\ y(p) + 1 = y(c)
        /\ \A k \in (p+1)..(c-1) : y(k) >= y(c)
    BY <1>5, <1>8
  <2>2. p \in 1..L /\ c \in 1..L /\ 1 \in 1..L /\ \A k \in (p+1)..(c-1) : k \in 1..L
    BY <1>1, <1>3, <1>8
  <2>3. x(p) + 1 = x(c)
    <3>1. /\ x(p) = y(p) - y(1) + h /\ x(c) = y(c) - y(1) + h
          /\ y(1) \in Nat /\ y(p) \in Nat /\ y(c) \in Nat /\ h \in Nat
      BY <1>1, <2>2
    <3> HIDE DEF x, y
    <3>2. PICK x1, x2, y0, y1, y2 :
            x1 = x(p) /\ x2 = x(c) /\ y0 = y(1) /\ y1 = y(p) /\ y2 = y(c)
      OBVIOUS
    <3>3. /\ x1 = y1 - y0 + h /\ x2 = y2 - y0 + h /\ y1 + 1 = y2
          /\ y0 \in Nat /\ y1 \in Nat /\ y2 \in Nat /\ h \in Nat
      BY <2>1, <3>1, <3>2
    <3>4. x1 + 1 = x2
      BY <3>3
    <3> QED BY <3>2, <3>4
  <2>4. \A k \in (p+1)..(c-1) : x(k) >= x(c)
    BY <1>1, <2>1, <2>2, SMTT(30)
  <2>5. c \in (p+1)..(M-d)
    BY <1>1, <1>8
  <2> QED BY <1>4, <2>1, <2>3, <2>4, <2>5
<1>9. ASSUME NEW c \in Nat, c \in (p+1)..(M-d), IsParent(t, d+p, d+c)
      PROVE  c \in (p+1)..L /\ IsParent(m, p, c)
  <2>1. /\ p \in 1..(c-1) /\ x(p) + 1 = x(c)
        /\ \A k \in (p+1)..(c-1) : x(k) >= x(c)
    BY <1>4, <1>9
  <2>2. 1 \in 1..L /\ p \in 1..L /\ y(1) \in Nat /\ y(p) \in Nat /\ x(p) >= h /\ x(p) \in Nat /\ x(c) \in Nat
    BY <1>1, <1>2, <1>3, <1>9
  <2>3. c <= L
    <3> SUFFICES ASSUME c > L PROVE FALSE
      BY <1>1
    <3>1. L+1 <= M-d /\ (L+1 = c \/ L+1 \in (p+1)..(c-1)) /\ L+1 \in 1..(M-d)
      BY <1>1, <1>3, <1>9
    <3>2. x(L+1) >= x(c) /\ x(L+1) <= h /\ x(L+1) \in Nat
      BY <1>1, <1>2, <2>1, <2>2, <3>1
    <3> QED BY <1>1, <2>1, <2>2, <3>2
  <2>4. c \in (p+1)..L /\ c \in 1..L /\ \A k \in (p+1)..(c-1) : k \in 1..L
    BY <1>1, <1>3, <1>9, <2>3
  <2>5. y(p) + 1 = y(c)
    <3>1. x(p) = y(p) - y(1) + h /\ x(c) = y(c) - y(1) + h /\ y(c) \in Nat /\ h \in Nat
      BY <1>1, <2>2, <2>4
    <3> HIDE DEF x, y
    <3>2. PICK x1, x2, y0, y1, y2 :
            x1 = x(p) /\ x2 = x(c) /\ y0 = y(1) /\ y1 = y(p) /\ y2 = y(c)
      OBVIOUS
    <3>3. /\ x1 = y1 - y0 + h /\ x2 = y2 - y0 + h /\ x1 + 1 = x2
          /\ y0 \in Nat /\ y1 \in Nat /\ y2 \in Nat /\ h \in Nat
      BY <2>1, <2>2, <3>1, <3>2
    <3>4. y1 + 1 = y2
      BY <3>3
    <3> QED BY <3>2, <3>4
  <2>6. \A k \in (p+1)..(c-1) : y(k) >= y(c)
    BY <1>1, <2>1, <2>2, <2>4, SMTT(30)
  <2> QED BY <1>5, <2>1, <2>4, <2>5, <2>6
<1>10. \A c \in Nat : c \in Children(m, p) <=> d+c \in Children(t, d+p)
  BY <1>6, <1>7, <1>8, <1>9
<1> QED BY <1>10 DEF d

(* t and u are alike but for the subtree of node i, which ends with node e *)
(* in t and with node l in u.                                              *)
AlikeOutside(t, e, u, l, i) ==
  /\ i \in 1..e /\ e <= Len(t) /\ i <= l /\ l <= Len(u) /\ Len(t) - e = Len(u) - l
  /\ \A k \in 1..i : u[k].depth = t[k].depth
  /\ \A k \in 1..(Len(t) - e) : u[l+k].depth = t[e+k].depth
  /\ \A k \in (i+1)..e : t[k].depth > t[i].depth
  /\ \A k \in (i+1)..l : u[k].depth > u[i].depth

LEMMA AlikeSymmetric ==
  ASSUME NEW t, NEW u, Len(t) \in Nat, Len(u) \in Nat,
         NEW e \in Nat, NEW l \in Nat, NEW i \in Nat, AlikeOutside(t, e, u, l, i)
  PROVE  AlikeOutside(u, l, t, e, i)
<1>1. i \in 1..l /\ Len(u) - l = Len(t) - e /\ i \in 1..i
  BY DEF AlikeOutside
<1>2. \A k \in 1..(Len(u) - l) : t[e+k].depth = u[l+k].depth
  <2> TAKE k \in 1..(Len(u) - l)
  <2>1. k \in 1..(Len(t) - e)
    BY <1>1
  <2>2. u[l+k].depth = t[e+k].depth
    BY <2>1, Zenon DEF AlikeOutside
  <2> QED BY <2>2
<1> QED BY <1>1, <1>2 DEF AlikeOutside

(* Then a node after the subtree keeps its children ...                    *)
LEMMA ChildrenAfter ==
  ASSUME NEW t, NEW u, Len(t) \in Nat, Len(u) \in Nat,
         NEW e \in Nat, NEW l \in Nat, NEW i \in Nat, AlikeOutside(t, e, u, l, i),
         NEW p \in 1..(Len(t) - e), NEW c \in Nat
  PROVE  e+c \in Children(t, e+p) <=> l+c \in Children(u, l+p)
<1> DEFINE x(k) == t[e+k].depth
           y(k) == u[l+k].depth
           n == Len(t) - e
<1>1. n \in Nat /\ n = Len(u) - l /\ \A k \in 1..n : y(k) = x(k)
  BY DEF AlikeOutside
<1>2. p \in Nat /\ p >= 1 /\ p \in 1..n
  OBVIOUS
<1>3. /\ IsParent(t, e+p, e+c) <=> /\ p \in 1..(c-1)
                                   /\ x(p) + 1 = x(c)
                                   /\ \A k \in (p+1)..(c-1) : x(k) >= x(c)
      /\ IsParent(u, l+p, l+c) <=> /\ p \in 1..(c-1)
                                   /\ y(p) + 1 = y(c)
                                   /\ \A k \in (p+1)..(c-1) : y(k) >= y(c)
  BY <1>2, ParentMoved
<1>4. /\ e+c \in (e+p+1)..Len(t) <=> c \in (p+1)..n
      /\ l+c \in (l+p+1)..Len(u) <=> c \in (p+1)..n
  BY <1>1, <1>2
<1> HIDE DEF x, y
<1>5. ASSUME c \in (p+1)..n
      PROVE  IsParent(t, e+p, e+c) <=> IsParent(u, l+p, l+c)
  <2>1. c \in 1..n /\ \A k \in (p+1)..(c-1) : k \in 1..n
    BY <1>1, <1>2, <1>5
  <2> QED BY <1>1, <1>2, <1>3, <2>1
<1> QED BY <1>4, <1>5 DEF Children

(* ... and one before it too, where they are now.                          *)
LEMMA ChildrenBefore ==
  ASSUME NEW t, NEW u, Len(t) \in Nat, Len(u) \in Nat,
         \A k \in 1..Len(t) : t[k].depth \in Nat,
         \A k \in 1..Len(u) : u[k].depth \in Nat,
         NEW e \in Nat, NEW l \in Nat, NEW i \in Nat, AlikeOutside(t, e, u, l, i),
         NEW p \in 1..(i-1), NEW c \in Children(t, p)
  PROVE  \/ c <= i /\ c \in Children(u, p)
         \/ c > e /\ c-e+l \in Children(u, p)
<1> DEFINE x(k) == t[k].depth
           y(k) == u[k].depth
           M == Len(t)
           N == Len(u)
<1>1. /\ i >= 1 /\ i <= e /\ e <= M /\ i <= l /\ l <= N /\ M - e = N - l /\ M \in Nat /\ N \in Nat
      /\ \A k \in 1..i : y(k) = x(k)
      /\ \A k \in 1..(M-e) : y(l+k) = x(e+k)
      /\ \A k \in (i+1)..e : x(k) > x(i)
      /\ \A k \in (i+1)..l : y(k) > y(i)
      /\ \A k \in 1..M : x(k) \in Nat
      /\ \A k \in 1..N : y(k) \in Nat
  BY DEF AlikeOutside
<1>2. /\ c \in (p+1)..M /\ p \in 1..(c-1)
      /\ x(p) + 1 = x(c)
      /\ \A k \in (p+1)..(c-1) : x(k) >= x(c)
  BY DEF Children, IsParent
<1>3. \A d \in (p+1)..N : y(p) + 1 = y(d) /\ (\A k \in (p+1)..(d-1) : y(k) >= y(d))
                          => d \in Children(u, p)
  <2>1. \A d \in (p+1)..N : p \in 1..(d-1)
    OBVIOUS
  <2> QED BY <2>1 DEF Children, IsParent
<1>4. p \in Nat /\ p < i /\ p >= 1 /\ c \in Nat
  BY <1>2
<1> HIDE DEF x, y, M, N
<1>5. CASE c <= i
  <2>1. c \in (p+1)..N /\ c \in 1..i /\ p \in 1..i /\ \A k \in (p+1)..(c-1) : k \in 1..i
    BY <1>1, <1>2, <1>4, <1>5
  <2>2. y(p) + 1 = y(c) /\ \A k \in (p+1)..(c-1) : y(k) >= y(c)
    BY <1>1, <1>2, <2>1
  <2> QED BY <1>3, <1>5, <2>1, <2>2
<1>6. CASE c > i /\ c <= e
  <2>1. i \in (p+1)..(c-1) /\ c \in (i+1)..e /\ i \in 1..M /\ c \in 1..M
    BY <1>1, <1>4, <1>6
  <2>2. x(i) >= x(c) /\ x(c) > x(i) /\ x(i) \in Nat /\ x(c) \in Nat
    BY <1>1, <1>2, <2>1
  <2> QED BY <2>2
<1>7. CASE c > e
  <2> DEFINE j == c-e
             d == l+j
  <2>1. j \in 1..(M-e) /\ e+j = c /\ j \in Nat
    BY <1>1, <1>2, <1>4, <1>7
  <2> HIDE DEF j
  <2>2. d \in (p+1)..N /\ p \in 1..i /\ i \in (p+1)..(c-1) /\ i \in 1..M /\ c \in 1..M /\ i \in 1..i
    BY <1>1, <1>4, <1>7, <2>1
  <2>3. y(d) = x(c) /\ y(p) = x(p) /\ y(i) = x(i) /\ x(i) >= x(c) /\ x(i) \in Nat /\ x(c) \in Nat
    BY <1>1, <1>2, <2>1, <2>2
  <2>4. ASSUME NEW k \in (p+1)..(d-1) PROVE y(k) >= y(d)
    <3>1. CASE k <= i
      <4>1. k \in 1..i /\ k \in (p+1)..(c-1)
        BY <1>1, <1>4, <1>7, <3>1
      <4> QED BY <1>1, <1>2, <2>3, <4>1
    <3>2. CASE k > i /\ k <= l
      <4>1. k \in (i+1)..l /\ k \in 1..N
        BY <1>1, <1>4, <3>2
      <4>2. y(k) > y(i) /\ y(k) \in Nat
        BY <1>1, <4>1
      <4> QED BY <2>3, <4>2
    <3>3. CASE k > l
      <4> DEFINE a == k-l
      <4>1. a \in 1..(M-e) /\ l+a = k /\ e+a \in (p+1)..(c-1)
        BY <1>1, <1>4, <2>1, <3>3
      <4> HIDE DEF a
      <4>2. y(l+a) = x(e+a) /\ x(e+a) >= x(c)
        BY <1>1, <1>2, <4>1
      <4> QED BY <2>3, <4>1, <4>2
    <3>4. k \in Int /\ i \in Int /\ l \in Int
      BY <1>4, <2>1
    <3> QED BY <3>1, <3>2, <3>3, <3>4
  <2>5. d \in Children(u, p)
    <3> HIDE DEF d
    <3> QED BY <1>2, <1>3, <2>2, <2>3, <2>4
  <2>6. c-e+l = d
    BY <2>1 DEF j
  <2> QED BY <1>7, <2>5, <2>6
<1> QED BY <1>4, <1>5, <1>6, <1>7

LEMMA SubtreeIsHeld ==
  ASSUME NEW N, NodeSet(N), NEW t \in Seq(N), NEW i \in 1..Len(t)
  PROVE  Holds(t, i, Subtree(t, i))
<1> DEFINE e == SubtreeEnd(t, i)
           m == Subtree(t, i)
<1>1. /\ e \in i..Len(t) /\ Len(t) \in Nat
      /\ \A k \in (i+1)..e : t[k].depth > t[i].depth
      /\ e < Len(t) => t[e+1].depth <= t[i].depth
      /\ \A n \in 1..Len(t) : t[n].depth \in Nat
  BY SubtreeEndExists, TreeTyping DEF IsSubtreeEnd
<1>2. Len(m) = e - i + 1 /\ \A k \in 1..(e - i + 1) : m[k] = t[i+k-1]
  BY SubtreeElements
<1> HIDE DEF e, m
<1>3. i \in Nat /\ i >= 1 /\ m[1] = t[i] /\ t[i].depth \in Nat
  BY <1>1, <1>2
<1>4. ASSUME NEW k \in 1..Len(m)
      PROVE  /\ m[1].depth <= m[k].depth
             /\ t[(i-1)+k].depth = m[k].depth - m[1].depth + t[i].depth
  <2> DEFINE n == (i-1)+k
  <2>1. n \in 1..Len(t) /\ (n = i \/ n \in (i+1)..e) /\ n = i+k-1
    BY <1>1, <1>2, <1>3
  <2>2. m[k] = t[n] /\ t[n].depth \in Nat /\ t[n].depth >= t[i].depth
    <3>1. m[k] = t[n]
      BY <1>2, <2>1
    <3> HIDE DEF n
    <3>2. t[n].depth \in Nat
      BY <1>1, <2>1
    <3>3. CASE n = i
      BY <1>3, <3>1, <3>3
    <3>4. CASE n \in (i+1)..e
      <4>1. t[n].depth > t[i].depth
        BY <1>1, <3>4
      <4> QED BY <1>3, <3>1, <3>2, <4>1
    <3> QED BY <2>1, <3>3, <3>4
  <2> HIDE DEF n
  <2> QED BY <1>3, <2>2 DEF n
<1>5. \A k \in 1..Len(t) : k = (i-1) + Len(m) + 1 => t[k].depth <= t[i].depth
  <2>1. (i-1) + Len(m) + 1 = e+1
    BY <1>1, <1>2, <1>3
  <2> QED BY <1>1, <2>1
<1>6. i \in 1..Len(t) /\ (i-1) + Len(m) <= Len(t)
  BY <1>1, <1>2, <1>3
<1> QED BY <1>4, <1>5, <1>6 DEF Holds, m

LEMMA ReplaceHolds ==
  ASSUME NEW N, NodeSet(N), NEW t \in Seq(N), NEW m \in Seq(N),
         NEW i \in 1..Len(t), IsTree(t), IsTree(m)
  PROVE  /\ Holds(ReplaceSubtree(t, i, m), i, m)
         /\ AlikeOutside(t, SubtreeEnd(t, i), ReplaceSubtree(t, i, m), (i-1) + Len(m), i)
<1> DEFINE e == SubtreeEnd(t, i)
           r == ReplaceSubtree(t, i, m)
           l == (i-1) + Len(m)
           h == t[i].depth
           L == Len(m)
           M == Len(t)
<1>1. /\ e \in i..M /\ M \in Nat /\ L \in Nat /\ L > 0
      /\ \A k \in (i+1)..e : t[k].depth > h
      /\ e < M => t[e+1].depth <= h
      /\ \A n \in 1..M : t[n].depth \in Nat
      /\ \A n \in 1..L : m[n].depth \in Nat
      /\ \A n \in 2..L : m[1].depth < m[n].depth
  BY SubtreeEndExists, TreeTyping DEF IsSubtreeEnd, IsTree
<1>2. /\ r \in Seq(N) /\ Len(r) = (i-1) + L + (M - e)
      /\ \A k \in 1..(i-1) : r[k] = t[k]
      /\ \A k \in 1..L : r[(i-1)+k].depth = m[k].depth - m[1].depth + h
      /\ \A k \in 1..(M - e) : r[(i-1)+L+k] = t[e+k]
  <2>1. /\ r \in Seq(N) /\ Len(r) = (i-1) + L + (M - e)
        /\ \A k \in 1..(i-1) : r[k] = t[k]
        /\ \A k \in 1..(M - e) : r[(i-1)+L+k] = t[e+k]
    BY ReplaceElements
  <2>2. ASSUME NEW k \in 1..L
        PROVE  r[(i-1)+k].depth = m[k].depth - m[1].depth + h
    BY ReplaceInside
  <2> HIDE DEF e, r, L, M, h
  <2> QED BY <2>1, <2>2
<1>3. i \in Nat /\ i >= 1 /\ i <= M /\ h \in Nat /\ l = (i-1) + L
  BY <1>1
<1> HIDE DEF e, r, l, h, L, M
<1>4. 1 \in 1..L /\ m[1].depth \in Nat /\ r[i].depth = h
  <2>1. 1 \in 1..L /\ m[1].depth \in Nat /\ (i-1)+1 = i
    BY <1>1, <1>3
  <2>2. r[(i-1)+1].depth = m[1].depth - m[1].depth + h
    BY <1>2, <2>1
  <2> QED BY <1>3, <2>1, <2>2
<1>5. \A k \in 1..L : m[1].depth <= m[k].depth
  BY <1>1, <1>4
<1>6. Holds(r, i, m)
  <2>1. i \in 1..Len(r) /\ l <= Len(r)
    BY <1>1, <1>2, <1>3
  <2>2. \A k \in 1..Len(r) : k = l+1 => r[k].depth <= r[i].depth
    <3> SUFFICES ASSUME l+1 \in 1..Len(r) PROVE r[l+1].depth <= r[i].depth
      OBVIOUS
    <3>1. 1 \in 1..(M-e) /\ e < M
      BY <1>1, <1>2, <1>3
    <3>2. r[(i-1)+L+1] = t[e+1]
      BY <1>2, <3>1
    <3> QED BY <1>1, <1>3, <1>4, <3>1, <3>2
  <2> QED BY <1>2, <1>3, <1>4, <1>5, <2>1, <2>2 DEF Holds, L
<1>7. AlikeOutside(t, e, r, l, i)
  <2>1. i \in 1..e /\ e <= M /\ i <= l /\ l <= Len(r) /\ M - e = Len(r) - l
    BY <1>1, <1>2, <1>3
  <2>2. \A k \in 1..i : r[k].depth = t[k].depth
    <3>1. \A k \in 1..i : k = i \/ k \in 1..(i-1)
      BY <1>3
    <3> QED BY <1>2, <1>4, <3>1 DEF h
  <2>3. \A k \in 1..(M - e) : r[l+k].depth = t[e+k].depth
    BY <1>2, <1>3
  <2>4. ASSUME NEW k \in (i+1)..l PROVE r[k].depth > r[i].depth
    <3> DEFINE j == k - (i-1)
    <3>1. j \in 2..L /\ j \in 1..L /\ (i-1)+j = k
      BY <1>1, <1>3
    <3> HIDE DEF j
    <3>2. /\ r[(i-1)+j].depth = m[j].depth - m[1].depth + h
          /\ m[1].depth < m[j].depth /\ m[j].depth \in Nat
      BY <1>1, <1>2, <3>1
    <3>3. r[k].depth = m[j].depth - m[1].depth + h
      BY <3>1, <3>2
    <3> QED BY <1>3, <1>4, <3>2, <3>3, SMTT(30)
  <2> QED BY <1>1, <2>1, <2>2, <2>3, <2>4 DEF AlikeOutside, M, h
<1> QED BY <1>6, <1>7 DEF e, r, l, L

-----------------------------------------------------------------------------
(* Every node but the root has one parent.                                 *)
LEMMA ParentUnique ==
  ASSUME NEW N, NodeSet(N), NEW t \in Seq(N), NEW c \in 1..Len(t),
         NEW p, NEW q, IsParent(t, p, c), IsParent(t, q, c)
  PROVE  p = q
<1>1. \A k \in 1..Len(t) : t[k].depth \in Nat
  BY TreeTyping
<1>2. /\ p \in 1..(c-1) /\ t[p].depth + 1 = t[c].depth
      /\ \A k \in (p+1)..(c-1) : t[k].depth >= t[c].depth
      /\ q \in 1..(c-1) /\ t[q].depth + 1 = t[c].depth
      /\ \A k \in (q+1)..(c-1) : t[k].depth >= t[c].depth
  BY DEF IsParent
<1>3. Len(t) \in Nat /\ p \in 1..Len(t) /\ q \in 1..Len(t)
  <2>1. Len(t) \in Nat
    BY TreeTyping
  <2> QED BY <1>2, <2>1
<1>4. ~ (p < q)
  <2> SUFFICES ASSUME p < q PROVE FALSE
    OBVIOUS
  <2>1. q \in (p+1)..(c-1)
    BY <1>2, <1>3
  <2>2. t[q].depth >= t[c].depth
    BY <1>2, <2>1
  <2> QED BY <1>1, <1>2, <1>3, <2>2
<1>5. ~ (q < p)
  <2> SUFFICES ASSUME q < p PROVE FALSE
    OBVIOUS
  <2>1. p \in (q+1)..(c-1)
    BY <1>2, <1>3
  <2>2. t[p].depth >= t[c].depth
    BY <1>2, <2>1
  <2> QED BY <1>1, <1>2, <1>3, <2>2
<1> QED BY <1>3, <1>4, <1>5

LEMMA ParentExists ==
  ASSUME NEW N, NodeSet(N), NEW t \in Seq(N), IsTree(t), NEW c \in 2..Len(t)
  PROVE  /\ ParentOf(t, c) \in 1..(c-1)
         /\ IsParent(t, ParentOf(t, c), c)
<1> DEFINE S == {d \in Nat : d \in 1..(c-1) /\ t[c-d].depth < t[c].depth}
<1>1. /\ Len(t) \in Nat /\ \A k \in 1..Len(t) : t[k].depth \in Nat
      /\ \A k \in 2..Len(t) : t[1].depth < t[k].depth /\ t[k].depth <= t[k-1].depth + 1
  BY TreeTyping DEF IsTree
<1>2. c-1 \in S
  <2>1. c-1 \in Nat /\ c-1 \in 1..(c-1) /\ c-(c-1) = 1
    BY <1>1
  <2> QED BY <1>1, <2>1
<1>3. PICK d \in S : \A e \in S : d <= e
  <2>1. S \in SUBSET Nat /\ S # {}
    BY <1>2
  <2> HIDE DEF S
  <2> QED BY <2>1, LeastNat
<1> DEFINE p == c-d
<1>4. /\ p \in 1..(c-1) /\ d \in 1..(c-1) /\ t[p].depth < t[c].depth
      /\ p \in 1..Len(t) /\ c \in 1..Len(t) /\ p+1 \in 2..Len(t) /\ (p+1)-1 = p
  BY <1>1, <1>3
<1>5. ASSUME NEW k \in (p+1)..(c-1) PROVE t[k].depth >= t[c].depth
  <2>1. c-k \in Nat /\ c-k \in 1..(c-1) /\ c-(c-k) = k /\ c-k < d /\ k \in 1..Len(t)
    BY <1>1, <1>4
  <2>2. c-k \notin S
    <3> HIDE DEF S
    <3>1. ~ (d <= c-k)
      BY <1>4, <2>1
    <3> QED BY <1>3, <3>1
  <2>3. ~ (t[k].depth < t[c].depth)
    BY <2>1, <2>2
  <2>4. t[k].depth \in Nat /\ t[c].depth \in Nat
    BY <1>1, <1>4, <2>1
  <2> QED BY <2>3, <2>4
<1>6. t[p].depth + 1 = t[c].depth
  <2>1. t[p+1].depth <= t[p].depth + 1 /\ t[p+1].depth \in Nat
    BY <1>1, <1>4
  <2>2. t[p+1].depth >= t[c].depth
    <3>1. CASE p+1 = c
      BY <1>1, <1>4, <3>1
    <3>2. CASE p+1 # c
      <4>1. p+1 \in (p+1)..(c-1)
        BY <1>1, <1>4, <3>2
      <4> HIDE DEF p
      <4> QED BY <1>5, <4>1
    <3> QED BY <3>1, <3>2
  <2>3. t[p].depth \in Nat /\ t[c].depth \in Nat /\ t[p].depth < t[c].depth
    BY <1>1, <1>4
  <2>4. \A x, y, z \in Nat : x < y /\ z <= x + 1 /\ z >= y => x + 1 = y
    OBVIOUS
  <2> HIDE DEF p, S
  <2> QED BY <2>1, <2>2, <2>3, <2>4
<1>7. IsParent(t, p, c)
  <2> HIDE DEF p
  <2> QED BY <1>4, <1>5, <1>6 DEF IsParent
<1> HIDE DEF p
<1> QED BY <1>4, <1>7 DEF ParentOf

(* The children of a node are the nodes that it is the parent of.          *)
LEMMA ChildrenAre ==
  ASSUME NEW N, NodeSet(N), NEW t \in Seq(N), IsTree(t), NEW p \in 1..Len(t), NEW c
  PROVE  c \in Children(t, p) <=> c \in 2..Len(t) /\ ParentOf(t, c) = p
<1>1. Len(t) \in Nat
  BY TreeTyping
<1>2. ASSUME c \in Children(t, p) PROVE c \in 2..Len(t) /\ ParentOf(t, c) = p
  <2>1. c \in (p+1)..Len(t) /\ IsParent(t, p, c)
    BY <1>2 DEF Children
  <2>2. c \in 2..Len(t) /\ c \in 1..Len(t)
    BY <1>1, <2>1
  <2>3. IsParent(t, ParentOf(t, c), c)
    BY <2>2, ParentExists
  <2> QED BY <2>1, <2>2, <2>3, ParentUnique
<1>3. ASSUME c \in 2..Len(t), ParentOf(t, c) = p PROVE c \in Children(t, p)
  <2>1. p \in 1..(c-1) /\ IsParent(t, p, c)
    BY <1>3, ParentExists
  <2>2. c \in (p+1)..Len(t)
    BY <1>1, <1>3, <2>1
  <2> QED BY <2>1, <2>2 DEF Children
<1> QED BY <1>2, <1>3

(* The subtrees of a node's children follow each other: ChildrenEnd(t, p,  *)
(* i) is the last node of the i-th, and the next one starts after it.      *)
ChildrenEnd(t, p, i) == IF i = 0 THEN p ELSE SubtreeEnd(t, Ascending(Children(t, p))[i])

LEMMA ChildrenFollow ==
  ASSUME NEW N, NodeSet(N), NEW t \in Seq(N), IsTree(t), NEW p \in 1..Len(t),
         NEW m, m = Cardinality(Children(t, p))
  PROVE  /\ m \in Nat
         /\ \A i \in 1..m : /\ Ascending(Children(t, p))[i] = ChildrenEnd(t, p, i-1) + 1
                            /\ Ascending(Children(t, p))[i] \in 2..Len(t)
                            /\ Ascending(Children(t, p))[i] <= ChildrenEnd(t, p, i)
         /\ \A i \in 0..m : ChildrenEnd(t, p, i) \in p..Len(t)
         /\ ChildrenEnd(t, p, m) = SubtreeEnd(t, p)
<1> DEFINE K == Children(t, p)
           kid == Ascending(K)
           d(k) == t[k].depth
           E(i) == ChildrenEnd(t, p, i)
           e == SubtreeEnd(t, p)
           L == Len(t)
<1>1. /\ L \in Nat /\ \A k \in 1..L : d(k) \in Nat
      /\ \A k \in 2..L : d(k) <= d(k-1) + 1
  BY TreeTyping DEF IsTree
<1>2. /\ e \in p..L /\ \A k \in (p+1)..e : d(k) > d(p)
      /\ e < L => d(e+1) <= d(p)
  BY SubtreeEndExists DEF IsSubtreeEnd
<1>3. K \in SUBSET Nat /\ IsFiniteSet(K) /\ m \in Nat
      /\ \A c \in K : c \in (p+1)..L /\ IsParent(t, p, c)
  BY <1>1, ChildrenFinite, FS_CardinalityType
<1>4. /\ \A i \in 1..m : kid[i] \in K
      /\ \A c \in K : \E i \in 1..m : kid[i] = c
      /\ \A i, j \in 1..m : i < j <=> kid[i] < kid[j]
  BY <1>3, AscendingMembers, AscendingOrder
<1> HIDE DEF kid
<1>5. \A c \in K : d(c) = d(p) + 1 /\ \A k \in (p+1)..(c-1) : d(k) >= d(c)
  <2> SUFFICES ASSUME NEW c \in K PROVE d(c) = d(p) + 1 /\ \A k \in (p+1)..(c-1) : d(k) >= d(c)
    OBVIOUS
  <2>1. IsParent(t, p, c)
    BY <1>3
  <2> QED BY <2>1 DEF IsParent
<1>6. ASSUME NEW c \in K
      PROVE  /\ c \in 2..L /\ c \in 1..L /\ c \in p+1..L /\ SubtreeEnd(t, c) \in c..L
             /\ SubtreeEnd(t, c) <= e /\ c <= e
             /\ \A k \in (c+1)..SubtreeEnd(t, c) : d(k) > d(c)
             /\ SubtreeEnd(t, c) < L => d(SubtreeEnd(t, c) + 1) <= d(c)
  <2> DEFINE f == SubtreeEnd(t, c)
  <2>1. c \in 2..L /\ c \in 1..L /\ c \in p+1..L
    BY <1>1, <1>3
  <2>2. /\ f \in c..L /\ \A k \in (c+1)..f : d(k) > d(c)
        /\ f < L => d(f+1) <= d(c)
    BY <2>1, SubtreeEndExists DEF IsSubtreeEnd
  <2> HIDE DEF f
  <2>3. \A k \in (p+1)..f : d(k) > d(p)
    <3> SUFFICES ASSUME NEW k \in (p+1)..f PROVE d(k) > d(p)
      OBVIOUS
    <3>0. k \in 1..L /\ d(k) \in Nat /\ d(p) \in Nat /\ d(c) = d(p) + 1
      BY <1>1, <1>5, <2>1, <2>2
    <3> HIDE DEF d
    <3>1. CASE k \in (p+1)..(c-1)
      BY <1>5, <3>0, <3>1
    <3>2. CASE k = c
      BY <3>0, <3>2
    <3>3. CASE k \in (c+1)..f
      <4>1. d(k) > d(c)
        BY <2>2, <3>3
      <4> QED BY <3>0, <4>1
    <3>4. k \in (p+1)..(c-1) \/ k = c \/ k \in (c+1)..f
      BY <1>1, <2>1, <2>2
    <3> QED BY <3>1, <3>2, <3>3, <3>4
  <2>4. f <= e
    <3> SUFFICES ASSUME e < f PROVE FALSE
      BY <1>1, <1>2, <2>1, <2>2
    <3>1. e < L /\ e+1 \in (p+1)..f /\ e+1 \in 1..L
      BY <1>1, <1>2, <2>1, <2>2
    <3>2. d(e+1) <= d(p) /\ d(e+1) > d(p) /\ d(e+1) \in Nat /\ d(p) \in Nat
      BY <1>1, <1>2, <2>3, <3>1
    <3> QED BY <3>2
  <2> QED BY <1>1, <1>2, <2>1, <2>2, <2>4 DEF f
<1>7. ASSUME NEW i \in 0..m
      PROVE  /\ E(i) \in p..e /\ E(i) <= L
             /\ i # 0 => kid[i] \in K /\ E(i) = SubtreeEnd(t, kid[i])
             /\ E(i) < e => E(i) + 1 \in K
  <2>1. i # 0 => kid[i] \in K /\ E(i) = SubtreeEnd(t, kid[i])
    BY <1>3, <1>4, <1>7 DEF ChildrenEnd, kid
  <2>2. i = 0 => E(i) = p
    BY DEF ChildrenEnd
  <2>3. E(i) \in p..e
    BY <1>1, <1>2, <1>6, <2>1, <2>2
  <2>4. ASSUME E(i) < e PROVE E(i) + 1 \in K
    <3> DEFINE q == E(i) + 1
    <3> HIDE DEF E
    <3>1. q \in (p+1)..e /\ q \in 1..L /\ q \in 2..L /\ q-1 = E(i) /\ q \in (p+1)..L
      BY <1>1, <1>2, <2>3, <2>4
    <3>2. d(q) > d(p) /\ d(q) <= d(q-1) + 1 /\ d(q) \in Nat /\ d(p) \in Nat
      BY <1>1, <1>2, <3>1
    <3>3. d(q) <= d(p) + 1
      <4>1. CASE i = 0
        BY <2>2, <3>1, <3>2, <4>1
      <4>2. CASE i # 0
        <5>1. d(E(i) + 1) <= d(kid[i]) /\ d(kid[i]) = d(p) + 1
          <6>1. E(i) < L
            BY <1>1, <1>2, <2>3, <2>4
          <6> QED BY <1>5, <1>6, <2>1, <4>2, <6>1
        <5> QED BY <5>1
      <4> QED BY <4>1, <4>2
    <3>4. d(p) + 1 = d(q)
      BY <3>2, <3>3
    <3>5. \A k \in (p+1)..(q-1) : d(k) >= d(q)
      <4> SUFFICES ASSUME NEW k \in (p+1)..(q-1) PROVE d(k) >= d(q)
        OBVIOUS
      <4>1. k \in (p+1)..e /\ k \in 1..L
        BY <1>1, <1>2, <3>1
      <4>2. d(k) > d(p) /\ d(k) \in Nat
        BY <1>1, <1>2, <4>1
      <4> QED BY <3>2, <3>4, <4>2
    <3>6. p \in 1..(q-1)
      BY <1>1, <3>1
    <3> HIDE DEF q
    <3>7. IsParent(t, p, q)
      BY <3>4, <3>5, <3>6 DEF IsParent
    <3> QED BY <3>1, <3>7 DEF Children, q
  <2> QED BY <1>1, <1>2, <2>1, <2>3, <2>4
<1>8. ASSUME NEW i \in 1..m PROVE kid[i] = E(i-1) + 1
  <2> DEFINE q == E(i-1) + 1
             c == kid[i]
  <2>1. i-1 \in 0..m /\ i-1 \in Nat /\ i \in Nat
    BY <1>3, <1>8
  <2>2. /\ E(i-1) \in p..e
        /\ E(i-1) < e => q \in K
        /\ i-1 # 0 => kid[i-1] \in K /\ E(i-1) = SubtreeEnd(t, kid[i-1])
    BY <1>7, <2>1
  <2>3. c \in K /\ c \in Nat /\ c <= e /\ c \in (p+1)..L
    BY <1>3, <1>4, <1>6, <1>8
  <2> HIDE DEF c, E
  <2>4. c >= q
    <3>1. CASE i-1 = 0
      <4>1. q = p+1
        BY <3>1 DEF E, ChildrenEnd
      <4> QED BY <2>3, <4>1
    <3>2. CASE i-1 # 0
      <4> DEFINE b == kid[i-1]
      <4>1. i-1 \in 1..m /\ i-1 < i
        BY <1>3, <1>8, <2>1, <3>2
      <4>2. b \in K /\ b < c /\ E(i-1) = SubtreeEnd(t, b)
        BY <1>4, <1>8, <2>2, <3>2, <4>1 DEF c
      <4> HIDE DEF b
      <4>3. ~(c \in (b+1)..SubtreeEnd(t, b))
        <5> SUFFICES ASSUME c \in (b+1)..SubtreeEnd(t, b) PROVE FALSE
          OBVIOUS
        <5>1. d(c) > d(b) /\ d(c) = d(p) + 1 /\ d(b) = d(p) + 1
          BY <1>5, <1>6, <2>3, <4>2
        <5>2. d(p) \in Nat
          BY <1>1
        <5> QED BY <5>1, <5>2
      <4>4. b \in Nat /\ SubtreeEnd(t, b) \in Nat
        BY <1>1, <1>3, <1>6, <4>2
      <4> QED BY <2>3, <4>2, <4>3, <4>4
    <3> QED BY <3>1, <3>2
  <2>5. q \in K /\ q \in Nat
    <3>1. E(i-1) \in Nat /\ e \in Nat
      BY <1>1, <1>2, <2>2
    <3> QED BY <2>2, <2>3, <2>4, <3>1
  <2>6. PICK j \in 1..m : kid[j] = q
    BY <1>4, <2>5
  <2>7. ~(j < i)
    <3> SUFFICES ASSUME j < i PROVE FALSE
      OBVIOUS
    <3>1. i-1 # 0 /\ i-1 \in 1..m /\ (j < i-1 \/ j = i-1)
      BY <1>3, <1>8, <2>1, <2>6
    <3>2. kid[i-1] \in K /\ kid[i-1] \in Nat /\ kid[i-1] <= E(i-1) /\ E(i-1) \in Nat
      BY <1>1, <1>3, <1>6, <2>2, <3>1
    <3>3. kid[j] <= kid[i-1]
      <4>1. j = i-1 \/ kid[j] < kid[i-1]
        BY <1>4, <3>1
      <4> QED BY <2>5, <2>6, <3>2, <4>1
    <3> QED BY <2>6, <3>2, <3>3
  <2>8. ~(i < j)
    <3> SUFFICES ASSUME i < j PROVE FALSE
      OBVIOUS
    <3>1. c < q
      BY <1>4, <1>8, <2>6 DEF c
    <3> QED BY <2>3, <2>4, <2>5, <3>1
  <2>9. i = j
    BY <1>3, <1>8, <2>7, <2>8
  <2> QED BY <2>6, <2>9 DEF E
<1>9. E(m) = e
  <2>1. m \in 0..m
    BY <1>3
  <2>2. E(m) \in p..e /\ (E(m) < e => E(m) + 1 \in K) /\ (m # 0 => kid[m] \in K /\ E(m) = SubtreeEnd(t, kid[m]))
    BY <1>7, <2>1
  <2> SUFFICES ASSUME E(m) < e PROVE FALSE
    BY <1>1, <1>2, <2>2
  <2>3. PICK j \in 1..m : kid[j] = E(m) + 1
    BY <1>4, <2>2
  <2>4. m # 0 /\ m \in 1..m /\ (j < m \/ j = m)
    BY <1>3, <2>3
  <2>5. kid[m] \in K /\ kid[m] \in Nat /\ kid[m] <= E(m) /\ E(m) \in Nat
    <3>1. kid[m] \in K /\ E(m) = SubtreeEnd(t, kid[m])
      BY <2>2, <2>4
    <3> QED BY <1>1, <1>3, <1>6, <3>1
  <2> HIDE DEF E
  <2>6. ~(kid[j] < kid[m]) /\ kid[j] # kid[m]
    BY <2>3, <2>5
  <2> QED BY <1>4, <2>3, <2>4, <2>6
<1>10. \A i \in 1..m : kid[i] \in 2..L /\ kid[i] <= E(i)
  <2> SUFFICES ASSUME NEW i \in 1..m PROVE kid[i] \in 2..L /\ kid[i] <= E(i)
    OBVIOUS
  <2>1. kid[i] \in K /\ i \in 0..m /\ i # 0
    BY <1>3, <1>4
  <2>2. E(i) = SubtreeEnd(t, kid[i])
    BY <1>7, <2>1
  <2> HIDE DEF E
  <2> QED BY <1>1, <1>6, <2>1, <2>2
<1>11. \A i \in 0..m : E(i) \in p..L
  <2> SUFFICES ASSUME NEW i \in 0..m PROVE E(i) \in p..L
    OBVIOUS
  <2>1. E(i) \in p..e
    BY <1>7
  <2> HIDE DEF E
  <2> QED BY <1>1, <1>2, <2>1
<1> QED BY <1>3, <1>8, <1>9, <1>10, <1>11 DEF kid
=============================================================================
