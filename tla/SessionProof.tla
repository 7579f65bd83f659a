---------------------------- MODULE SessionProof ----------------------------
(***************************************************************************)
(* Proofs about module Session: over restarts, imports and failing writes  *)
(* a tree file holds the tree of its entry or is rejected, and the tree    *)
(* the hooks work on is the one of the entry that afl-fuzz is at.          *)
(*                                                                         *)
(* First come facts about tree_deserialize, for trees and files of any     *)
(* size: it gives back what tree_serialize wrote, and of a file that was   *)
(* cut off anywhere it makes nothing, or what it makes of the whole file.  *)
(***************************************************************************)
EXTENDS Session, SumsProof

-----------------------------------------------------------------------------
(* Tree files: what is written is a sequence of cells, and reading it, or  *)
(* a part of it, comes to an end.                                          *)
Joined(w, u, v) ==
  /\ Len(w) = Len(u) + Len(v)
  /\ \A j \in 1..Len(u) : j \in 1..Len(w) /\ w[j] = u[j]
  /\ \A j \in 1..Len(v) : Len(u) + j \in 1..Len(w) /\ w[Len(u) + j] = v[j]

LEMMA Concatenation ==
  ASSUME NEW S, NEW u \in Seq(S), NEW v \in Seq(S), NEW w, w = u \o v
  PROVE  w \in Seq(S) /\ Joined(w, u, v)
<1>1. u \o v \in Seq(S) /\ Len(u \o v) = Len(u) + Len(v)
  OBVIOUS
<1>2. ASSUME NEW j \in 1..Len(u)
      PROVE  j \in 1..Len(u \o v) /\ (u \o v)[j] = u[j]
  OBVIOUS
<1>3. ASSUME NEW j \in 1..Len(v)
      PROVE  Len(u) + j \in 1..Len(u \o v) /\ (u \o v)[Len(u) + j] = v[j]
  OBVIOUS
<1> QED BY <1>1, <1>2, <1>3, Zenon DEF Joined

LEMMA WithHead ==
  ASSUME NEW S, NEW s \in Seq(S), NEW i \in 1..Len(s)
  PROVE  <<s[i]>> \o SubSeq(s, i+1, Len(s)) = SubSeq(s, i, Len(s))
<1> DEFINE tail == SubSeq(s, i+1, Len(s))
           whole == SubSeq(s, i, Len(s))
           head == <<s[i]>>
<1>1. /\ tail \in Seq(S) /\ Len(tail) = Len(s) - i
      /\ \A j \in 1..(Len(s) - i) : tail[j] = s[i+j]
  OBVIOUS
<1>2. /\ whole \in Seq(S) /\ Len(whole) = Len(s) - i + 1
      /\ \A j \in 1..(Len(s) - i + 1) : whole[j] = s[i+j-1]
  OBVIOUS
<1>3. head \in Seq(S) /\ Len(head) = 1 /\ head[1] = s[i] /\ Len(s) \in Nat
  OBVIOUS
<1> DEFINE joined == head \o tail
<1> HIDE DEF tail, whole, head
<1>4. /\ joined \in Seq(S) /\ Len(joined) = Len(s) - i + 1 /\ joined[1] = s[i]
      /\ \A j \in 1..(Len(s) - i) : joined[1 + j] = s[i+j]
  <2>1. joined \in Seq(S) /\ Joined(joined, head, tail)
    BY <1>1, <1>3, Concatenation, Zenon
  <2> HIDE DEF joined
  <2>2. 1 \in 1..Len(head)
    BY <1>3
  <2> QED BY <1>1, <1>3, <2>1, <2>2 DEF Joined
<1> HIDE DEF joined
<1>5. ASSUME NEW j \in 1..(Len(s) - i + 1) PROVE joined[j] = whole[j]
  <2>1. CASE j = 1
    BY <1>2, <1>4, <2>1
  <2>2. CASE j # 1
    <3>1. j-1 \in 1..(Len(s) - i) /\ 1 + (j-1) = j /\ i + (j-1) = i+j-1
      BY <1>3, <2>2
    <3> QED BY <1>2, <1>4, <3>1
  <2> QED BY <2>1, <2>2
<1>6. joined = whole
  <2>1. Len(joined) = Len(whole) /\ \A j \in 1..Len(whole) : joined[j] = whole[j]
    BY <1>2, <1>4, <1>5
  <2> QED BY <1>2, <1>4, <2>1
<1> QED BY <1>6 DEF joined, head, tail, whole

LEMMA FlattenStep ==
  ASSUME NEW S, NEW seqs \in Seq(Seq(S)), Len(seqs) # 0
  PROVE  \E F \in [1..Len(seqs) -> Seq(S)] :
           /\ F[1] = seqs[1] /\ \A i \in 2..Len(seqs) : F[i] = F[i-1] \o seqs[i]
           /\ FlattenSeq(seqs) = F[Len(seqs)]
<1> DEFINE N == Len(seqs)
           Body(f) == [i \in 1..N |-> IF i = 1 THEN seqs[i] ELSE f[i-1] \o seqs[i]]
           F == CHOOSE f : f = Body(f)
<1>1. N \in Nat /\ N # 0 /\ \A i \in 1..N : seqs[i] \in Seq(S)
  OBVIOUS
<1>2. FlattenSeq(seqs) = F[N]
  BY DEF FlattenSeq
<1>3. PICK f \in [1..N -> Seq(S)] : f = Body(f)
  <2> DEFINE pred == [i \in 1..N |-> i-1]
             same == [i \in 1..N |-> i]
             first == {1}
             op == [p \in (1..N) \X Seq(S) |-> p[2] \o seqs[p[1]]]
  <2>1. Shrinks(1..N, first, pred, same)
    BY <1>1 DEF Shrinks
  <2>2. /\ \A i \in 1..N, v \in Seq(S) : op[<<i, v>>] = v \o seqs[i]
        /\ \A i \in 1..N, v \in Seq(S) : op[<<i, v>>] \in Seq(S)
        /\ \A i \in 1..N : pred[i] = i-1
    <3>1. \A i \in 1..N, v \in Seq(S) : op[<<i, v>>] = v \o seqs[i]
      OBVIOUS
    <3>2. \A v, w \in Seq(S) : v \o w \in Seq(S)
      OBVIOUS
    <3> HIDE DEF op
    <3> QED BY <1>1, <3>1, <3>2
  <2> HIDE DEF pred, same, op, N, first
  <2>3. \E f \in [1..N -> Seq(S)] : Recurses(f, 1..N, first, pred, seqs, op)
    BY <1>1, <2>1, <2>2, MeasuredRecursion, Zenon
  <2>4. PICK f \in [1..N -> Seq(S)] :
          \A i \in 1..N : f[i] = IF i = 1 THEN seqs[i] ELSE op[<<i, f[pred[i]]>>]
    BY <2>3 DEF first, Recurses
  <2>5. \A i \in 1..N : f[i] = IF i = 1 THEN seqs[i] ELSE f[i-1] \o seqs[i]
    <3> TAKE i \in 1..N
    <3>1. i # 1 => i-1 \in 1..N
      BY <1>1
    <3>2. i # 1 => f[i-1] \in Seq(S) /\ f[pred[i]] = f[i-1]
      BY <2>2, <3>1
    <3>3. i # 1 => op[<<i, f[i-1]>>] = f[i-1] \o seqs[i]
      BY <2>2, <3>2
    <3> QED BY <2>4, <3>2, <3>3
  <2>6. f = Body(f)
    BY <2>5
  <2> QED BY <2>6
<1>4. F = Body(F)
  <2> HIDE DEF Body
  <2> QED BY <1>3
<1> HIDE DEF F
<1>5. /\ F[1] = seqs[1]
      /\ \A i \in 2..N : F[i] = F[i-1] \o seqs[i]
  <2>1. \A i \in 1..N : F[i] = IF i = 1 THEN seqs[i] ELSE F[i-1] \o seqs[i]
    BY <1>4
  <2>2. 1 \in 1..N /\ \A i \in 2..N : i \in 1..N /\ i # 1
    BY <1>1
  <2> QED BY <2>1, <2>2
<1>6. \A i \in 1..N : F[i] \in Seq(S)
  <2> DEFINE pred == [i \in 1..N |-> i-1]
             same == [i \in 1..N |-> i]
             first == {1}
             Typed == {i \in 1..N : F[i] \in Seq(S)}
  <2>1. Shrinks(1..N, first, pred, same)
    BY <1>1 DEF Shrinks
  <2>2. \A i \in 1..N : i \in first => i \in Typed
    BY <1>1, <1>5
  <2>3. ASSUME NEW i \in (1..N) \ first, pred[i] \in Typed PROVE i \in Typed
    <3>1. i \in 2..N /\ i \in 1..N /\ pred[i] = i-1
      BY <1>1
    <3>2. F[i] = F[i-1] \o seqs[i] /\ F[i-1] \in Seq(S) /\ seqs[i] \in Seq(S)
      BY <1>1, <1>5, <2>3, <3>1
    <3>3. F[i] \in Seq(S)
      BY <3>2
    <3> QED BY <3>3
  <2>4. 1..N \subseteq Typed
    <3> DEFINE D == 1..N
    <3>1. Shrinks(D, first, pred, same) /\ \A i \in D : i \in first => i \in Typed
      BY <2>1, <2>2
    <3>2. \A i \in D \ first : pred[i] \in Typed => i \in Typed
      BY <2>3
    <3> HIDE DEF pred, same, Typed, N, first, D
    <3>3. D \subseteq Typed
      BY <3>1, <3>2, MeasuredInduction
    <3> QED BY <3>3 DEF D
  <2> QED BY <2>4
<1>7. F \in [1..N -> Seq(S)]
  <2>1. F = [i \in 1..N |-> F[i]]
    BY <1>4
  <2> QED BY <1>6, <2>1
<1> HIDE DEF Body
<1> QED BY <1>2, <1>5, <1>7

LEMMA Flattened ==
  ASSUME NEW S, NEW seqs \in Seq(Seq(S))
  PROVE  FlattenSeq(seqs) \in Seq(S)
<1>1. CASE Len(seqs) = 0
  <2>1. seqs = <<>> /\ FlattenSeq(seqs) = seqs
    BY <1>1 DEF FlattenSeq
  <2>2. <<>> \in Seq(S)
    OBVIOUS
  <2> QED BY <2>1, <2>2, Zenon
<1>2. CASE Len(seqs) # 0
  <2>1. Len(seqs) \in 1..Len(seqs)
    BY <1>2
  <2>2. PICK F \in [1..Len(seqs) -> Seq(S)] : FlattenSeq(seqs) = F[Len(seqs)]
    BY <1>2, FlattenStep
  <2> QED BY <2>1, <2>2
<1> QED BY <1>1, <1>2

LEMMA Serialized ==
  ASSUME NEW t \in Seq(TreeNode)
  PROVE  Serialize(t) \in Seq(Nat)
<1> DEFINE cells == [i \in DOMAIN t |->
      <<t[i].id, t[i].rule_id, t[i].subnode_count, Len(t[i].val)>> \o t[i].val]
<1>1. DOMAIN t = 1..Len(t) /\ Len(t) \in Nat
  OBVIOUS
<1>2. ASSUME NEW i \in DOMAIN t PROVE cells[i] \in Seq(Nat)
  <2>1. t[i] \in TreeNode
    BY <1>1
  <2>2. /\ t[i].id \in Nat /\ t[i].rule_id \in Nat /\ t[i].subnode_count \in Nat
        /\ t[i].val \in Seq(Nat)
    BY <2>1 DEF TreeNode
  <2>3. <<t[i].id, t[i].rule_id, t[i].subnode_count, Len(t[i].val)>> \in Seq(Nat)
    BY <2>2
  <2> QED BY <2>2, <2>3
<1>3. cells \in Seq(Seq(Nat))
  <2>1. cells \in [1..Len(t) -> Seq(Nat)]
    BY <1>1, <1>2
  <2> HIDE DEF cells
  <2> QED BY <1>1, <2>1
<1>4. Serialize(t) = FlattenSeq(cells)
  BY DEF Serialize
<1> HIDE DEF cells
<1> QED BY <1>3, <1>4, Flattened

Positions == Nat \X Nat

Reading == [nodes : Seq(TreeNode), consumed : Nat, failed : BOOLEAN]

LEMMA NodeTypes ==
  ASSUME NEW F \in Seq(Nat), NEW at \in Positions
  PROVE  /\ NodeAt(F, at[1]) \in TreeNode
         /\ Len(NodeAt(F, at[1]).val) = Cell(F, at[1] + 4)
         /\ NodeAt(F, at[1]).subnode_count = Cell(F, at[1] + 3)
         /\ \A k \in Nat \ {0} : Cell(F, k) \in Nat
<1>1. ASSUME NEW k \in Nat \ {0} PROVE Cell(F, k) \in Nat
  BY DEF Cell
<1>2. at[1] \in Nat
  BY DEF Positions
<1> DEFINE n == Cell(F, at[1] + 4)
           val == [k \in 1..n |-> Cell(F, at[1] + FIELDS + k)]
<1>3. n \in Nat /\ Cell(F, at[1]+1) \in Nat /\ Cell(F, at[1]+2) \in Nat /\ Cell(F, at[1]+3) \in Nat
  <2>1. \A i \in {1, 2, 3, 4} : at[1] + i \in Nat \ {0}
    BY <1>2
  <2>2. \A i \in {1, 2, 3, 4} : Cell(F, at[1] + i) \in Nat
    BY <1>1, <2>1, Zenon
  <2> QED BY <2>2
<1>4. \A k \in 1..n : Cell(F, at[1] + FIELDS + k) \in Nat
  <2> TAKE k \in 1..n
  <2>1. at[1] + FIELDS + k \in Nat \ {0}
    <3> HIDE DEF n
    <3>1. \A u, w \in Nat : u + 4 + w \in Nat \ {0}
      OBVIOUS
    <3>2. k \in Nat
      BY <1>3
    <3> QED BY <1>2, <3>1, <3>2, Zenon DEF FIELDS
  <2> QED BY <1>1, <2>1, Zenon
<1>5. val \in [1..n -> Nat]
  <2> HIDE DEF n
  <2> QED BY <1>4
<1>6. val \in Seq(Nat) /\ Len(val) = n
  <2> HIDE DEF n, val
  <2> QED BY <1>3, <1>5
<1>7. NodeAt(F, at[1]) = [id |-> Cell(F, at[1]+1), rule_id |-> Cell(F, at[1]+2),
                          subnode_count |-> Cell(F, at[1]+3), val |-> val]
  BY DEF NodeAt
<1> HIDE DEF val, n
<1>8. NodeAt(F, at[1]) \in TreeNode
  BY <1>3, <1>6, <1>7 DEF TreeNode
<1>9. Len(NodeAt(F, at[1]).val) = n /\ NodeAt(F, at[1]).subnode_count = Cell(F, at[1]+3)
  BY <1>6, <1>7
<1> QED BY <1>1, <1>8, <1>9 DEF n

(* All of a file is mapped.                                                *)
LEMMA MappedFact ==
  ASSUME NEW F \in Seq(Nat)
  PROVE  Mapped(F) \in Nat /\ Len(F) <= Mapped(F)
<1>1. \A p \in Nat \ {0}, n \in Nat : (p - (n % p)) % p \in Nat
  OBVIOUS
<1>2. PICK r \in Nat : r = (PageSize - (Len(F) % PageSize)) % PageSize
  <2>1. Len(F) \in Nat
    OBVIOUS
  <2> QED BY <1>1, <2>1, PageSizeAssumption, Zenon
<1>3. Mapped(F) = Len(F) + r
  BY <1>2 DEF Mapped
<1> QED BY <1>3

(* The reader never stands still: what is left of the file, or else the    *)
(* number of nodes to be read, gets smaller with every node.               *)
Ends(F) == {at \in Positions : AtEnd(F, at)}

Steps(F) == [at \in Positions |-> After(F, at)]

LEMMA AfterTypes ==
  ASSUME NEW F \in Seq(Nat), NEW at \in Positions \ Ends(F)
  PROVE  /\ at[1] \in Nat /\ at[2] \in Nat /\ at[2] # 0
         /\ After(F, at) \in Positions
         /\ After(F, at)[1] = at[1] + 4 + Cell(F, at[1] + 4)
         /\ After(F, at)[2] = (at[2] - 1) + Cell(F, at[1] + 3)
         /\ Cell(F, at[1] + 4) \in Nat /\ Cell(F, at[1] + 3) \in Nat
         /\ at[1] > Len(F) \/ at[1] + 4 <= Len(F)
<1>1. at[1] \in Nat /\ at[2] \in Nat /\ at[2] # 0 /\ ~ NotEnoughData(F, at[1])
  BY DEF Positions, Ends, AtEnd
<1>2. at[1] + 4 \in Nat \ {0} /\ at[1] + 3 \in Nat \ {0}
  BY <1>1
<1>3. /\ NodeAt(F, at[1]) \in TreeNode
      /\ Len(NodeAt(F, at[1]).val) = Cell(F, at[1] + 4)
      /\ NodeAt(F, at[1]).subnode_count = Cell(F, at[1] + 3)
      /\ Cell(F, at[1] + 4) \in Nat /\ Cell(F, at[1] + 3) \in Nat
  BY <1>2, NodeTypes
<1>4. After(F, at) = <<at[1] + 4 + Cell(F, at[1] + 4), (at[2] - 1) + Cell(F, at[1] + 3)>>
  BY <1>3 DEF After, FIELDS
<1>5. at[1] + 4 + Cell(F, at[1] + 4) \in Nat /\ (at[2] - 1) + Cell(F, at[1] + 3) \in Nat
  <2>1. \A u, v \in Nat : u + 4 + v \in Nat /\ (u # 0 => (u - 1) + v \in Nat)
    OBVIOUS
  <2> QED BY <1>1, <1>3, <2>1, Zenon
<1>6. at[1] > Len(F) \/ at[1] + 4 <= Len(F)
  BY <1>1 DEF NotEnoughData, FIELDS
<1> QED BY <1>1, <1>3, <1>4, <1>5, <1>6 DEF Positions

LEMMA Product ==
  ASSUME NEW a \in Nat, NEW b \in Nat, NEW K \in Nat, b + 1 <= a
  PROVE  b * K \in Nat /\ a * K \in Nat /\ b * K + K <= a * K
<1>1. PICK d \in Nat : a = b + 1 + d
  <2>1. a - b - 1 \in Nat /\ a = b + 1 + (a - b - 1)
    OBVIOUS
  <2> QED BY <2>1
<1>2. a * K = b * K + K + d * K
  BY <1>1
<1>3. d * K \in Nat /\ b * K \in Nat /\ a * K \in Nat
  OBVIOUS
<1> QED BY <1>2, <1>3

LEMMA ReaderShrinks ==
  ASSUME NEW F \in Seq(Nat)
  PROVE  \E mu : Shrinks(Positions, Ends(F), Steps(F), mu)
<1> DEFINE B == SumSeq(F)
           Left(c) == IF c <= Len(F) THEN Len(F) + 1 - c ELSE 0
           mu == [at \in Positions |-> Left(at[1]) * (B + 1) + at[2]]
<1>1. B \in Nat /\ Len(F) \in Nat
  BY SumSeqNat
<1>2. ASSUME NEW k \in Nat \ {0} PROVE Cell(F, k) \in Nat /\ Cell(F, k) <= B
  <2>1. CASE k <= Len(F)
    <3>1. k \in 1..Len(F) /\ F[k] \in Nat
      BY <2>1
    <3>2. F[k] <= B
      BY <3>1, SumSeqMember
    <3>3. Cell(F, k) = F[k]
      BY <2>1 DEF Cell
    <3> QED BY <3>1, <3>2, <3>3
  <2>2. CASE ~ (k <= Len(F))
    <3>1. Cell(F, k) = 0
      BY <2>2 DEF Cell
    <3> HIDE DEF B
    <3> QED BY <1>1, <3>1
  <2> QED BY <2>1, <2>2
<1> HIDE DEF B
<1>3. \A c \in Nat : Left(c) \in Nat
  BY <1>1
<1>4. ASSUME NEW at \in Positions
      PROVE  mu[at] \in Nat /\ mu[at] = Left(at[1]) * (B + 1) + at[2]
  <2>1. at[1] \in Nat /\ at[2] \in Nat
    BY DEF Positions
  <2>2. Left(at[1]) \in Nat /\ B + 1 \in Nat
    BY <1>1, <1>3, <2>1
  <2>3. \A u, v, w \in Nat : u * v + w \in Nat
    OBVIOUS
  <2>4. mu[at] = Left(at[1]) * (B + 1) + at[2]
    OBVIOUS
  <2> HIDE DEF mu, Left
  <2> QED BY <2>1, <2>2, <2>3, <2>4
<1>5. ASSUME NEW at \in Positions \ Ends(F)
      PROVE  Steps(F)[at] \in Positions /\ mu[Steps(F)[at]] < mu[at]
  <2> DEFINE c == at[1]
             m == at[2]
             v == Cell(F, at[1] + 4)
             s == Cell(F, at[1] + 3)
             to == After(F, at)
  <2>1. /\ c \in Nat /\ m \in Nat /\ m # 0 /\ to \in Positions
        /\ to[1] = c + 4 + v /\ to[2] = (m - 1) + s
        /\ v \in Nat /\ s \in Nat /\ (c > Len(F) \/ c + 4 <= Len(F))
    BY AfterTypes
  <2>2. s <= B /\ at[1] + 3 \in Nat \ {0} /\ at[1] + 4 \in Nat \ {0}
    <3>1. at[1] + 3 \in Nat \ {0} /\ at[1] + 4 \in Nat \ {0}
      <4> \A u \in Nat : u + 3 \in Nat \ {0} /\ u + 4 \in Nat \ {0}
        OBVIOUS
      <4> QED BY <2>1, Zenon
    <3> QED BY <1>2, <3>1
  <2>3. CASE c > Len(F)
    <3>1. s = 0 /\ v = 0
      BY <1>1, <2>1, <2>3 DEF Cell
    <3>2. to[1] = c + 4 /\ to[2] = m - 1
      <4> HIDE DEF c, m, v, s, to
      <4> QED BY <2>1, <3>1
    <3>3. Left(c) = 0 /\ Left(to[1]) = 0
      <4>1. ~ (c <= Len(F)) /\ ~ (c + 4 <= Len(F))
        <5> HIDE DEF c
        <5> QED BY <1>1, <2>1, <2>3
      <4> HIDE DEF c, to
      <4> QED BY <3>2, <4>1
    <3>4. mu[at] = 0 * (B + 1) + m /\ mu[to] = 0 * (B + 1) + (m - 1)
      <4>1. mu[at] = Left(c) * (B + 1) + m
        BY <1>4
      <4>2. mu[to] = Left(to[1]) * (B + 1) + to[2]
        BY <1>4, <2>1
      <4> HIDE DEF mu, Left, c, m, to
      <4> QED BY <3>2, <3>3, <4>1, <4>2
    <3>5. mu[to] < mu[at]
      <4> HIDE DEF mu, Left, c, m, to
      <4> QED BY <1>1, <2>1, <3>4
    <3> QED BY <2>1, <3>5 DEF Steps
  <2>4. CASE ~ (c > Len(F))
    <3>1. Left(c) \in Nat /\ Left(to[1]) \in Nat /\ Left(to[1]) + 1 <= Left(c)
      <4> HIDE DEF c, m, v, s, to
      <4> QED BY <1>1, <2>1, <2>4
    <3>2. /\ mu[at] = Left(c) * (B + 1) + m
          /\ mu[to] = Left(to[1]) * (B + 1) + ((m - 1) + s)
      <4>1. mu[at] = Left(c) * (B + 1) + m
        BY <1>4
      <4>2. mu[to] = Left(to[1]) * (B + 1) + to[2]
        BY <1>4, <2>1
      <4> HIDE DEF mu, Left, c, m, to, s
      <4> QED BY <2>1, <4>1, <4>2
    <3>3. /\ Left(to[1]) * (B + 1) \in Nat /\ Left(c) * (B + 1) \in Nat
          /\ Left(to[1]) * (B + 1) + (B + 1) <= Left(c) * (B + 1)
      <4>1. B + 1 \in Nat
        BY <1>1
      <4> HIDE DEF Left, c, to
      <4> QED BY <3>1, <4>1, Product
    <3>4. mu[to] < mu[at]
      <4> DEFINE p == Left(to[1]) * (B + 1)
                 q == Left(c) * (B + 1)
      <4>1. p \in Nat /\ q \in Nat /\ p + (B + 1) <= q /\ mu[at] = q + m
            /\ mu[to] = p + ((m - 1) + s)
        BY <3>2, <3>3
      <4> HIDE DEF mu, p, q, c, m, to, s
      <4> QED BY <1>1, <2>1, <2>2, <4>1
    <3> QED BY <2>1, <3>4 DEF Steps
  <2> QED BY <2>3, <2>4
<1> HIDE DEF mu
<1>6. Shrinks(Positions, Ends(F), Steps(F), mu)
  BY <1>4, <1>5 DEF Shrinks
<1> QED BY <1>6

(* What _node_deserialize reads from a position is the node there, then    *)
(* what it reads from the next.                                            *)
LEMMA ReadingsStep ==
  ASSUME NEW F \in Seq(Nat)
  PROVE  /\ Readings(F) \in [Positions -> Reading]
         /\ \A at \in Positions :
              Readings(F)[at] = IF AtEnd(F, at) THEN Ended(at)
                                ELSE WithNode(NodeAt(F, at[1]), Readings(F)[After(F, at)])
<1> DEFINE Body(f) == [at \in Nat \X Nat |->
                         IF AtEnd(F, at) THEN Ended(at)
                         ELSE WithNode(NodeAt(F, at[1]), f[After(F, at)])]
           R == CHOOSE f : f = Body(f)
<1>1. Readings(F) = R
  BY DEF Readings
<1>2. ASSUME NEW at \in Positions PROVE Ended(at) \in Reading
  <2>1. at[1] \in Nat /\ <<>> \in Seq(TreeNode) /\ (at[2] # 0) \in BOOLEAN
    BY DEF Positions
  <2> QED BY <2>1 DEF Ended, Reading
<1>3. ASSUME NEW node \in TreeNode, NEW rest \in Reading
      PROVE  WithNode(node, rest) \in Reading
  <2>1. \A n \in Seq(TreeNode) : <<node>> \o n \in Seq(TreeNode)
    OBVIOUS
  <2> QED BY <2>1, Zenon DEF WithNode, Reading
<1>4. ASSUME NEW f, NEW at \in Positions
      PROVE  AtEnd(F, at) <=> at \in Ends(F)
  BY DEF Ends
<1>5. \E f \in [Positions -> Reading] : f = Body(f)
  <2> DEFINE base == [at \in Positions |-> Ended(at)]
             op == [p \in Positions \X Reading |-> WithNode(NodeAt(F, p[1][1]), p[2])]
  <2>1. \A at \in Positions : base[at] = Ended(at) /\ base[at] \in Reading
    BY <1>2
  <2>2. \A at \in Positions, v \in Reading : op[<<at, v>>] = WithNode(NodeAt(F, at[1]), v)
    OBVIOUS
  <2>3. \A at \in Positions, v \in Reading : op[<<at, v>>] \in Reading
    BY <1>3, <2>2, NodeTypes
  <2> HIDE DEF base, op
  <2>4. PICK mu : Shrinks(Positions, Ends(F), Steps(F), mu)
    BY ReaderShrinks
  <2>5. PICK f \in [Positions -> Reading] : Recurses(f, Positions, Ends(F), Steps(F), base, op)
    BY <2>1, <2>3, <2>4, MeasuredRecursion
  <2>6. ASSUME NEW at \in Positions
        PROVE  f[at] = IF AtEnd(F, at) THEN Ended(at)
                       ELSE WithNode(NodeAt(F, at[1]), f[After(F, at)])
    <3>1. f[at] = IF at \in Ends(F) THEN base[at] ELSE op[<<at, f[Steps(F)[at]]>>]
      BY <2>5 DEF Recurses
    <3>2. CASE AtEnd(F, at)
      BY <1>4, <2>1, <3>1, <3>2
    <3>3. CASE ~ AtEnd(F, at)
      <4>1. at \in Positions \ Ends(F)
        BY <1>4, <3>3
      <4>2. Steps(F)[at] = After(F, at) /\ f[After(F, at)] \in Reading
        BY <4>1, AfterTypes DEF Steps
      <4> QED BY <2>2, <3>1, <3>3, <4>1, <4>2
    <3> QED BY <3>2, <3>3
  <2>7. f = Body(f)
    BY <2>6 DEF Positions
  <2> QED BY <2>7
<1>6. R = Body(R)
  <2> HIDE DEF Body
  <2> QED BY <1>5
<1> HIDE DEF R
<1>7. DOMAIN R = Positions
  BY <1>6 DEF Positions
<1>8. ASSUME NEW at \in Positions
      PROVE  R[at] = IF AtEnd(F, at) THEN Ended(at)
                     ELSE WithNode(NodeAt(F, at[1]), R[After(F, at)])
  BY <1>6 DEF Positions
<1>9. Positions \subseteq {at \in Positions : R[at] \in Reading}
  <2> DEFINE S == {at \in Positions : R[at] \in Reading}
  <2>1. \A at \in Positions : at \in Ends(F) => at \in S
    BY <1>2, <1>8 DEF Ends
  <2>2. ASSUME NEW at \in Positions \ Ends(F), Steps(F)[at] \in S PROVE at \in S
    <3>1. Steps(F)[at] = After(F, at) /\ ~ AtEnd(F, at)
      BY DEF Steps, Ends
    <3>2. R[at] = WithNode(NodeAt(F, at[1]), R[After(F, at)])
      BY <1>8, <3>1
    <3> QED BY <1>3, <2>2, <3>1, <3>2, NodeTypes
  <2> HIDE DEF S
  <2>3. PICK mu : Shrinks(Positions, Ends(F), Steps(F), mu)
    BY ReaderShrinks
  <2>4. Positions \subseteq S
    BY <2>1, <2>2, <2>3, MeasuredInduction
  <2> QED BY <2>4 DEF S
<1>10. R \in [Positions -> Reading]
  <2>1. R = [at \in Positions |-> R[at]]
    BY <1>6 DEF Positions
  <2> QED BY <1>9, <2>1
<1> QED BY <1>1, <1>8, <1>10

(* A node that lies in what is left of a file is read as in the whole.     *)
LEMMA SameNode ==
  ASSUME NEW F \in Seq(Nat), NEW k \in 0..Len(F), NEW u \in Nat, NEW v \in Nat,
         u + 4 + v <= k,
         v \in {Cell(F, u + 4), Cell(SubSeq(F, 1, k), u + 4)}
  PROVE  NodeAt(SubSeq(F, 1, k), u) = NodeAt(F, u)
<1> DEFINE G == SubSeq(F, 1, k)
<1>1. Len(G) = k /\ \A i \in 1..k : G[i] = F[i]
  OBVIOUS
<1> HIDE DEF G
<1>2. \A i \in 1..(u + 4 + v) : i <= Len(G) /\ i <= Len(F) /\ G[i] = F[i]
  <2>1. \A i \in 1..(u + 4 + v) : i \in 1..k /\ i <= k /\ i <= Len(F)
    OBVIOUS
  <2> QED BY <1>1, <2>1
<1>3. \A i \in 1..(u + 4 + v) : Cell(G, i) = Cell(F, i)
  BY <1>2 DEF Cell
<1>4. \A i \in {1, 2, 3, 4} : Cell(G, u + i) = Cell(F, u + i)
  <2>1. \A i \in {1, 2, 3, 4} : u + i \in 1..(u + 4 + v)
    OBVIOUS
  <2> QED BY <1>3, <2>1
<1>5. /\ Cell(G, u+1) = Cell(F, u+1) /\ Cell(G, u+2) = Cell(F, u+2)
      /\ Cell(G, u+3) = Cell(F, u+3) /\ Cell(G, u+4) = Cell(F, u+4)
  BY <1>4
<1>6. v = Cell(G, u+4) /\ v = Cell(F, u+4)
  BY <1>5 DEF G
<1>7. [i \in 1..v |-> Cell(G, u + FIELDS + i)] = [i \in 1..v |-> Cell(F, u + FIELDS + i)]
  <2>1. \A i \in 1..v : u + FIELDS + i \in 1..(u + 4 + v)
    BY DEF FIELDS
  <2> QED BY <1>3, <2>1
<1>8. NodeAt(G, u) = NodeAt(F, u)
  BY <1>5, <1>6, <1>7 DEF NodeAt
<1> QED BY <1>8 DEF G

(* A file that was cut short is read as far as it goes; and if that is     *)
(* enough, the whole file would have given the same.                       *)
LEMMA CutFile ==
  ASSUME NEW F \in Seq(Nat), NEW k \in 0..Len(F)
  PROVE  Deserialize(SubSeq(F, 1, k)) \in {<<>>, Deserialize(F)}
<1> DEFINE G == SubSeq(F, 1, k)
           RF == Readings(F)
           RG == Readings(G)
           S == {at \in Positions :
                   /\ at[1] <= RG[at].consumed
                   /\ ~ RG[at].failed /\ RG[at].consumed <= k => RG[at] = RF[at]}
<1>1. G \in Seq(Nat) /\ Len(G) = k /\ \A i \in 1..k : G[i] = F[i]
  OBVIOUS
<1> HIDE DEF G
<1>2. /\ RF \in [Positions -> Reading] /\ RG \in [Positions -> Reading]
      /\ \A at \in Positions :
           /\ RF[at] = IF AtEnd(F, at) THEN Ended(at)
                       ELSE WithNode(NodeAt(F, at[1]), RF[After(F, at)])
           /\ RG[at] = IF AtEnd(G, at) THEN Ended(at)
                       ELSE WithNode(NodeAt(G, at[1]), RG[After(G, at)])
  BY <1>1, ReadingsStep
<1> HIDE DEF RF, RG
<1>3. ASSUME NEW at \in Positions, at \in Ends(G) PROVE at \in S
  <2>1. RG[at] = Ended(at) /\ AtEnd(G, at) /\ at[1] \in Nat
    BY <1>2, <1>3 DEF Ends, Positions
  <2>2. RG[at].consumed = at[1] /\ RG[at].failed = (at[2] # 0)
    <3>1. Ended(at).consumed = at[1]
      BY DEF Ended
    <3>2. Ended(at).failed = (at[2] # 0)
      BY Zenon DEF Ended
    <3> QED BY <2>1, <3>1, <3>2
  <2>3. at[1] <= RG[at].consumed
    BY <2>1, <2>2
  <2>4. at[2] = 0 => RF[at] = Ended(at)
    BY <1>2 DEF AtEnd
  <2> QED BY <2>1, <2>2, <2>3, <2>4
<1>4. ASSUME NEW at \in Positions \ Ends(G), Steps(G)[at] \in S PROVE at \in S
  <2> DEFINE to == After(G, at)
  <2>1. Steps(G)[at] = to /\ ~ AtEnd(G, at)
    BY DEF Steps, Ends
  <2>2. /\ at[1] \in Nat /\ at[2] # 0 /\ to \in Positions
        /\ to[1] = at[1] + 4 + Cell(G, at[1] + 4) /\ Cell(G, at[1] + 4) \in Nat
    BY <1>1, AfterTypes
  <2>3. RG[at] = WithNode(NodeAt(G, at[1]), RG[to]) /\ RG[to] \in Reading
    BY <1>2, <2>1, <2>2
  <2>4. RG[at].consumed = RG[to].consumed /\ RG[at].failed = RG[to].failed
    BY <2>3 DEF WithNode, Reading
  <2>5. RG[to].consumed \in Nat /\ to[1] <= RG[to].consumed
        /\ (~ RG[to].failed /\ RG[to].consumed <= k => RG[to] = RF[to])
    BY <1>4, <2>1, <2>3 DEF Reading
  <2> HIDE DEF to
  <2>6. at[1] + 4 + Cell(G, at[1] + 4) <= RG[at].consumed /\ RG[at].consumed \in Nat
    BY <2>2, <2>4, <2>5
  <2>7. at[1] <= RG[at].consumed
    <3>1. \A u, v, w \in Nat : u + 4 + v <= w => u <= w
      OBVIOUS
    <3> QED BY <2>2, <2>6, <3>1
  <2>8. ASSUME ~ RG[at].failed, RG[at].consumed <= k PROVE RG[at] = RF[at]
    <3>1. PICK u \in Nat, v \in Nat : u = at[1] /\ v = Cell(G, u + 4) /\ u + 4 + v <= k
      <4>1. \A p, q, w \in Nat : p + 4 + q <= w /\ w <= k => p + 4 + q <= k
        OBVIOUS
      <4> QED BY <2>2, <2>6, <2>8, <4>1
    <3>2. NodeAt(G, u) = NodeAt(F, u)
      BY <3>1, SameNode DEF G
    <3>3. After(F, at) = to /\ After(F, at)[1] = u + 4 + v
      <4>1. After(F, at) = to
        BY <3>1, <3>2 DEF After, to
      <4> QED BY <2>2, <3>1, <4>1
    <3>4. u + 4 <= Len(F) /\ u + 4 + v <= Len(F)
      BY <3>1
    <3>5. ~ NotEnoughData(F, u)
      BY <3>1, <3>4 DEF NotEnoughData, FIELDS
    <3>6. ~ RunsOff(F, at)
      BY <3>1, <3>3, <3>4, MappedFact DEF RunsOff
    <3>7. ~ AtEnd(F, at)
      BY <2>2, <3>1, <3>5, <3>6 DEF AtEnd
    <3>8. RG[to] = RF[to]
      BY <2>4, <2>5, <2>8
    <3> QED BY <1>2, <2>3, <3>1, <3>2, <3>3, <3>7, <3>8
  <2> QED BY <2>7, <2>8
<1>5. Positions \subseteq S
  <2> HIDE DEF S
  <2>1. PICK mu : Shrinks(Positions, Ends(G), Steps(G), mu)
    BY <1>1, ReaderShrinks
  <2> QED BY <1>3, <1>4, <2>1, MeasuredInduction
<1>6. <<0, 1>> \in Positions /\ <<0, 1>> \in S
  BY <1>5 DEF Positions
<1> DEFINE rf == RF[<<0, 1>>]
           rg == RG[<<0, 1>>]
<1>7. ReadNodes(F) = rf /\ ReadNodes(G) = rg /\ rg \in Reading
  <2>1. ReadNodes(F) = rf /\ ReadNodes(G) = rg
    BY DEF ReadNodes, RF, RG
  <2> QED BY <1>2, <1>6, <2>1
<1>8. ~ rg.failed /\ rg.consumed <= k => rg = rf
  BY <1>6
<1> HIDE DEF rf, rg
<1>9. CASE rg.failed \/ rg.consumed > k
  BY <1>1, <1>7, <1>9 DEF Deserialize, G
<1>10. CASE ~ rg.failed /\ rg.consumed <= k
  <2>1. rg = rf /\ rg.consumed \in Nat
    BY <1>7, <1>8, <1>10 DEF Reading
  <2>2. ~ (rg.consumed > Len(G)) /\ ~ (rf.consumed > Len(F))
    BY <1>1, <1>10, <2>1
  <2>3. Deserialize(G) = rg.nodes /\ Deserialize(F) = rf.nodes
    BY <1>7, <1>10, <2>1, <2>2 DEF Deserialize
  <2> QED BY <2>1, <2>3 DEF G
<1>11. rg.consumed \in Nat
  BY <1>7 DEF Reading
<1> QED BY <1>9, <1>10, <1>11

(* Where the nodes of t are in its file, and the nodes still to be read    *)
(* behind each.                                                            *)
Layout(t, off, todo) ==
  /\ Serialize(t) \in Seq(Nat) /\ Len(t) \in Nat \ {0}
  /\ off[0] = 0 /\ off[Len(t)] = Len(Serialize(t)) /\ todo[0] = 1 /\ todo[Len(t)] = 0
  /\ \A i \in 0..Len(t) : off[i] \in Nat /\ todo[i] \in Nat /\ off[i] = Offsets(t)[i]
  /\ \A i \in 1..Len(t) :
       /\ NodeAt(Serialize(t), off[i-1]) = t[i] /\ Len(t[i].val) \in Nat
       /\ off[i] = off[i-1] + 4 + Len(t[i].val) /\ off[i] <= Len(Serialize(t))
       /\ todo[i-1] # 0 /\ todo[i] = (todo[i-1] - 1) + t[i].subnode_count

LEMMA FileLayout ==
  ASSUME NEW t \in Seq(TreeNode), WholeTree(t)
  PROVE  \E off, todo : Layout(t, off, todo)
<1> DEFINE n == Len(t)
           cells == [i \in DOMAIN t |->
             <<t[i].id, t[i].rule_id, t[i].subnode_count, Len(t[i].val)>> \o t[i].val]
           counts == [i \in DOMAIN t |-> t[i].subnode_count]
           P == PartialSums(counts)
           todo == [i \in 0..n |-> P[i] + 1 - i]
           File == Serialize(t)
<1>1. n \in Nat /\ DOMAIN t = 1..n
  OBVIOUS
<1>2. ASSUME NEW i \in 1..n
      PROVE  /\ t[i] \in TreeNode
             /\ t[i] = [id |-> t[i].id, rule_id |-> t[i].rule_id,
                        subnode_count |-> t[i].subnode_count, val |-> t[i].val]
             /\ t[i].id \in Nat /\ t[i].rule_id \in Nat /\ t[i].subnode_count \in Nat
             /\ t[i].val \in Seq(Nat)
  <2>1. t[i] \in TreeNode
    OBVIOUS
  <2> QED BY <2>1 DEF TreeNode
<1>3. ASSUME NEW i \in 1..n
      PROVE  /\ cells[i] \in Seq(Nat) /\ Len(cells[i]) = 4 + Len(t[i].val)
             /\ cells[i][1] = t[i].id /\ cells[i][2] = t[i].rule_id
             /\ cells[i][3] = t[i].subnode_count /\ cells[i][4] = Len(t[i].val)
             /\ \A k \in 1..Len(t[i].val) : cells[i][4 + k] = t[i].val[k]
  <2> DEFINE fields == <<t[i].id, t[i].rule_id, t[i].subnode_count, Len(t[i].val)>>
             val == t[i].val
  <2>1. cells[i] = fields \o val
    BY <1>1
  <2>2. /\ fields \in Seq(Nat) /\ Len(fields) = 4 /\ val \in Seq(Nat)
        /\ fields[1] = t[i].id /\ fields[2] = t[i].rule_id
        /\ fields[3] = t[i].subnode_count /\ fields[4] = Len(t[i].val)
    <3>1. PICK a \in Nat, b \in Nat, c \in Nat, d \in Nat :
            a = t[i].id /\ b = t[i].rule_id /\ c = t[i].subnode_count /\ d = Len(t[i].val)
      <4>1. Len(t[i].val) \in Nat
        BY <1>2
      <4> QED BY <1>2, <4>1, Zenon
    <3>2. fields = <<a, b, c, d>>
      BY <3>1
    <3>3. /\ <<a, b, c, d>> \in Seq(Nat) /\ Len(<<a, b, c, d>>) = 4
          /\ <<a, b, c, d>>[1] = a /\ <<a, b, c, d>>[2] = b
          /\ <<a, b, c, d>>[3] = c /\ <<a, b, c, d>>[4] = d
      OBVIOUS
    <3> HIDE DEF fields
    <3> QED BY <1>2, <3>1, <3>2, <3>3
  <2> HIDE DEF fields, cells
  <2>3. /\ cells[i] \in Seq(Nat) /\ Len(cells[i]) = 4 + Len(val)
        /\ \A j \in 1..4 : cells[i][j] = fields[j]
        /\ \A k \in 1..Len(val) : cells[i][4 + k] = val[k]
    <3> HIDE DEF val
    <3>1. cells[i] \in Seq(Nat) /\ Joined(cells[i], fields, val)
      BY <2>1, <2>2, Concatenation, Zenon
    <3> QED BY <2>2, <3>1 DEF Joined
  <2>4. 1 \in 1..4 /\ 2 \in 1..4 /\ 3 \in 1..4 /\ 4 \in 1..4
    OBVIOUS
  <2>5. /\ cells[i][1] = t[i].id /\ cells[i][2] = t[i].rule_id
        /\ cells[i][3] = t[i].subnode_count /\ cells[i][4] = Len(t[i].val)
    BY <2>2, <2>3, <2>4
  <2> QED BY <2>3, <2>5
<1>4. cells \in Seq(Seq(Nat)) /\ Len(cells) = n /\ File = FlattenSeq(cells)
  <2>1. cells \in [1..n -> Seq(Nat)]
    BY <1>1, <1>3
  <2>2. File = FlattenSeq(cells)
    BY DEF Serialize
  <2> HIDE DEF cells, n, File
  <2> QED BY <1>1, <2>1, <2>2
<1>5. /\ n # 0 /\ \A i \in 0..n : todo[i] \in Nat
      /\ todo[0] = 1 /\ todo[n] = 0 /\ \A i \in 0..(n-1) : todo[i] # 0
      /\ \A i \in 1..n : todo[i] = (todo[i-1] - 1) + t[i].subnode_count
  <2>1. counts \in Seq(Nat) /\ Len(counts) = n /\ \A i \in 1..n : counts[i] = t[i].subnode_count
    <3>1. counts \in [1..n -> Nat] /\ \A i \in 1..n : counts[i] = t[i].subnode_count
      BY <1>1, <1>2
    <3> HIDE DEF counts, n
    <3> QED BY <1>1, <3>1
  <2>2. n = P[n] + 1 /\ \A i \in 0..(n-1) : i < P[i] + 1
    <3>1. SumSeq(counts) = P[n]
      BY <2>1 DEF SumSeq
    <3>2. n = SumSeq(counts) + 1 /\ \A i \in 0..(n - 1) : i < P[i] + 1
      BY Zenon DEF WholeTree
    <3> HIDE DEF P, counts, n
    <3> QED BY <3>1, <3>2
  <2> HIDE DEF counts, n
  <2>3. P[0] = 0 /\ \A i \in 1..n : P[i] = P[i-1] + counts[i]
    <3>1. counts \in Seq(Int)
      BY <2>1
    <3> QED BY <2>1, <3>1, PartialSumsStep
  <2>4. \A i \in 0..n : P[i] \in Nat
    BY <2>1, PartialSumsNat
  <2> HIDE DEF P
  <2>5. n # 0
    BY <1>1, <2>2, <2>4
  <2>6. ASSUME NEW i \in 0..n PROVE todo[i] \in Nat /\ (i \in 0..(n-1) => todo[i] # 0)
    <3>1. PICK p \in Nat : p = P[i]
      BY <2>4
    <3>2. todo[i] = p + 1 - i
      BY <3>1
    <3>3. i = n \/ i \in 0..(n-1)
      BY <1>1
    <3> HIDE DEF todo
    <3> QED BY <1>1, <2>2, <3>1, <3>2, <3>3
  <2>7. ASSUME NEW i \in 1..n PROVE todo[i] = (todo[i-1] - 1) + t[i].subnode_count
    <3>1. PICK p \in Nat, q \in Nat, c \in Nat : p = P[i] /\ q = P[i-1] /\ c = t[i].subnode_count
      <4>1. i-1 \in 0..n /\ i \in 0..n
        BY <1>1
      <4> QED BY <1>2, <2>4, <4>1
    <3>2. p = q + c
      BY <2>1, <2>3, <3>1
    <3>3. todo[i] = p + 1 - i /\ todo[i-1] = q + 1 - (i-1)
      BY <1>1, <3>1
    <3> HIDE DEF todo
    <3>4. PICK x \in Int, y \in Int : x = todo[i] /\ y = todo[i-1] /\ x = (y - 1) + c
      <4>1. p + 1 - i \in Int /\ q + 1 - (i-1) \in Int /\ p + 1 - i = (q + 1 - (i-1) - 1) + c
        BY <1>1, <3>2
      <4> QED BY <3>3, <4>1
    <3> QED BY <3>1, <3>4, Zenon
  <2>8. todo[0] = 1 /\ todo[n] = 0
    <3>1. 0 \in 0..n /\ n \in 0..n /\ P[n] \in Nat
      BY <1>1, <2>4
    <3>2. todo[0] = P[0] + 1 - 0 /\ todo[n] = P[n] + 1 - n
      BY <3>1
    <3> HIDE DEF todo
    <3> QED BY <1>1, <2>2, <2>3, <3>1, <3>2
  <2>9. \A i \in 0..(n-1) : i \in 0..n
    BY <1>1
  <2> HIDE DEF todo
  <2> QED BY <2>5, <2>6, <2>7, <2>8, <2>9
<1> HIDE DEF cells, todo, counts, P, File, n
<1>6. PICK F \in [1..n -> Seq(Nat)] :
        /\ F[1] = cells[1] /\ \A i \in 2..n : F[i] = F[i-1] \o cells[i]
        /\ FlattenSeq(cells) = F[n]
  <2>1. Len(cells) # 0
    BY <1>4, <1>5
  <2>2. \E G \in [1..Len(cells) -> Seq(Nat)] :
          /\ G[1] = cells[1] /\ \A i \in 2..Len(cells) : G[i] = G[i-1] \o cells[i]
          /\ FlattenSeq(cells) = G[Len(cells)]
    BY <1>4, <2>1, FlattenStep, Zenon
  <2> QED BY <1>4, <2>2
<1> DEFINE off == [i \in 0..n |-> IF i = 0 THEN 0 ELSE Len(F[i])]
           Placed(m) == \A i \in 1..m : \A j \in 1..Len(cells[i]) :
                          /\ off[i-1] + j \in 1..Len(F[m])
                          /\ F[m][off[i-1] + j] = cells[i][j]
<1>7. /\ off[0] = 0 /\ off[n] = Len(File) /\ File = F[n] /\ File \in Seq(Nat)
      /\ \A i \in 0..n : off[i] \in Nat
      /\ \A i \in 1..n : off[i] = off[i-1] + Len(cells[i]) /\ off[i] = Len(F[i])
  <2>1. \A i \in 1..n : off[i] = Len(F[i]) /\ F[i] \in Seq(Nat) /\ Len(F[i]) \in Nat
    BY <1>1, <1>6
  <2>2. off[0] = 0
    BY <1>1
  <2>3. 1 \in 1..n /\ n \in 1..n
    BY <1>1, <1>5
  <2>4. \A i \in 0..n : i = 0 \/ i \in 1..n
    BY <1>1
  <2> HIDE DEF off
  <2>5. ASSUME NEW i \in 1..n PROVE off[i] = off[i-1] + Len(cells[i])
    <3>1. CASE i = 1
      <4>1. i-1 = 0 /\ Len(cells[1]) \in Nat
        BY <1>3, <2>3, <3>1
      <4> QED BY <1>6, <2>1, <2>2, <3>1, <4>1
    <3>2. CASE i # 1
      <4>1. i \in 2..n /\ i-1 \in 1..n
        BY <1>1, <3>2
      <4>2. F[i] = F[i-1] \o cells[i] /\ cells[i] \in Seq(Nat) /\ F[i-1] \in Seq(Nat)
        BY <1>3, <1>6, <4>1
      <4>3. Len(F[i]) = Len(F[i-1]) + Len(cells[i])
        BY <4>2
      <4> QED BY <2>1, <4>1, <4>3
    <3> QED BY <3>1, <3>2
  <2> QED BY <1>4, <1>6, <2>1, <2>2, <2>3, <2>4, <2>5
<1> HIDE DEF off
<1>8. Placed(n)
  <2> DEFINE S == {m \in 0..n : m = 0 \/ Placed(m)}
  <2>1. 0 \in S
    BY <1>1
  <2>2. ASSUME NEW m \in 1..n, m-1 \in S PROVE m \in S
    <3>1. ASSUME NEW j \in 1..Len(cells[m])
          PROVE  off[m-1] + j \in 1..Len(F[m]) /\ F[m][off[m-1] + j] = cells[m][j]
      <4>1. cells[m] \in Seq(Nat) /\ F[m] \in Seq(Nat) /\ Len(F[m]) = off[m-1] + Len(cells[m])
            /\ off[m-1] \in Nat
        <5>1. m-1 \in 0..n
          BY <1>1
        <5>2. cells[m] \in Seq(Nat) /\ F[m] \in Seq(Nat)
          BY <1>3, <1>6
        <5>3. /\ off[m] = off[m-1] + Len(cells[m]) /\ off[m] = Len(F[m])
              /\ off[m-1] \in Nat
          <6> HIDE DEF Placed
          <6> QED BY <1>7, <5>1
        <5> QED BY <5>2, <5>3
      <4>2. off[m-1] + j \in 1..Len(F[m])
        <5>1. \A a, b \in Nat : \A x \in 1..b : a + x \in 1..(a + b)
          OBVIOUS
        <5>2. Len(cells[m]) \in Nat
          BY <4>1
        <5> QED BY <4>1, <5>1, <5>2, Zenon
      <4>3. CASE m = 1
        BY <1>6, <1>7, <4>1, <4>3
      <4>4. CASE m # 1
        <5>1. m \in 2..n /\ m-1 \in 1..n
          BY <1>1, <4>4
        <5>2. F[m] = F[m-1] \o cells[m] /\ F[m-1] \in Seq(Nat) /\ Len(F[m-1]) = off[m-1]
          BY <1>6, <1>7, <5>1
        <5>3. F[m][Len(F[m-1]) + j] = cells[m][j]
          <6>1. Joined(F[m], F[m-1], cells[m])
            BY <4>1, <5>2, Concatenation, Zenon
          <6> QED BY <6>1, Zenon DEF Joined
        <5> QED BY <4>2, <5>2, <5>3
      <4> QED BY <4>2, <4>3, <4>4
    <3>2. ASSUME NEW i \in 1..(m-1), NEW j \in 1..Len(cells[i])
          PROVE  off[i-1] + j \in 1..Len(F[m]) /\ F[m][off[i-1] + j] = cells[i][j]
      <4>1. m \in 2..n /\ m-1 \in 1..n /\ m-1 # 0
        BY <1>1
      <4>2. off[i-1] + j \in 1..Len(F[m-1]) /\ F[m-1][off[i-1] + j] = cells[i][j]
        BY <2>2, <4>1
      <4>3. /\ F[m] = F[m-1] \o cells[m] /\ F[m-1] \in Seq(Nat) /\ cells[m] \in Seq(Nat)
        BY <1>3, <1>6, <4>1
      <4>4. \A x \in 1..Len(F[m-1]) : x \in 1..Len(F[m]) /\ F[m][x] = F[m-1][x]
        <5>1. Joined(F[m], F[m-1], cells[m])
          BY <4>3, Concatenation, Zenon
        <5> QED BY <5>1, Zenon DEF Joined
      <4> QED BY <4>2, <4>4
    <3>3. \A i \in 1..m : i = m \/ i \in 1..(m-1)
      OBVIOUS
    <3>4. Placed(m)
      <4> TAKE i \in 1..m
      <4>1. CASE i = m
        BY <3>1, <4>1
      <4>2. CASE i \in 1..(m-1)
        BY <3>2, <4>2
      <4> QED BY <3>3, <4>1, <4>2
    <3> HIDE DEF Placed
    <3> QED BY <1>1, <3>4
  <2>3. n \in S
    <3> HIDE DEF S
    <3>1. 0..n \subseteq S
      BY <1>1, <2>1, <2>2, NatClosed
    <3> QED BY <1>1, <3>1
  <2> HIDE DEF Placed
  <2> QED BY <1>5, <2>3
<1>9. ASSUME NEW i \in 1..n
      PROVE  /\ NodeAt(File, off[i-1]) = t[i] /\ off[i-1] \in Nat
             /\ off[i] = off[i-1] + 4 + Len(t[i].val) /\ off[i-1] + 4 <= Len(File)
  <2> DEFINE o == off[i-1]
             L == Len(t[i].val)
  <2>1. i-1 \in 0..n /\ i \in 0..n /\ L \in Nat
    BY <1>1, <1>2
  <2>2. o \in Nat /\ off[i] = o + Len(cells[i]) /\ Len(cells[i]) = 4 + L
    BY <1>3, <1>7, <2>1
  <2>3. ASSUME NEW j \in 1..Len(cells[i])
        PROVE  o + j <= Len(File) /\ Cell(File, o + j) = cells[i][j]
    <3>1. o + j \in 1..Len(File) /\ File[o + j] = cells[i][j]
      BY <1>7, <1>8
    <3> HIDE DEF o
    <3>2. o + j <= Len(File)
      BY <1>7, <3>1
    <3> QED BY <3>1, <3>2 DEF Cell
  <2> HIDE DEF o, L
  <2>4. \A j \in {1, 2, 3, 4} : j \in 1..Len(cells[i])
    BY <2>1, <2>2
  <2>5. /\ Cell(File, o+1) = t[i].id /\ Cell(File, o+2) = t[i].rule_id
        /\ Cell(File, o+3) = t[i].subnode_count /\ Cell(File, o+4) = L
        /\ o + 4 <= Len(File)
    BY <1>3, <2>3, <2>4 DEF L
  <2>6. [k \in 1..L |-> Cell(File, o + FIELDS + k)] = t[i].val
    <3>1. ASSUME NEW k \in 1..L PROVE Cell(File, o + FIELDS + k) = t[i].val[k]
      <4>1. 4 + k \in 1..Len(cells[i]) /\ o + FIELDS + k = o + (4 + k)
        BY <2>1, <2>2 DEF FIELDS
      <4>2. Cell(File, o + (4 + k)) = cells[i][4 + k]
        BY <2>3, <4>1
      <4>3. cells[i][4 + k] = t[i].val[k]
        BY <1>3 DEF L
      <4> QED BY <4>1, <4>2, <4>3
    <3>2. t[i].val \in Seq(Nat) /\ L = Len(t[i].val)
      BY <1>2 DEF L
    <3>3. t[i].val = [k \in 1..L |-> t[i].val[k]]
      BY <3>2
    <3> QED BY <3>1, <3>3
  <2>7. NodeAt(File, o) = t[i]
    <3>1. NodeAt(File, o) = [id |-> t[i].id, rule_id |-> t[i].rule_id,
                             subnode_count |-> t[i].subnode_count, val |-> t[i].val]
      BY <2>5, <2>6 DEF NodeAt
    <3> QED BY <1>2, <3>1
  <2>8. off[i] = o + 4 + L
    BY <2>1, <2>2
  <2> QED BY <2>2, <2>5, <2>7, <2>8 DEF o, L
<1>10. \A i \in 1..n : off[i] <= Len(File)
  <2> TAKE i \in 1..n
  <2>1. Len(cells[i]) \in 1..Len(cells[i])
    BY <1>2, <1>3
  <2>2. off[i-1] + Len(cells[i]) \in 1..Len(F[n])
    BY <1>8, <2>1
  <2> QED BY <1>7, <2>2
<1>11. \A i \in 0..n : off[i] = Offsets(t)[i]
  <2> DEFINE lens == [i \in DOMAIN t |-> FIELDS + Len(t[i].val)]
  <2>1. lens \in Seq(Int) /\ Len(lens) = n /\ \A i \in 1..n : lens[i] = 4 + Len(t[i].val)
    <3>1. lens \in [1..n -> Int] /\ \A i \in 1..n : lens[i] = 4 + Len(t[i].val)
      BY <1>1, <1>2 DEF FIELDS
    <3> HIDE DEF lens
    <3> QED BY <1>1, <3>1
  <2>2. Offsets(t) = PartialSums(lens)
    BY DEF Offsets
  <2> HIDE DEF lens
  <2>3. PartialSums(lens)[0] = 0
        /\ \A i \in 1..n : PartialSums(lens)[i] = PartialSums(lens)[i-1] + lens[i]
    BY <2>1, PartialSumsStep
  <2> DEFINE S == {i \in 0..n : off[i] = Offsets(t)[i]}
  <2>4. 0 \in S
    BY <1>1, <1>7, <2>2, <2>3
  <2>5. ASSUME NEW i \in 1..n, i-1 \in S PROVE i \in S
    <3>1. off[i-1] = Offsets(t)[i-1] /\ i \in 0..n
      BY <1>1, <2>5
    <3>2. PICK a \in Nat, l \in Nat : a = off[i-1] /\ l = Len(t[i].val)
      BY <1>2, <1>9
    <3>3. off[i] = a + 4 + l /\ Offsets(t)[i] = a + (4 + l)
      BY <1>9, <2>1, <2>2, <2>3, <3>1, <3>2
    <3>4. \A u, v \in Nat : u + 4 + v = u + (4 + v)
      OBVIOUS
    <3>5. off[i] = Offsets(t)[i]
      BY <3>2, <3>3, <3>4
    <3> QED BY <3>1, <3>5
  <2> HIDE DEF S
  <2>6. 0..n \subseteq S
    BY <1>1, <2>4, <2>5, NatClosed
  <2> QED BY <2>6 DEF S
<1>12. n \in Nat \ {0} /\ \A i \in 1..n : i-1 \in 0..(n-1) /\ Len(t[i].val) \in Nat
  BY <1>1, <1>2, <1>5
<1>13. Layout(t, off, todo)
  BY <1>5, <1>7, <1>9, <1>10, <1>11, <1>12 DEF Layout, File, n
<1> QED BY <1>13

(* A whole tree that was written whole is read back as it was, from what   *)
(* is mapped.                                                              *)
THEOREM FilesAreReadBack ==
  ASSUME NEW t \in Seq(TreeNode), WholeTree(t)
  PROVE  Deserialize(Serialize(t)) = t /\ ~ MayFault(Serialize(t))
<1> DEFINE n == Len(t)
           File == Serialize(t)
<1>1. PICK off, todo : Layout(t, off, todo)
  BY FileLayout
<1>2. /\ n \in Nat \ {0} /\ File \in Seq(Nat)
      /\ off[0] = 0 /\ off[n] = Len(File) /\ todo[0] = 1 /\ todo[n] = 0
      /\ \A i \in 0..n : off[i] \in Nat /\ todo[i] \in Nat
      /\ \A i \in 1..n :
           /\ NodeAt(File, off[i-1]) = t[i] /\ Len(t[i].val) \in Nat
           /\ off[i] = off[i-1] + 4 + Len(t[i].val) /\ off[i] <= Len(File)
           /\ todo[i-1] # 0 /\ todo[i] = (todo[i-1] - 1) + t[i].subnode_count
  BY <1>1 DEF Layout
<1> HIDE DEF n, File
<1> DEFINE R == Readings(File)
           Whole(i) == [nodes |-> SubSeq(t, i+1, n), consumed |-> off[n], failed |-> FALSE]
           S == {d \in 0..n : R[<<off[n-d], todo[n-d]>>] = Whole(n-d)}
<1>3. \A at \in Positions :
         R[at] = IF AtEnd(File, at) THEN Ended(at)
                 ELSE WithNode(NodeAt(File, at[1]), R[After(File, at)])
  BY <1>2, ReadingsStep
<1> HIDE DEF R
<1>4. R[<<off[n], todo[n]>>] = Whole(n)
  <2> DEFINE at == <<off[n], todo[n]>>
  <2>1. at \in Positions /\ at[1] = off[n] /\ at[2] = 0
    BY <1>2 DEF Positions
  <2>2. R[at] = Ended(at)
    <3> HIDE DEF at
    <3> QED BY <1>3, <2>1 DEF AtEnd
  <2>3. SubSeq(t, n+1, n) = <<>>
    BY <1>2 DEF n
  <2> HIDE DEF at
  <2>4. Ended(at) = [nodes |-> <<>>, consumed |-> off[n], failed |-> FALSE]
    <3>1. (at[2] # 0) = FALSE
      BY <2>1
    <3> QED BY <2>1, <3>1, Zenon DEF Ended
  <2> QED BY <2>2, <2>3, <2>4 DEF at
<1>5. ASSUME NEW i \in 1..n, R[<<off[i], todo[i]>>] = Whole(i)
       PROVE  R[<<off[i-1], todo[i-1]>>] = Whole(i-1)
  <2> DEFINE at == <<off[i-1], todo[i-1]>>
             to == <<off[i], todo[i]>>
  <2>1. /\ off[i-1] \in Nat /\ todo[i-1] \in Nat /\ todo[i-1] # 0
        /\ off[i] = off[i-1] + 4 + Len(t[i].val) /\ todo[i] = (todo[i-1] - 1) + t[i].subnode_count
        /\ off[i-1] + 4 <= Len(File) /\ NodeAt(File, off[i-1]) = t[i]
    <3>1. i-1 \in 0..n /\ i \in 0..n
      BY <1>2
    <3>2. PICK u \in Nat, v \in Nat : u = off[i-1] /\ v = Len(t[i].val)
      BY <1>2, <3>1
    <3>3. Len(File) \in Nat
      BY <1>2
    <3>4. off[i] = off[i-1] + 4 + Len(t[i].val) /\ off[i] <= Len(File)
      BY <1>2
    <3>5. \A p, q, w \in Nat : p + 4 + q <= w => p + 4 <= w
      OBVIOUS
    <3>6. off[i-1] + 4 <= Len(File)
      BY <3>2, <3>3, <3>4, <3>5
    <3> QED BY <1>2, <3>1, <3>6
  <2>2. at \in Positions /\ at[1] = off[i-1] /\ at[2] = todo[i-1]
    BY <2>1 DEF Positions
  <2>3. After(File, at) = to
    <3> HIDE DEF at
    <3> QED BY <2>1, <2>2 DEF After, FIELDS
  <2>4. ~ AtEnd(File, at)
    <3>1. \A u, v \in Nat : u + 4 <= v => ~ (v - u < 4)
      OBVIOUS
    <3>2. Len(File) \in Nat
      BY <1>2
    <3>3. ~ RunsOff(File, at)
      <4>1. After(File, at)[1] = off[i] /\ off[i] \in Nat /\ off[i] <= Len(File)
        BY <1>2, <2>3
      <4>2. Mapped(File) \in Nat /\ Len(File) <= Mapped(File)
        BY <1>2, MappedFact
      <4>3. \A u, v, w \in Nat : u <= v /\ v <= w => ~ (u > w)
        OBVIOUS
      <4> HIDE DEF at, to
      <4> QED BY <3>2, <4>1, <4>2, <4>3, Zenon DEF RunsOff
    <3> HIDE DEF at
    <3> QED BY <2>1, <2>2, <3>1, <3>2, <3>3, Zenon DEF AtEnd, NotEnoughData, FIELDS
  <2>5. R[at] = WithNode(t[i], Whole(i))
    <3>1. R[at] = WithNode(NodeAt(File, at[1]), R[After(File, at)])
      <4> HIDE DEF at
      <4> QED BY <1>3, <2>2, <2>4
    <3> HIDE DEF Whole
    <3> QED BY <1>5, <2>1, <2>2, <2>3, <3>1
  <2>6. <<t[i]>> \o SubSeq(t, i+1, n) = SubSeq(t, (i-1)+1, n)
    <3>1. (i-1)+1 = i
      BY <1>2
    <3>2. <<t[i]>> \o SubSeq(t, i+1, Len(t)) = SubSeq(t, i, Len(t))
      BY WithHead DEF n
    <3> QED BY <3>1, <3>2 DEF n
  <2>7. WithNode(t[i], Whole(i)) = [nodes |-> <<t[i]>> \o SubSeq(t, i+1, n),
                                    consumed |-> off[n], failed |-> FALSE]
    <3>1. \A node, nodes, c, f :
            WithNode(node, [nodes |-> nodes, consumed |-> c, failed |-> f])
              = [nodes |-> <<node>> \o nodes, consumed |-> c, failed |-> f]
      <4> TAKE node, nodes, c, f
      <4> DEFINE r == [nodes |-> nodes, consumed |-> c, failed |-> f]
                 more == <<node>> \o nodes
      <4>1. WithNode(node, r) = [r EXCEPT !.nodes = more]
        BY DEF WithNode
      <4> HIDE DEF more
      <4>2. [r EXCEPT !.nodes = more] = [nodes |-> more, consumed |-> c, failed |-> f]
        OBVIOUS
      <4> QED BY <4>1, <4>2 DEF more
    <3> QED BY <3>1, Zenon
  <2> QED BY <2>5, <2>6, <2>7
<1>6. n \in S
  <2>1. 0 \in S
    <3>1. n - 0 = n /\ 0 \in 0..n
      BY <1>2
    <3> HIDE DEF Whole
    <3> QED BY <1>4, <3>1
  <2>2. ASSUME NEW d \in 1..n, d-1 \in S PROVE d \in S
    <3>1. n-(d-1) \in 1..n /\ (n-(d-1))-1 = n-d /\ d \in 0..n
      BY <1>2
    <3>2. R[<<off[n-(d-1)], todo[n-(d-1)]>>] = Whole(n-(d-1))
      BY <2>2
    <3> HIDE DEF Whole
    <3>3. R[<<off[n-d], todo[n-d]>>] = Whole(n-d)
      BY <1>5, <3>1, <3>2
    <3> QED BY <3>1, <3>3
  <2> HIDE DEF S
  <2>3. 0..n \subseteq S
    BY <1>2, <2>1, <2>2, NatClosed
  <2> QED BY <1>2, <2>3
<1>7. R[<<0, 1>>] = Whole(0)
  <2>1. n - n = 0
    BY <1>2
  <2> HIDE DEF Whole
  <2> QED BY <1>2, <1>6, <2>1
<1>8. SubSeq(t, 0+1, n) = t
  BY <1>2 DEF n
<1>9. ReadNodes(File) = [nodes |-> t, consumed |-> Len(File), failed |-> FALSE]
  <2>1. ReadNodes(File) = R[<<0, 1>>]
    BY DEF ReadNodes, R
  <2> QED BY <1>2, <1>7, <1>8, <2>1
<1>10. ~ (Len(File) > Len(File))
  BY <1>2
<1>11. Deserialize(File) = t
  BY <1>9, <1>10 DEF Deserialize
<1>12. ~ MayFault(File)
  BY <1>9 DEF MayFault
<1> QED BY <1>11, <1>12 DEF File

(* A file that was not cut in a value is not read beyond its end: where    *)
(* the nodes that were written whole end, too little is left for a node.   *)
LEMMA CutReads ==
  ASSUME NEW t \in Seq(TreeNode), WholeTree(t), NEW k \in 0..Len(Serialize(t)),
         ~ CutInAValue(SubSeq(Serialize(t), 1, k), t)
  PROVE  ~ MayFault(SubSeq(Serialize(t), 1, k))
<1> DEFINE n == Len(t)
           F == Serialize(t)
           G == SubSeq(F, 1, k)
           R == Readings(G)
           Clean(r) == ~ r.failed \/ NotEnoughData(G, r.consumed)
<1>1. PICK off, todo : Layout(t, off, todo)
  BY FileLayout
<1>2. /\ n \in Nat \ {0} /\ F \in Seq(Nat)
      /\ off[0] = 0 /\ off[n] = Len(F) /\ todo[0] = 1 /\ todo[n] = 0
      /\ \A i \in 0..n : off[i] \in Nat /\ todo[i] \in Nat /\ off[i] = Offsets(t)[i]
      /\ \A i \in 1..n :
           /\ NodeAt(F, off[i-1]) = t[i] /\ Len(t[i].val) \in Nat
           /\ off[i] = off[i-1] + 4 + Len(t[i].val) /\ off[i] <= Len(F)
           /\ todo[i-1] # 0 /\ todo[i] = (todo[i-1] - 1) + t[i].subnode_count
  BY <1>1 DEF Layout
<1>3. \A i \in 1..n : ~ (Offsets(t)[i-1] + FIELDS <= Len(G) /\ Len(G) < Offsets(t)[i])
  <2>1. DOMAIN t = 1..n
    OBVIOUS
  <2> HIDE DEF n, G
  <2> QED BY <2>1, Zenon DEF CutInAValue, G, F
<1>4. k \in 0..Len(F) /\ k \in Nat
  OBVIOUS
<1> HIDE DEF F
<1>5. G \in Seq(Nat) /\ Len(G) = k /\ Mapped(G) \in Nat /\ k <= Mapped(G)
  <2>1. G \in Seq(Nat) /\ Len(G) = k
    BY <1>2, <1>4
  <2> HIDE DEF G
  <2> QED BY <2>1, MappedFact
<1>6. /\ R \in [Positions -> Reading]
      /\ \A at \in Positions : R[at] = IF AtEnd(G, at) THEN Ended(at)
                                       ELSE WithNode(NodeAt(G, at[1]), R[After(G, at)])
  <2> HIDE DEF G
  <2> QED BY <1>5, ReadingsStep
<1> HIDE DEF n, G, R
<1>7. ASSUME NEW at \in Positions, at[2] = 0 \/ NotEnoughData(G, at[1]) PROVE Clean(R[at])
  <2>1. R[at] = Ended(at)
    BY <1>6, <1>7 DEF AtEnd
  <2>2. Ended(at).consumed = at[1]
    BY DEF Ended
  <2>3. Ended(at).failed = (at[2] # 0)
    BY Zenon DEF Ended
  <2> QED BY <1>7, <2>1, <2>2, <2>3
<1>8. ASSUME NEW i \in 1..n, off[i] <= k => Clean(R[<<off[i], todo[i]>>]), off[i-1] <= k
      PROVE  Clean(R[<<off[i-1], todo[i-1]>>])
  <2>1. i-1 \in 0..n /\ i \in 0..n
    BY <1>2
  <2>2. PICK u \in Nat, v \in Nat : u = off[i-1] /\ v = Len(t[i].val)
    BY <1>2, <2>1
  <2> DEFINE at == <<u, todo[i-1]>>
             to == <<off[i], todo[i]>>
  <2>3. /\ off[i] = u + 4 + v /\ off[i] \in Nat /\ todo[i] = (todo[i-1] - 1) + t[i].subnode_count
        /\ NodeAt(F, u) = t[i] /\ todo[i-1] \in Nat /\ todo[i-1] # 0 /\ todo[i] \in Nat
    BY <1>2, <2>1, <2>2
  <2>4. at \in Positions /\ at[1] = u /\ at[2] = todo[i-1] /\ to \in Positions
        /\ to[1] = off[i] /\ to[2] = todo[i]
    BY <2>3 DEF Positions
  <2> HIDE DEF at, to
  <2>5. CASE NotEnoughData(G, u)
    <3>1. Clean(R[at])
      BY <1>7, <2>4, <2>5
    <3> QED BY <2>2, <3>1 DEF at
  <2>6. CASE ~ NotEnoughData(G, u)
    <3>1. u + 4 <= k
      BY <1>4, <1>5, <1>8, <2>2, <2>6 DEF NotEnoughData, FIELDS
    <3>2. u + 4 + v <= k
      <4>1. ~ (u + 4 <= k /\ k < off[i])
        BY <1>2, <1>3, <1>5, <2>1, <2>2 DEF FIELDS
      <4> QED BY <1>4, <2>3, <3>1, <4>1
    <3>3. v = Cell(F, u + 4)
      <4>1. F \in Seq(Nat)
        BY <1>2
      <4>2. Len(NodeAt(F, at[1]).val) = Cell(F, at[1] + 4)
        BY <2>4, <4>1, NodeTypes
      <4> QED BY <2>2, <2>3, <2>4, <4>2, Zenon
    <3>4. NodeAt(G, u) = t[i]
      BY <1>2, <1>4, <2>3, <3>2, <3>3, SameNode DEF G
    <3>5. After(G, at) = to
      BY <2>2, <2>3, <2>4, <3>4 DEF After, FIELDS, to
    <3>6. ~ RunsOff(G, at)
      BY <1>4, <1>5, <2>3, <2>4, <3>2, <3>5 DEF RunsOff
    <3>7. R[at] = WithNode(t[i], R[to]) /\ R[to] \in Reading
      BY <1>6, <2>3, <2>4, <2>6, <3>4, <3>5, <3>6 DEF AtEnd
    <3>8. R[at].failed = R[to].failed /\ R[at].consumed = R[to].consumed
      BY <3>7 DEF WithNode, Reading
    <3>9. Clean(R[to])
      BY <1>8, <2>3, <3>2 DEF to
    <3>10. Clean(R[at])
      BY <3>8, <3>9
    <3> QED BY <2>2, <3>10 DEF at
  <2> QED BY <2>5, <2>6
<1> DEFINE S == {d \in 0..n : off[n-d] <= k => Clean(R[<<off[n-d], todo[n-d]>>])}
<1>9. Clean(R[<<off[n], todo[n]>>])
  <2>1. <<off[n], todo[n]>> \in Positions /\ <<off[n], todo[n]>>[2] = 0
    BY <1>2 DEF Positions
  <2> HIDE DEF Clean
  <2> QED BY <1>7, <2>1
<1> HIDE DEF Clean
<1>10. 0..n \subseteq S
  <2>1. 0 \in S
    <3>1. n - 0 = n /\ 0 \in 0..n
      BY <1>2
    <3> QED BY <1>9, <3>1
  <2>2. ASSUME NEW d \in 1..n, d-1 \in S PROVE d \in S
    <3>1. n-(d-1) \in 1..n /\ (n-(d-1))-1 = n-d /\ d \in 0..n
      BY <1>2
    <3> DEFINE i == n-(d-1)
    <3>2. off[i] <= k => Clean(R[<<off[i], todo[i]>>])
      BY <2>2
    <3> HIDE DEF i
    <3>3. off[i-1] <= k => Clean(R[<<off[i-1], todo[i-1]>>])
      BY <1>8, <3>1, <3>2 DEF i
    <3> QED BY <3>1, <3>3 DEF i
  <2> HIDE DEF S
  <2> QED BY <1>2, <2>1, <2>2, NatClosed
<1>11. Clean(R[<<0, 1>>])
  <2>1. n - n = 0 /\ n \in 0..n
    BY <1>2
  <2>2. off[0] <= k => Clean(R[<<off[0], todo[0]>>])
    BY <1>10, <2>1
  <2> QED BY <1>2, <1>4, <2>2
<1>12. ReadNodes(G) = R[<<0, 1>>]
  BY DEF ReadNodes, R
<1> QED BY <1>11, <1>12 DEF MayFault, Clean, G, F

(* A reader of this file can fault only because it was cut in a value.     *)
FaultsInAValue(file, t) == MayFault(file) => CutInAValue(file, t)

LEMMA TreeFacts ==
  ASSUME NEW t \in DOMAIN Mutants
  PROVE  /\ t \in Seq(TreeNode) /\ WholeTree(t) /\ t # <<>>
         /\ Deserialize(Serialize(t)) = t /\ FaultsInAValue(Serialize(t), t)
         /\ Trims[t] \cup Mutants[t] \subseteq DOMAIN Mutants
<1>1. t \in Seq(TreeNode) /\ WholeTree(t) /\ Trims[t] \cup Mutants[t] \subseteq DOMAIN Mutants
  BY TreesAssumption
<1>2. Len(t) # 0
  <2> DEFINE counts == [i \in DOMAIN t |-> t[i].subnode_count]
  <2>1. counts \in Seq(Nat)
    <3>1. \A i \in 1..Len(t) : t[i] \in TreeNode
      BY <1>1
    <3>2. \A node \in TreeNode : node.subnode_count \in Nat
      BY DEF TreeNode
    <3>3. counts \in [1..Len(t) -> Nat] /\ Len(t) \in Nat
      BY <1>1, <3>1, <3>2
    <3> HIDE DEF counts
    <3> QED BY <3>3
  <2>2. SumSeq(counts) \in Nat
    <3> HIDE DEF counts
    <3> QED BY <2>1, SumSeqNat
  <2>3. Len(t) = SumSeq(counts) + 1
    BY <1>1 DEF WholeTree
  <2> HIDE DEF counts
  <2> QED BY <2>2, <2>3
<1>3. t # <<>>
  BY <1>2
<1> QED BY <1>1, <1>3, FilesAreReadBack DEF FaultsInAValue

-----------------------------------------------------------------------------
(* The inductive invariant.                                                *)
TreeOrNull == DOMAIN Mutants \cup {<<>>}

SavedTree(e) == Deserialize(tree_file[e])

(* afl-fuzz is in the custom mutator stage of cur.                         *)
InStage == pc \in {"fuzz", "target"} \/ (pc = "find" /\ back = "fuzz")

InTrim == pc = "trim" /\ ~trim_was_effective

Typing ==
  /\ queue_file \in [Entries -> DOMAIN Parse \cup {NoText}]
  /\ DOMAIN tree_file = Entries /\ DOMAIN written = Entries
  /\ \A e \in Entries : written[e] \in TreeOrNull
  /\ TypeOK

(* The tree in mutated_tree is what was just run, whatever queue_new_entry *)
(* does before; the working tree and its file stay those of cur.           *)
Places ==
  /\ pc # "idle" => cur \in Existing
  /\ pc = "find" => new \in Existing /\ back \in {"fuzz", "havoc"}
  /\ InStage /\ pc # "fuzz" => mutated_tree # <<>>
  /\ InStage /\ pc = "find" => queue_file[new] = OutBuf
  /\ InStage \/ pc \in {"trim", "write"} => tree_fn_cur = cur /\ tree_cur # <<>>

Working ==
  /\ (InStage \/ InTrim) /\ cur \notin excused => IsTreeOf(tree_cur, queue_file[cur])
  /\ pc = "write" => tree_cur \in chunks
  /\ pc = "write" /\ cur \notin excused => SavedTree(cur) \in {<<>>, tree_cur}

(* A new entry never meets a tree file that is already there.              *)
NothingYet == \A e \in Entries \ Existing : SavedTree(e) = <<>>

Files == PartialFilesNotAccepted /\ TreeFilesMatch /\ NothingYet

SessionInv == Typing /\ Places /\ Working /\ Files /\ EveryEntryCanBeSpliced

-----------------------------------------------------------------------------
(* Writing a tree file.                                                    *)
LEMMA ShortFile ==
  ASSUME NEW t \in DOMAIN Mutants, NEW k \in 0..(Len(Serialize(t)) - 1)
  PROVE  /\ Deserialize(SubSeq(Serialize(t), 1, k)) \in {<<>>, t}
         /\ FaultsInAValue(SubSeq(Serialize(t), 1, k), t)
<1>1. t \in Seq(TreeNode) /\ WholeTree(t) /\ Deserialize(Serialize(t)) = t
  BY TreeFacts
<1>2. Serialize(t) \in Seq(Nat)
  BY <1>1, Serialized
<1>3. k \in 0..Len(Serialize(t))
  BY <1>2
<1>4. FaultsInAValue(SubSeq(Serialize(t), 1, k), t)
  BY <1>1, <1>3, CutReads DEF FaultsInAValue
<1> QED BY <1>1, <1>2, <1>3, <1>4, CutFile

LEMMA NoFile ==
  Deserialize(Serialize(<<>>)) = <<>> /\ ~ MayFault(Serialize(<<>>))
<1> DEFINE cells == [i \in DOMAIN <<>> |->
      <<<<>>[i].id, <<>>[i].rule_id, <<>>[i].subnode_count, Len(<<>>[i].val)>> \o <<>>[i].val]
<1>1. cells = <<>>
  OBVIOUS
<1>2. Serialize(<<>>) = <<>>
  <2>1. Serialize(<<>>) = FlattenSeq(cells)
    BY DEF Serialize
  <2> HIDE DEF cells
  <2>2. FlattenSeq(<<>>) = <<>>
    BY DEF FlattenSeq
  <2> QED BY <1>1, <2>1, <2>2
<1>3. <<>> \in Seq(Nat) /\ Len(<<>>) = 0
  OBVIOUS
<1> DEFINE at == <<0, 1>>
<1>4. at \in Positions /\ at[1] = 0 /\ at[2] = 1
  BY DEF Positions
<1>5. AtEnd(<<>>, at)
  BY <1>4 DEF AtEnd, NotEnoughData, FIELDS
<1>6. ReadNodes(<<>>) = Ended(at)
  <2>1. ReadNodes(<<>>) = Readings(<<>>)[at]
    BY DEF ReadNodes
  <2> HIDE DEF at
  <2> QED BY <1>3, <1>4, <1>5, <2>1, ReadingsStep
<1>7. ReadNodes(<<>>).failed
  <2> HIDE DEF at
  <2>1. Ended(at).failed = (at[2] # 0)
    BY Zenon DEF Ended
  <2>2. at[2] # 0
    BY <1>4
  <2> QED BY <1>6, <2>1, <2>2, Zenon
<1>8. NotEnoughData(<<>>, ReadNodes(<<>>).consumed)
  <2>1. NotEnoughData(<<>>, 0)
    BY <1>3 DEF NotEnoughData, FIELDS
  <2>2. Ended(at).consumed = 0
    BY <1>4 DEF Ended
  <2> QED BY <1>6, <2>1, <2>2
<1> QED BY <1>2, <1>7, <1>8 DEF Deserialize, MayFault

(* The file of entry e was written, or not, with tree t.                   *)
FileWritten(e, t) ==
  /\ DOMAIN tree_file' = Entries /\ DOMAIN written' = Entries
  /\ \A x \in Entries : x # e => tree_file'[x] = tree_file[x] /\ written'[x] = written[x]
  /\ \/ /\ written'[e] = t /\ Deserialize(tree_file'[e]) \in {<<>>, t}
        /\ FaultsInAValue(tree_file'[e], t)
     \/ written'[e] = written[e] /\ tree_file'[e] = tree_file[e]
  /\ faults' \in 0..MaxFaults

LEMMA WholeFacts ==
  ASSUME Typing, NEW e \in Entries, NEW t \in DOMAIN Mutants, WriteWhole(e, t)
  PROVE  FileWritten(e, t) /\ Deserialize(tree_file'[e]) = t
<1>1. Deserialize(Serialize(t)) = t /\ FaultsInAValue(Serialize(t), t)
  BY TreeFacts
<1>2. faults \in 0..MaxFaults /\ DOMAIN tree_file = Entries /\ DOMAIN written = Entries
  BY DEF Typing, TypeOK
<1>3. /\ tree_file' = [tree_file EXCEPT ![e] = Serialize(t)]
      /\ written' = [written EXCEPT ![e] = t] /\ faults' = faults
  BY DEF WriteWhole
<1>4. tree_file'[e] = Serialize(t) /\ written'[e] = t
  BY <1>2, <1>3
<1>5. /\ DOMAIN tree_file' = Entries /\ DOMAIN written' = Entries
      /\ \A x \in Entries : x # e => tree_file'[x] = tree_file[x] /\ written'[x] = written[x]
  BY <1>2, <1>3
<1> QED BY <1>1, <1>2, <1>3, <1>4, <1>5 DEF FileWritten

LEMMA FaultFacts ==
  ASSUME Typing, Fault
  PROVE  faults' \in 0..MaxFaults
BY TextsAssumption DEF Typing, TypeOK, Fault

LEMMA ShortFacts ==
  ASSUME Typing, NEW e \in Entries, NEW t \in DOMAIN Mutants, WriteShort(e, t)
  PROVE  FileWritten(e, t) /\ Deserialize(tree_file'[e]) \in {<<>>, t}
<1>1. PICK k \in 0..(Len(Serialize(t)) - 1) :
        tree_file' = [tree_file EXCEPT ![e] = SubSeq(Serialize(t), 1, k)]
  BY DEF WriteShort
<1>2. /\ Deserialize(SubSeq(Serialize(t), 1, k)) \in {<<>>, t}
      /\ FaultsInAValue(SubSeq(Serialize(t), 1, k), t)
  BY ShortFile
<1>3. DOMAIN tree_file = Entries /\ DOMAIN written = Entries
  BY DEF Typing
<1>4. written' = [written EXCEPT ![e] = t] /\ faults' \in 0..MaxFaults
  BY FaultFacts DEF WriteShort
<1>5. tree_file'[e] = SubSeq(Serialize(t), 1, k) /\ written'[e] = t
  BY <1>1, <1>3, <1>4
<1>6. /\ DOMAIN tree_file' = Entries /\ DOMAIN written' = Entries
      /\ \A x \in Entries : x # e => tree_file'[x] = tree_file[x] /\ written'[x] = written[x]
  BY <1>1, <1>3, <1>4
<1> QED BY <1>2, <1>4, <1>5, <1>6 DEF FileWritten

LEMMA WriteFacts ==
  ASSUME Typing, NEW e \in Entries, NEW t \in DOMAIN Mutants, WriteTree(e, t)
  PROVE  FileWritten(e, t)
<1>1. CASE WriteWhole(e, t)
  BY <1>1, WholeFacts
<1>2. CASE WriteShort(e, t)
  BY <1>2, ShortFacts
<1>3. CASE OpenFails
  BY <1>3, FaultFacts DEF OpenFails, FileWritten, Typing
<1> QED BY <1>1, <1>2, <1>3 DEF WriteTree

LEMMA NoWriteFacts ==
  ASSUME Typing, NEW e, NEW t, UNCHANGED <<tree_file, written>>, faults' \in 0..MaxFaults
  PROVE  FileWritten(e, t)
BY DEF FileWritten, Typing

-----------------------------------------------------------------------------
(* What a step makes of the files and of the chunk store, when at most the *)
(* tree file of entry e was written.                                       *)
Excuses(e) == excused' \subseteq Existing /\ \A x \in Existing : x # e => (x \in excused' <=> x \in excused)

LEMMA FilesKept ==
  ASSUME SessionInv, NEW e \in Existing, NEW t \in TreeOrNull, FileWritten(e, t),
         queue_file' = queue_file, Excuses(e), pc # "write",
         e \notin excused' /\ Settled(e)' /\ Deserialize(tree_file'[e]) # <<>>
           => IsTreeOf(Deserialize(tree_file'[e]), queue_file[e])
  PROVE  Files' /\ \A x \in Entries : written'[x] \in TreeOrNull
<1>1. Existing' = Existing /\ e \in Entries
  BY DEF Existing
<1>2. \A x \in Entries : /\ written[x] \in TreeOrNull /\ SavedTree(x) \in {<<>>, written[x]}
                         /\ FaultsInAValue(tree_file[x], written[x])
  BY DEF SessionInv, Typing, Files, PartialFilesNotAccepted, SavedTree, FaultsInAValue
<1>3. /\ \A x \in Entries : x # e => tree_file'[x] = tree_file[x] /\ written'[x] = written[x]
      /\ \/ /\ written'[e] = t /\ Deserialize(tree_file'[e]) \in {<<>>, t}
            /\ FaultsInAValue(tree_file'[e], t)
         \/ written'[e] = written[e] /\ tree_file'[e] = tree_file[e]
  BY DEF FileWritten
<1>4. ASSUME NEW x \in Entries
      PROVE  /\ Deserialize(tree_file'[x]) \in {<<>>, written'[x]}
             /\ FaultsInAValue(tree_file'[x], written'[x]) /\ written'[x] \in TreeOrNull
  <2>1. CASE x # e
    BY <1>2, <1>3, <2>1 DEF SavedTree
  <2>2. CASE x = e
    BY <1>2, <1>3, <2>2 DEF SavedTree
  <2> QED BY <2>1, <2>2
<1>5. PartialFilesNotAccepted'
  BY <1>4 DEF PartialFilesNotAccepted, FaultsInAValue
<1>6. NothingYet'
  <2> SUFFICES ASSUME NEW x \in Entries \ Existing PROVE Deserialize(tree_file'[x]) = <<>>
    BY <1>1 DEF NothingYet, SavedTree
  <2>1. x # e
    OBVIOUS
  <2> QED BY <1>3, <2>1 DEF SessionInv, Files, NothingYet, SavedTree
<1>7. TreeFilesMatch'
  <2> SUFFICES ASSUME NEW x \in Existing, x \notin excused', Settled(x)',
                      Deserialize(tree_file'[x]) # <<>>
               PROVE  IsTreeOf(Deserialize(tree_file'[x]), queue_file[x])
    BY <1>1 DEF TreeFilesMatch, IsTreeOf
  <2>1. CASE x = e
    BY <2>1
  <2>2. CASE x # e
    <3>1. x \in Existing \ excused /\ Settled(x) /\ x \in Entries
      BY <2>2 DEF Excuses, Settled, Existing
    <3>2. tree_file'[x] = tree_file[x]
      BY <1>3, <2>2, <3>1
    <3> QED BY <3>1, <3>2 DEF SessionInv, Files, TreeFilesMatch
  <2> QED BY <2>1, <2>2
<1> QED BY <1>4, <1>5, <1>6, <1>7 DEF Files

LEMMA ChunksKept ==
  ASSUME SessionInv, NEW e, queue' \subseteq queue \cup {e}, e \in Existing,
         queue_file' = queue_file, Excuses(e), pc # "write", chunks \subseteq chunks',
         e \notin excused' /\ Settled(e)' /\ Parse[queue_file[e]] # <<>>
           => \E t \in chunks' : IsTreeOf(t, queue_file[e])
  PROVE  EveryEntryCanBeSpliced'
<1> SUFFICES ASSUME NEW x \in queue', x \notin excused', Settled(x)', Parse[queue_file[x]] # <<>>
             PROVE  \E t \in chunks' : IsTreeOf(t, queue_file[x])
  BY DEF EveryEntryCanBeSpliced, IsTreeOf
<1>1. CASE x = e
  BY <1>1
<1>2. CASE x # e
  <2>1. x \in queue \ excused /\ Settled(x)
    BY <1>2 DEF Excuses, Settled, SessionInv, Typing, TypeOK
  <2>2. \E t \in chunks : IsTreeOf(t, queue_file[x])
    BY <2>1 DEF SessionInv, EveryEntryCanBeSpliced
  <2> QED BY <2>2
<1> QED BY <1>1, <1>2

-----------------------------------------------------------------------------
(* afl_custom_queue_get.                                                   *)
Got(e) ==
  /\ tree_cur' \in TreeOrNull
  /\ chunks \subseteq chunks' /\ chunks' \subseteq TreeOrNull
  /\ \E t \in TreeOrNull : FileWritten(e, t)
  /\ Excuses(e)
  /\ e \notin excused' /\ Deserialize(tree_file'[e]) # <<>>
       => IsTreeOf(Deserialize(tree_file'[e]), queue_file[e])
  /\ e \notin excused' /\ tree_cur' # <<>> => IsTreeOf(tree_cur', queue_file[e])
  /\ e \notin excused' /\ Parse[queue_file[e]] # <<>>
       => \E t \in chunks' : IsTreeOf(t, queue_file[e])

LEMMA TextParsed ==
  ASSUME Typing, NEW e \in Existing
  PROVE  /\ e \in Entries /\ queue_file[e] \in DOMAIN Parse
         /\ Parse[queue_file[e]] \in TreeOrNull
BY ParseAssumption DEF Typing, Existing, TreeOrNull

LEMMA LoadedFacts ==
  ASSUME SessionInv, NEW e \in Existing, pc # "write", NEW named \in BOOLEAN
  PROVE  /\ Loaded(e, named) \in TreeOrNull
         /\ (~named \/ SavedTree(e) = <<>>) => Loaded(e, named) = Parse[queue_file[e]]
         /\ e \notin excused /\ Loaded(e, named) # <<>>
              => IsTreeOf(Loaded(e, named), queue_file[e])
<1>1. e \in Entries /\ Parse[queue_file[e]] \in TreeOrNull
  BY TextParsed DEF SessionInv
<1>2. SavedTree(e) \in TreeOrNull
  BY <1>1 DEF SessionInv, Typing, Files, PartialFilesNotAccepted, SavedTree, TreeOrNull
<1>3. e \notin excused /\ SavedTree(e) # <<>> => IsTreeOf(SavedTree(e), queue_file[e])
  BY DEF SessionInv, Files, TreeFilesMatch, Settled, SavedTree
<1>4. CASE named /\ SavedTree(e) # <<>>
  <2>1. Loaded(e, named) = SavedTree(e)
    BY <1>4 DEF Loaded, SavedTree
  <2> QED BY <1>2, <1>3, <1>4, <2>1
<1>5. CASE ~ (named /\ SavedTree(e) # <<>>)
  <2>1. Loaded(e, named) = Parse[queue_file[e]]
    BY <1>5 DEF Loaded, SavedTree
  <2> QED BY <1>1, <1>5, <2>1 DEF IsTreeOf
<1> QED BY <1>4, <1>5

LEMMA QueueGetFacts ==
  ASSUME SessionInv, NEW e \in Existing, pc # "write", NEW named \in BOOLEAN, QueueGet(e, named)
  PROVE  Got(e)
<1>1. /\ Typing /\ e \in Entries /\ chunks \subseteq TreeOrNull /\ excused \subseteq Existing
      /\ faults \in 0..MaxFaults
  BY DEF SessionInv, Typing, TypeOK, Existing, TreeOrNull
<1>2. CASE LoadFails(e)
  <2>1. /\ tree_cur' = <<>> /\ excused' = excused \cup {e} /\ chunks' = chunks
        /\ UNCHANGED <<tree_file, written>> /\ faults' \in 0..MaxFaults
    BY <1>1, <1>2, FaultFacts DEF LoadFails
  <2>2. FileWritten(e, <<>>) /\ <<>> \in TreeOrNull
    BY <1>1, <2>1, NoWriteFacts DEF TreeOrNull
  <2>3. Excuses(e)
    BY <1>1, <2>1 DEF Excuses
  <2> QED BY <1>1, <2>1, <2>2, <2>3 DEF Got
<1>3. CASE LoadTree(e, named)
  <2> DEFINE t == Loaded(e, named)
             text == queue_file[e]
             parsed == named /\ SavedTree(e) = <<>> /\ t # <<>>
  <2>1. /\ t \in TreeOrNull
        /\ (~named \/ SavedTree(e) = <<>>) => t = Parse[text]
        /\ e \notin excused /\ t # <<>> => IsTreeOf(t, text)
    BY LoadedFacts
  <2>2. /\ tree_cur' = t
        /\ chunks' = IF t = <<>> THEN chunks ELSE chunks \cup {t}
        /\ IF parsed THEN WriteTree(e, t) /\ excused' = excused \ {e}
                     ELSE NoWrite /\ UNCHANGED excused
    BY <1>3 DEF LoadTree, SavedTree
  <2> HIDE DEF t
  <2>3. Excuses(e)
    BY <1>1, <2>2 DEF Excuses
  <2>4. chunks \subseteq chunks' /\ chunks' \subseteq TreeOrNull
    BY <1>1, <2>1, <2>2
  <2>5. CASE parsed
    <3>1. t \in DOMAIN Mutants /\ t = Parse[text] /\ t \in chunks' /\ IsTreeOf(t, text)
      BY <2>1, <2>2, <2>5 DEF TreeOrNull, IsTreeOf
    <3>2. FileWritten(e, t)
      BY <1>1, <2>2, <2>5, <3>1, WriteFacts
    <3>3. Deserialize(tree_file'[e]) \in {<<>>, t}
      BY <2>5, <3>2 DEF FileWritten, SavedTree
    <3> QED BY <2>1, <2>2, <2>3, <2>4, <3>1, <3>2, <3>3 DEF Got
  <2>6. CASE ~ parsed
    <3>1. UNCHANGED <<tree_file, written, excused>> /\ faults' \in 0..MaxFaults
      BY <1>1, <2>2, <2>6 DEF NoWrite
    <3>2. FileWritten(e, t)
      BY <1>1, <3>1, NoWriteFacts
    <3>3. e \notin excused' /\ Deserialize(tree_file'[e]) # <<>>
            => IsTreeOf(Deserialize(tree_file'[e]), text)
      BY <3>1 DEF SessionInv, Files, TreeFilesMatch, Settled
    <3>4. ASSUME e \notin excused', Parse[text] # <<>> PROVE \E u \in chunks' : IsTreeOf(u, text)
      <4>1. t # <<>>
        <5>1. CASE ~named \/ SavedTree(e) = <<>>
          BY <2>1, <3>4, <5>1
        <5>2. CASE named /\ SavedTree(e) # <<>>
          BY <5>2 DEF t, Loaded, SavedTree
        <5> QED BY <5>1, <5>2
      <4> QED BY <2>1, <2>2, <3>1, <3>4, <4>1
    <3> QED BY <2>1, <2>2, <2>3, <2>4, <3>1, <3>2, <3>3, <3>4 DEF Got
  <2> QED BY <2>5, <2>6
<1> QED BY <1>2, <1>3 DEF QueueGet

Phases == {"idle", "trim", "write", "fuzz", "target", "find", "havoc"}

(* Where afl-fuzz is.                                                      *)
PlaceTyping ==
  /\ pc \in Phases /\ {cur, new} \subseteq Existing \cup {NoEntry}
  /\ back \in {"idle", "fuzz", "havoc"} /\ started \in BOOLEAN
  /\ trim_was_effective \in BOOLEAN /\ tree_fn_cur \in Entries \cup {NoEntry}

LEMMA AfterGet ==
  ASSUME SessionInv, NEW e \in Existing, pc # "write", Got(e), queue_file' = queue_file,
         queue \subseteq queue', queue' \subseteq queue \cup {e}, mutated_tree' \in TreeOrNull,
         PlaceTyping'
  PROVE  Typing' /\ Files' /\ EveryEntryCanBeSpliced'
<1>1. PICK t \in TreeOrNull : FileWritten(e, t)
  BY DEF Got
<1>2. Files' /\ \A x \in Entries : written'[x] \in TreeOrNull
  BY <1>1, FilesKept DEF Got
<1>3. EveryEntryCanBeSpliced'
  BY ChunksKept DEF Got
<1>4. Existing' = Existing
  BY DEF Existing
<1>5. /\ Existing \subseteq Entries /\ queue' \subseteq Existing /\ excused' \subseteq Existing
      /\ {tree_cur', mutated_tree'} \cup chunks' \subseteq TreeOrNull
      /\ faults' \in 0..MaxFaults
  BY <1>1 DEF SessionInv, Typing, TypeOK, Got, Excuses, FileWritten
<1>6. TypeOK'
  BY <1>4, <1>5 DEF TypeOK, PlaceTyping, Phases, TreeOrNull
<1>7. DOMAIN tree_file' = Entries /\ DOMAIN written' = Entries
  BY <1>1 DEF FileWritten
<1>8. queue_file' \in [Entries -> DOMAIN Parse \cup {NoText}]
  BY DEF SessionInv, Typing
<1> QED BY <1>2, <1>3, <1>6, <1>7, <1>8 DEF Typing

LEMMA PlaceTypingHolds ==
  ASSUME SessionInv
  PROVE  PlaceTyping
BY DEF SessionInv, Typing, TypeOK, PlaceTyping, Phases

-----------------------------------------------------------------------------
(* Each step of a session keeps the invariant.                             *)
LEMMA AddEntryKeeps ==
  ASSUME SessionInv, NEW e \in Entries, AddEntry(e)
  PROVE  SessionInv'
<1>1. /\ pc = "idle" /\ e \in Existing \ queue /\ queue' = queue \cup {e}
      /\ QueueGet(e, started) /\ mutated_tree' = mutated_tree
      /\ UNCHANGED <<queue_file, trim_was_effective, started, pc, cur, new, back>>
  BY DEF AddEntry, QueueNewEntry, LoadsNewEntry
<1>2. Existing' = Existing /\ PlaceTyping
  BY <1>1, PlaceTypingHolds DEF Existing
<1>3. Got(e)
  BY <1>1, <1>2, QueueGetFacts DEF PlaceTyping
<1>4. tree_fn_cur' \in Entries \cup {NoEntry}
  BY <1>1 DEF QueueGet
<1>5. PlaceTyping'
  BY <1>1, <1>2, <1>4 DEF PlaceTyping
<1>6. mutated_tree' \in TreeOrNull
  BY <1>1 DEF SessionInv, Typing, TypeOK, TreeOrNull
<1>7. Typing' /\ Files' /\ EveryEntryCanBeSpliced'
  BY <1>1, <1>3, <1>5, <1>6, AfterGet
<1>8. Places' /\ Working'
  BY <1>1 DEF Places, Working, InStage, InTrim
<1> QED BY <1>7, <1>8 DEF SessionInv

LEMMA FuzzOneKeeps ==
  ASSUME SessionInv, NEW e \in Entries, FuzzOne(e)
  PROVE  SessionInv'
<1>1. /\ pc = "idle" /\ e \in queue /\ QueueGet(e, TRUE) /\ cur' = e
      /\ trim_was_effective' = FALSE
      /\ pc' = IF tree_cur' = <<>> THEN "idle" ELSE "trim"
      /\ UNCHANGED <<queue_file, mutated_tree, queue, started, new, back>>
  BY DEF FuzzOne
<1>2. Existing' = Existing /\ PlaceTyping /\ e \in Existing
  BY <1>1, PlaceTypingHolds DEF Existing, SessionInv, Typing, TypeOK
<1>3. Got(e)
  BY <1>1, <1>2, QueueGetFacts
<1>4. tree_fn_cur' = e
  BY <1>1 DEF QueueGet
<1>5. PlaceTyping'
  BY <1>1, <1>2, <1>4 DEF PlaceTyping, Phases
<1>6. mutated_tree' \in TreeOrNull
  BY <1>1 DEF SessionInv, Typing, TypeOK, TreeOrNull
<1>7. Typing' /\ Files' /\ EveryEntryCanBeSpliced'
  BY <1>1, <1>2, <1>3, <1>5, <1>6, AfterGet
<1>8. Places'
  BY <1>1, <1>2, <1>4 DEF Places, InStage
<1>9. Working'
  BY <1>1, <1>3 DEF Working, InStage, InTrim, Got, IsTreeOf
<1> QED BY <1>7, <1>8, <1>9 DEF SessionInv

(* A step that writes no file.                                             *)
LEMMA NothingWritten ==
  ASSUME SessionInv, UNCHANGED <<queue_file, tree_file, written>>, excused \subseteq excused',
         \A x \in Existing \ excused' : Settled(x)' => Settled(x)
  PROVE  /\ Existing' = Existing /\ Files'
         /\ chunks \subseteq chunks' /\ queue' \subseteq queue => EveryEntryCanBeSpliced'
<1>1. Existing' = Existing
  BY DEF Existing
<1>2. PartialFilesNotAccepted' /\ NothingYet'
  BY <1>1 DEF SessionInv, Files, PartialFilesNotAccepted, NothingYet, SavedTree
<1>3. TreeFilesMatch'
  <2> SUFFICES ASSUME NEW x \in Existing \ excused', Settled(x)', Deserialize(tree_file[x]) # <<>>
               PROVE  IsTreeOf(Deserialize(tree_file[x]), queue_file[x])
    BY <1>1 DEF TreeFilesMatch, IsTreeOf
  <2>1. x \in Existing \ excused /\ Settled(x)
    OBVIOUS
  <2> QED BY <2>1 DEF SessionInv, Files, TreeFilesMatch
<1>4. ASSUME chunks \subseteq chunks', queue' \subseteq queue PROVE EveryEntryCanBeSpliced'
  <2> SUFFICES ASSUME NEW x \in queue' \ excused', Settled(x)', Parse[queue_file[x]] # <<>>
               PROVE  \E t \in chunks' : IsTreeOf(t, queue_file[x])
    BY DEF EveryEntryCanBeSpliced, IsTreeOf
  <2>1. x \in queue \ excused /\ Settled(x)
    BY <1>4 DEF SessionInv, Typing, TypeOK
  <2>2. \E t \in chunks : IsTreeOf(t, queue_file[x])
    BY <2>1 DEF SessionInv, EveryEntryCanBeSpliced
  <2> QED BY <1>4, <2>2
<1> QED BY <1>1, <1>2, <1>3, <1>4 DEF Files

(* The types after a step that writes no file.                             *)
LEMMA TypesKept ==
  ASSUME SessionInv, UNCHANGED <<queue_file, tree_file, written>>, PlaceTyping',
         queue' \subseteq Existing, excused' \subseteq Existing, faults' \in 0..MaxFaults,
         {tree_cur', mutated_tree'} \cup chunks' \subseteq TreeOrNull
  PROVE  Typing'
<1>1. Existing' = Existing
  BY DEF Existing
<1>2. TypeOK'
  BY <1>1 DEF SessionInv, Typing, TypeOK, PlaceTyping, Phases, TreeOrNull
<1> QED BY <1>2 DEF SessionInv, Typing

LEMMA SessionTypes ==
  ASSUME SessionInv
  PROVE  /\ PlaceTyping /\ queue \subseteq Existing /\ excused \subseteq Existing
         /\ faults \in 0..MaxFaults /\ Existing \subseteq Entries
         /\ {tree_cur, mutated_tree} \cup chunks \subseteq TreeOrNull
BY PlaceTypingHolds DEF SessionInv, Typing, TypeOK, TreeOrNull

LEMMA StartKeeps ==
  ASSUME SessionInv, Start
  PROVE  SessionInv'
<1>1. /\ UNCHANGED <<diskVars, dataVars, queue, pc, cur, new, back, faults, excused>>
      /\ started' = TRUE
  BY DEF Start
<1>2. UNCHANGED <<queue_file, tree_file, written>>
  BY <1>1 DEF diskVars
<1>3. UNCHANGED <<tree_cur, tree_fn_cur, mutated_tree, trim_was_effective, chunks>>
  BY <1>1 DEF dataVars
<1>4. \A x : Settled(x)' <=> Settled(x)
  BY <1>1 DEF Settled
<1>5. Existing' = Existing /\ Files' /\ EveryEntryCanBeSpliced'
  BY <1>1, <1>2, <1>3, <1>4, NothingWritten
<1>6. PlaceTyping'
  BY <1>1, <1>3, <1>5, SessionTypes DEF PlaceTyping
<1>7. Typing'
  BY <1>1, <1>2, <1>3, <1>6, SessionTypes, TypesKept
<1>8. Places' /\ Working'
  BY <1>1, <1>2, <1>3, <1>5 DEF SessionInv, Places, Working, InStage, InTrim, OutBuf, IsTreeOf, SavedTree
<1> QED BY <1>5, <1>7, <1>8 DEF SessionInv

LEMMA PostTrimKeeps ==
  ASSUME SessionInv, PostTrim
  PROVE  SessionInv'
<1>1. /\ pc = "trim" /\ tree_cur' \in Trims[tree_cur] /\ trim_was_effective' = TRUE
      /\ UNCHANGED <<diskVars, tree_fn_cur, mutated_tree, chunks, aflVars, faults, excused>>
  BY DEF PostTrim
<1>2. UNCHANGED <<queue_file, tree_file, written>>
  BY <1>1 DEF diskVars
<1>3. UNCHANGED <<queue, started, pc, cur, new, back>>
  BY <1>1 DEF aflVars
<1>4. \A x : Settled(x)' <=> Settled(x)
  BY <1>3 DEF Settled
<1>5. Existing' = Existing /\ Files' /\ EveryEntryCanBeSpliced'
  BY <1>1, <1>2, <1>3, <1>4, NothingWritten
<1>6. PlaceTyping'
  BY <1>1, <1>3, <1>5, SessionTypes DEF PlaceTyping
<1>7. tree_cur' \in DOMAIN Mutants /\ tree_cur' # <<>>
  <2>1. tree_cur \in DOMAIN Mutants
    BY <1>1, SessionTypes DEF SessionInv, Places, TreeOrNull
  <2> QED BY <1>1, <2>1, TreeFacts
<1>8. Typing'
  BY <1>1, <1>2, <1>3, <1>6, <1>7, SessionTypes, TypesKept DEF TreeOrNull
<1>9. Places'
  BY <1>1, <1>2, <1>3, <1>5, <1>7 DEF SessionInv, Places, InStage
<1>10. Working'
  BY <1>1, <1>3 DEF Working, InStage, InTrim
<1> QED BY <1>5, <1>8, <1>9, <1>10 DEF SessionInv

LEMMA FuzzKeeps ==
  ASSUME SessionInv, Fuzz
  PROVE  SessionInv'
<1>1. /\ pc = "fuzz" /\ mutated_tree' \in Mutants[tree_cur]
      /\ pc' \in {"fuzz", "target"}
      /\ UNCHANGED <<diskVars, tree_cur, tree_fn_cur, trim_was_effective, chunks, queue,
                     started, cur, new, back, faults, excused>>
  BY DEF Fuzz
<1>2. UNCHANGED <<queue_file, tree_file, written>>
  BY <1>1 DEF diskVars
<1>3. \A x : Settled(x)' <=> Settled(x)
  BY <1>1 DEF Settled
<1>4. Existing' = Existing /\ Files' /\ EveryEntryCanBeSpliced'
  BY <1>1, <1>2, <1>3, NothingWritten
<1>5. PlaceTyping'
  BY <1>1, <1>4, SessionTypes DEF PlaceTyping, Phases
<1>6. mutated_tree' \in DOMAIN Mutants /\ mutated_tree' # <<>>
  <2>1. tree_cur \in DOMAIN Mutants
    BY <1>1, SessionTypes DEF SessionInv, Places, InStage, TreeOrNull
  <2> QED BY <1>1, <2>1, TreeFacts
<1>7. Typing'
  BY <1>1, <1>2, <1>5, <1>6, SessionTypes, TypesKept DEF TreeOrNull
<1>8. Places'
  BY <1>1, <1>4, <1>6 DEF SessionInv, Places, InStage
<1>9. Working'
  BY <1>1, <1>2 DEF SessionInv, Working, InStage, InTrim, IsTreeOf
<1> QED BY <1>4, <1>7, <1>8, <1>9 DEF SessionInv

LEMMA MoveOnKeeps ==
  ASSUME SessionInv, MoveOn
  PROVE  SessionInv'
<1>1. /\ \/ pc = "target" /\ pc' = "fuzz"
         \/ pc \in {"fuzz", "havoc"} /\ pc' \in {"idle", "havoc"}
      /\ UNCHANGED <<diskVars, dataVars, queue, started, cur, new, back, faults, excused>>
  BY DEF MoveOn
<1>2. UNCHANGED <<queue_file, tree_file, written>>
  BY <1>1 DEF diskVars
<1>3. UNCHANGED <<tree_cur, tree_fn_cur, mutated_tree, trim_was_effective, chunks>>
  BY <1>1 DEF dataVars
<1>4. \A x : Settled(x)' <=> Settled(x)
  BY <1>1 DEF Settled
<1>5. Existing' = Existing /\ Files' /\ EveryEntryCanBeSpliced'
  BY <1>1, <1>2, <1>3, <1>4, NothingWritten
<1>6. PlaceTyping'
  BY <1>1, <1>3, <1>5, SessionTypes DEF PlaceTyping, Phases
<1>7. Typing'
  BY <1>1, <1>2, <1>3, <1>6, SessionTypes, TypesKept
<1>8. Places'
  BY <1>1, <1>3, <1>5 DEF SessionInv, Places, InStage
<1>9. Working'
  BY <1>1, <1>2, <1>3 DEF SessionInv, Working, InStage, InTrim, IsTreeOf
<1> QED BY <1>5, <1>7, <1>8, <1>9 DEF SessionInv

LEMMA RunAgainKeeps ==
  ASSUME SessionInv, RunAgain, faults' \in 0..MaxFaults,
         excused' = IF pc = "write" THEN excused \cup {cur} ELSE excused
  PROVE  SessionInv'
<1>1. /\ tree_cur' = <<>> /\ tree_fn_cur' = NoEntry /\ mutated_tree' = <<>>
      /\ trim_was_effective' = FALSE /\ chunks' = {} /\ queue' = {}
      /\ pc' = "idle" /\ cur' = NoEntry /\ new' = NoEntry /\ back' = "idle"
      /\ excused' = IF pc = "write" THEN excused \cup {cur} ELSE excused
      /\ UNCHANGED <<diskVars, started>> /\ faults' \in 0..MaxFaults
  BY DEF RunAgain
<1>2. UNCHANGED <<queue_file, tree_file, written>>
  BY <1>1 DEF diskVars
<1>3. excused \subseteq excused' /\ \A x \in Existing \ excused' : Settled(x)' => Settled(x)
  BY <1>1 DEF Settled
<1>4. Existing' = Existing /\ Files'
  BY <1>2, <1>3, NothingWritten
<1>5. EveryEntryCanBeSpliced'
  BY <1>1 DEF EveryEntryCanBeSpliced
<1>6. PlaceTyping'
  BY <1>1, SessionTypes DEF PlaceTyping, Phases
<1>7. excused' \subseteq Existing
  BY <1>1, SessionTypes DEF SessionInv, Places
<1>8. Typing'
  BY <1>1, <1>2, <1>6, <1>7, TypesKept DEF TreeOrNull
<1>9. Places' /\ Working'
  BY <1>1 DEF Places, Working, InStage, InTrim
<1> QED BY <1>4, <1>5, <1>8, <1>9 DEF SessionInv

LEMMA RestartKeeps ==
  ASSUME SessionInv, Restart
  PROVE  SessionInv'
BY FaultFacts, RunAgainKeeps DEF Restart, SessionInv

LEMMA ReadFaultKeeps ==
  ASSUME SessionInv, NEW e \in Entries, ReadFault(e)
  PROVE  SessionInv'
<1>1. faults \in 0..MaxFaults
  BY DEF SessionInv, Typing, TypeOK
<1> QED BY <1>1, RunAgainKeeps DEF ReadFault

(* A new test case, for which afl_custom_queue_new_entry is yet to come.   *)
LEMMA NewTestCase ==
  ASSUME SessionInv, NEW e \in Entries \ Existing, NEW text \in DOMAIN Parse,
         queue_file' = [queue_file EXCEPT ![e] = text],
         UNCHANGED <<tree_file, written, excused, chunks, queue, faults, tree_cur, mutated_tree>>,
         pc # "write", pc' # "write", PlaceTyping'
  PROVE  /\ Existing' = Existing \cup {e} /\ queue_file'[e] = text
         /\ \A x \in Entries : x # e => queue_file'[x] = queue_file[x]
         /\ Typing' /\ Files' /\ EveryEntryCanBeSpliced'
<1>1. /\ queue_file \in [Entries -> DOMAIN Parse \cup {NoText}] /\ text # NoText
      /\ queue_file' \in [Entries -> DOMAIN Parse \cup {NoText}]
      /\ queue_file'[e] = text
      /\ \A x \in Entries : x # e => queue_file'[x] = queue_file[x]
  BY TextsAssumption DEF SessionInv, Typing
<1>2. Existing' = Existing \cup {e}
  BY <1>1 DEF Existing
<1>3. TypeOK'
  BY <1>2, SessionTypes DEF TypeOK, PlaceTyping, Phases, TreeOrNull
<1>4. Typing'
  BY <1>1, <1>3 DEF SessionInv, Typing
<1>5. PartialFilesNotAccepted' /\ NothingYet'
  BY <1>2 DEF SessionInv, Files, PartialFilesNotAccepted, NothingYet, SavedTree
<1>6. \A x : Settled(x)
  BY DEF Settled
<1>7. TreeFilesMatch'
  <2> SUFFICES ASSUME NEW x \in Existing', x \notin excused, Deserialize(tree_file[x]) # <<>>
               PROVE  IsTreeOf(Deserialize(tree_file[x]), queue_file'[x])
    BY DEF TreeFilesMatch, IsTreeOf
  <2>1. x # e
    BY DEF SessionInv, Files, NothingYet, SavedTree
  <2>2. x \in Existing /\ queue_file'[x] = queue_file[x]
    BY <1>1, <1>2, <2>1 DEF Existing
  <2> QED BY <1>6, <2>2 DEF SessionInv, Files, TreeFilesMatch
<1>8. EveryEntryCanBeSpliced'
  <2> SUFFICES ASSUME NEW x \in queue, x \notin excused, Parse[queue_file'[x]] # <<>>
               PROVE  \E t \in chunks : IsTreeOf(t, queue_file'[x])
    BY DEF EveryEntryCanBeSpliced, IsTreeOf
  <2>1. x \in Existing /\ x # e /\ x \in Entries
    BY SessionTypes
  <2>2. queue_file'[x] = queue_file[x]
    BY <1>1, <2>1
  <2> QED BY <1>6, <2>2 DEF SessionInv, EveryEntryCanBeSpliced
<1> QED BY <1>1, <1>2, <1>4, <1>5, <1>7, <1>8 DEF Files

LEMMA ImportKeeps ==
  ASSUME SessionInv, NEW e \in Entries, NEW text \in ImportTexts, Import(e, text)
  PROVE  SessionInv'
<1>1. /\ pc = "idle" /\ e \in Entries \ Existing /\ text \in DOMAIN Parse
      /\ queue_file' = [queue_file EXCEPT ![e] = text]
      /\ UNCHANGED <<tree_file, written, dataVars, aflVars, faults, excused>>
  BY TextsAssumption DEF Import
<1>2. UNCHANGED <<tree_cur, tree_fn_cur, mutated_tree, trim_was_effective, chunks>>
  BY <1>1 DEF dataVars
<1>3. UNCHANGED <<queue, started, pc, cur, new, back>>
  BY <1>1 DEF aflVars
<1>4. PlaceTyping'
  <2>1. Existing \subseteq Existing'
    BY <1>1, TextsAssumption DEF SessionInv, Typing, Existing
  <2> QED BY <1>2, <1>3, <2>1, SessionTypes DEF PlaceTyping
<1>5. Typing' /\ Files' /\ EveryEntryCanBeSpliced'
  BY <1>1, <1>2, <1>3, <1>4, NewTestCase
<1>6. Places' /\ Working'
  BY <1>1, <1>3 DEF Places, Working, InStage, InTrim
<1> QED BY <1>5, <1>6 DEF SessionInv

LEMMA KeepKeeps ==
  ASSUME SessionInv, NEW e \in Entries, NEW text \in DOMAIN Parse, NEW stage, Keep(e, text, stage),
         \/ pc = "target" /\ stage = "fuzz" /\ text = OutBuf
         \/ pc = "havoc" /\ stage = "havoc"
  PROVE  SessionInv'
<1>1. /\ e \in Entries \ Existing /\ queue_file' = [queue_file EXCEPT ![e] = text]
      /\ new' = e /\ back' = stage /\ pc' = "find"
      /\ UNCHANGED <<tree_file, written, dataVars, queue, started, cur, faults, excused>>
  BY DEF Keep
<1>2. UNCHANGED <<tree_cur, tree_fn_cur, mutated_tree, trim_was_effective, chunks>>
  BY <1>1 DEF dataVars
<1>3. PlaceTyping'
  <2>1. Existing \subseteq Existing' /\ e \in Existing'
    BY <1>1, TextsAssumption DEF SessionInv, Typing, Existing
  <2> QED BY <1>1, <1>2, <2>1, SessionTypes DEF PlaceTyping, Phases
<1>4. /\ Existing' = Existing \cup {e} /\ queue_file'[e] = text
      /\ \A x \in Entries : x # e => queue_file'[x] = queue_file[x]
      /\ Typing' /\ Files' /\ EveryEntryCanBeSpliced'
  BY <1>1, <1>2, <1>3, NewTestCase
<1>5. cur \in Existing /\ cur # e /\ queue_file'[cur] = queue_file[cur]
  BY <1>1, <1>4, SessionTypes DEF SessionInv, Places
<1>6. Places'
  BY <1>1, <1>2, <1>4, <1>5 DEF SessionInv, Places, InStage, OutBuf
<1>7. Working'
  BY <1>1, <1>2, <1>5 DEF SessionInv, Working, InStage, InTrim, IsTreeOf
<1> QED BY <1>4, <1>6, <1>7 DEF SessionInv

LEMMA FindKeeps ==
  ASSUME SessionInv, NEW e \in Entries, FuzzFind(e) \/ HavocFind(e)
  PROVE  SessionInv'
<1>1. CASE FuzzFind(e)
  <2>1. pc = "target" /\ Keep(e, OutBuf, "fuzz")
    BY <1>1 DEF FuzzFind
  <2>2. OutBuf \in DOMAIN Parse
    <3>1. mutated_tree \in DOMAIN Mutants
      BY <2>1, SessionTypes DEF SessionInv, Places, InStage, TreeOrNull
    <3> QED BY <3>1, TextsAssumption DEF OutBuf
  <2> QED BY <2>1, <2>2, KeepKeeps
<1>2. CASE HavocFind(e)
  <2>1. PICK text \in HavocTexts : pc = "havoc" /\ Keep(e, text, "havoc")
    BY <1>2 DEF HavocFind
  <2>2. text \in DOMAIN Parse
    BY TextsAssumption
  <2> QED BY <2>1, <2>2, KeepKeeps
<1> QED BY <1>1, <1>2

(* afl_custom_post_trim at the end of the last stage.                      *)
LEMMA EndTrimKeeps ==
  ASSUME SessionInv, EndTrim
  PROVE  SessionInv'
<1>1. /\ pc = "trim" /\ UNCHANGED <<queue_file, tree_cur, tree_fn_cur, mutated_tree,
                                   trim_was_effective, queue, started, cur, new, back>>
  BY DEF EndTrim
<1>2. cur \in Existing /\ tree_fn_cur = cur /\ tree_cur \in DOMAIN Mutants /\ tree_cur # <<>>
  BY <1>1, SessionTypes DEF SessionInv, Places, TreeOrNull
<1>3. CASE ~trim_was_effective
  <2>1. NoWrite /\ UNCHANGED <<chunks, excused>> /\ pc' = "fuzz"
    BY <1>3 DEF EndTrim
  <2>2. UNCHANGED <<queue_file, tree_file, written>> /\ faults' = faults
    BY <1>1, <2>1 DEF NoWrite
  <2>3. \A x : Settled(x)
    BY <1>1 DEF Settled
  <2>4. Existing' = Existing /\ Files' /\ EveryEntryCanBeSpliced'
    BY <1>1, <2>1, <2>2, <2>3, NothingWritten
  <2>5. PlaceTyping'
    BY <1>1, <2>1, <2>4, SessionTypes DEF PlaceTyping, Phases
  <2>6. Typing'
    BY <1>1, <2>1, <2>2, <2>5, SessionTypes, TypesKept
  <2>7. Places'
    BY <1>1, <1>2, <2>1, <2>4 DEF Places, InStage
  <2>8. Working'
    BY <1>1, <1>3, <2>1 DEF SessionInv, Working, InStage, InTrim, IsTreeOf
  <2> QED BY <2>4, <2>6, <2>7, <2>8 DEF SessionInv
<1>4. CASE trim_was_effective
  <2>1. /\ chunks' = chunks \cup {tree_cur} /\ pc' = "write"
        /\ \/ /\ WriteWhole(cur, tree_cur) \/ WriteShort(cur, tree_cur)
              /\ excused' = excused \ {cur}
           \/ OpenFails /\ excused' = excused \cup {cur}
    BY <1>2, <1>4 DEF EndTrim
  <2>2. WriteTree(cur, tree_cur)
    BY <2>1 DEF WriteTree
  <2>3. cur \in Entries /\ Typing
    BY <1>2, SessionTypes DEF SessionInv
  <2>4. FileWritten(cur, tree_cur)
    BY <1>2, <2>2, <2>3, WriteFacts
  <2>5. Excuses(cur)
    BY <1>2, <2>1, SessionTypes DEF Excuses
  <2>6. ~ Settled(cur)'
    BY <1>1, <2>1 DEF Settled
  <2>7. tree_cur \in TreeOrNull
    BY <1>2 DEF TreeOrNull
  <2>8. Files' /\ \A x \in Entries : written'[x] \in TreeOrNull
    BY <1>1, <1>2, <2>4, <2>5, <2>6, <2>7, FilesKept
  <2>9. EveryEntryCanBeSpliced'
    <3>1. queue' \subseteq queue \cup {cur} /\ queue_file' = queue_file /\ chunks \subseteq chunks'
      BY <1>1, <2>1
    <3> QED BY <1>1, <1>2, <2>5, <2>6, <3>1, ChunksKept
  <2>10. Existing' = Existing
    BY <1>1 DEF Existing
  <2>11. TypeOK'
    <3>1. faults' \in 0..MaxFaults /\ excused' \subseteq Existing
      BY <2>4, <2>5 DEF FileWritten, Excuses
    <3>2. {tree_cur, mutated_tree} \cup chunks' \subseteq TreeOrNull
      BY <2>1, <2>7, SessionTypes
    <3> QED BY <1>1, <2>1, <2>10, <3>1, <3>2, SessionTypes DEF TypeOK, PlaceTyping, Phases, TreeOrNull
  <2>12. Typing'
    BY <1>1, <2>4, <2>8, <2>11 DEF SessionInv, Typing, FileWritten
  <2>13. Places'
    BY <1>1, <1>2, <2>1, <2>10 DEF Places, InStage
  <2>14. Working'
    <3>1. tree_cur \in chunks'
      BY <2>1
    <3>2. cur \notin excused' => Deserialize(tree_file'[cur]) \in {<<>>, tree_cur}
      BY <1>2, <2>1, <2>3, WholeFacts, ShortFacts
    <3> QED BY <1>1, <2>1, <3>1, <3>2 DEF Working, InStage, InTrim, SavedTree
  <2> QED BY <2>8, <2>9, <2>12, <2>13, <2>14 DEF SessionInv
<1> QED BY <1>3, <1>4

(* afl-fuzz writes the trimmed test case.                                  *)
LEMMA WriteTestCaseKeeps ==
  ASSUME SessionInv, WriteTestCase
  PROVE  SessionInv'
<1>1. /\ pc = "write" /\ queue_file' = [queue_file EXCEPT ![cur] = TextOf(tree_cur)]
      /\ pc' = "fuzz"
      /\ UNCHANGED <<tree_file, written, dataVars, queue, started, cur, new, back, faults, excused>>
  BY DEF WriteTestCase
<1>2. UNCHANGED <<tree_cur, tree_fn_cur, mutated_tree, trim_was_effective, chunks>>
  BY <1>1 DEF dataVars
<1>3. /\ cur \in Existing /\ cur \in Entries /\ tree_fn_cur = cur
      /\ tree_cur \in DOMAIN Mutants /\ tree_cur # <<>>
  BY <1>1, SessionTypes DEF SessionInv, Places, TreeOrNull
<1>4. TextOf(tree_cur) \in DOMAIN Parse /\ TextOf(tree_cur) # NoText
  BY <1>3, TextsAssumption
<1>5. /\ queue_file' \in [Entries -> DOMAIN Parse \cup {NoText}]
      /\ queue_file'[cur] = TextOf(tree_cur)
      /\ \A x \in Entries : x # cur => queue_file'[x] = queue_file[x]
  BY <1>1, <1>3, <1>4 DEF SessionInv, Typing
<1>6. Existing' = Existing
  BY <1>3, <1>4, <1>5 DEF Existing
<1>7. Typing'
  <2>1. TypeOK'
    BY <1>1, <1>2, <1>6, SessionTypes DEF TypeOK, PlaceTyping, Phases, TreeOrNull
  <2> QED BY <1>1, <1>5, <2>1 DEF SessionInv, Typing
<1>8. IsTreeOf(tree_cur, queue_file'[cur])
  BY <1>5 DEF IsTreeOf
<1>9. PartialFilesNotAccepted' /\ NothingYet'
  BY <1>1, <1>6 DEF SessionInv, Files, PartialFilesNotAccepted, NothingYet, SavedTree
<1>10. \A x : x # cur => Settled(x)
  BY DEF Settled
<1>11. TreeFilesMatch'
  <2> SUFFICES ASSUME NEW x \in Existing \ excused, Deserialize(tree_file[x]) # <<>>
               PROVE  IsTreeOf(Deserialize(tree_file[x]), queue_file'[x])
    BY <1>1, <1>6 DEF TreeFilesMatch, IsTreeOf
  <2>1. CASE x = cur
    <3>1. Deserialize(tree_file[x]) = tree_cur
      BY <1>1, <2>1 DEF SessionInv, Working, SavedTree
    <3> QED BY <1>8, <2>1, <3>1
  <2>2. CASE x # cur
    <3>1. queue_file'[x] = queue_file[x]
      BY <1>5, <2>2 DEF Existing
    <3> QED BY <1>10, <2>2, <3>1 DEF SessionInv, Files, TreeFilesMatch
  <2> QED BY <2>1, <2>2
<1>12. EveryEntryCanBeSpliced'
  <2> SUFFICES ASSUME NEW x \in queue \ excused, Parse[queue_file'[x]] # <<>>
               PROVE  \E t \in chunks : IsTreeOf(t, queue_file'[x])
    BY <1>1, <1>2 DEF EveryEntryCanBeSpliced, IsTreeOf
  <2>1. CASE x = cur
    BY <1>1, <1>8, <2>1 DEF SessionInv, Working
  <2>2. CASE x # cur
    <3>1. queue_file'[x] = queue_file[x]
      BY <1>5, <2>2, SessionTypes
    <3> QED BY <1>10, <2>2, <3>1 DEF SessionInv, EveryEntryCanBeSpliced
  <2> QED BY <2>1, <2>2
<1>13. Places'
  BY <1>1, <1>2, <1>3, <1>6 DEF Places, InStage
<1>14. Working'
  BY <1>1, <1>2, <1>8 DEF Working, InStage, InTrim, IsTreeOf
<1> QED BY <1>7, <1>9, <1>11, <1>12, <1>13, <1>14 DEF SessionInv, Files

(* afl_custom_queue_new_entry for a find.                                  *)
LEMMA NewEntryKeeps ==
  ASSUME SessionInv, NewEntry
  PROVE  SessionInv'
<1>1. /\ pc = "find" /\ QueueNewEntry(new, cur) /\ queue' = queue \cup {new} /\ pc' = back
      /\ UNCHANGED <<queue_file, trim_was_effective, started, cur, new, back>>
  BY DEF NewEntry
<1>2. /\ new \in Existing /\ cur \in Existing /\ back \in {"fuzz", "havoc"} /\ cur # NoEntry
      /\ new \in Entries /\ started \in BOOLEAN
  BY <1>1, SessionTypes, TextsAssumption DEF SessionInv, Places, PlaceTyping
<1>3. Existing' = Existing
  BY <1>1 DEF Existing
<1>4. CASE LoadsNewEntry(cur)
  <2>1. QueueGet(new, started) /\ mutated_tree' = mutated_tree /\ mutated_tree = <<>>
    BY <1>1, <1>2, <1>4 DEF QueueNewEntry, LoadsNewEntry
  <2>2. back = "havoc"
    BY <1>1, <1>2, <2>1 DEF SessionInv, Places, InStage
  <2>3. Got(new)
    BY <1>1, <1>2, <2>1, QueueGetFacts
  <2>4. PlaceTyping'
    BY <1>1, <1>2, <1>3, <2>1, <2>2, SessionTypes DEF PlaceTyping, Phases, QueueGet
  <2>5. mutated_tree' \in TreeOrNull
    BY <2>1 DEF TreeOrNull
  <2>6. Typing' /\ Files' /\ EveryEntryCanBeSpliced'
    BY <1>1, <1>2, <2>3, <2>4, <2>5, AfterGet
  <2>7. Places'
    BY <1>1, <1>2, <1>3, <2>2 DEF Places, InStage
  <2>8. Working'
    BY <1>1, <2>2 DEF Working, InStage, InTrim
  <2> QED BY <2>6, <2>7, <2>8 DEF SessionInv
<1>5. CASE ~ LoadsNewEntry(cur)
  <2> DEFINE t == mutated_tree
  <2>1. /\ WriteTree(new, t) /\ chunks' = chunks \cup {t} /\ mutated_tree' = <<>>
        /\ excused' = IF back = "havoc" \/ OutBuf # TextOf(t) THEN excused \cup {new} ELSE excused
        /\ UNCHANGED <<tree_cur, tree_fn_cur>>
    BY <1>1, <1>5 DEF QueueNewEntry
  <2>2. t \in DOMAIN Mutants /\ t \in TreeOrNull
    BY <1>5, SessionTypes DEF LoadsNewEntry, TreeOrNull
  <2>3. FileWritten(new, t)
    BY <1>2, <2>1, <2>2, WriteFacts DEF SessionInv
  <2>4. Excuses(new)
    BY <1>2, <2>1, SessionTypes DEF Excuses
  <2>5. new \notin excused' => IsTreeOf(t, queue_file[new])
    BY <1>1, <1>2, <2>1 DEF SessionInv, Places, InStage, IsTreeOf
  <2>6. new \notin excused' /\ Deserialize(tree_file'[new]) # <<>>
          => IsTreeOf(Deserialize(tree_file'[new]), queue_file[new])
    <3> SUFFICES ASSUME new \notin excused', Deserialize(tree_file'[new]) # <<>>
                 PROVE  IsTreeOf(Deserialize(tree_file'[new]), queue_file[new])
      OBVIOUS
    <3>1. CASE Deserialize(tree_file'[new]) \in {<<>>, t}
      BY <2>5, <3>1
    <3>2. CASE tree_file'[new] = tree_file[new]
      <4>1. new \in Existing \ excused /\ Settled(new)
        BY <1>1, <1>2, <2>1 DEF Settled
      <4> QED BY <3>2, <4>1 DEF SessionInv, Files, TreeFilesMatch
    <3> QED BY <2>3, <3>1, <3>2 DEF FileWritten
  <2>7. Files' /\ \A x \in Entries : written'[x] \in TreeOrNull
    BY <1>1, <1>2, <2>2, <2>3, <2>4, <2>6, FilesKept
  <2>8. EveryEntryCanBeSpliced'
    <3>1. new \notin excused' => \E u \in chunks' : IsTreeOf(u, queue_file[new])
      BY <2>1, <2>5
    <3>2. queue' \subseteq queue \cup {new} /\ chunks \subseteq chunks' /\ queue_file' = queue_file
      BY <1>1, <2>1
    <3> QED BY <1>1, <1>2, <2>4, <3>1, <3>2, ChunksKept
  <2>9. TypeOK'
    <3>1. faults' \in 0..MaxFaults /\ excused' \subseteq Existing
      BY <2>3, <2>4 DEF FileWritten, Excuses
    <3>2. {tree_cur', mutated_tree'} \cup chunks' \subseteq TreeOrNull
      BY <2>1, <2>2, SessionTypes DEF TreeOrNull
    <3>3. queue' \subseteq Existing
      BY <1>1, <1>2, SessionTypes
    <3> QED BY <1>1, <1>2, <1>3, <2>1, <3>1, <3>2, <3>3, SessionTypes
            DEF TypeOK, PlaceTyping, Phases, TreeOrNull
  <2>10. Typing'
    BY <1>1, <2>3, <2>7, <2>9 DEF SessionInv, Typing, FileWritten
  <2>11. Places'
    BY <1>1, <1>2, <1>3, <2>1 DEF SessionInv, Places, InStage
  <2>12. Working'
    <3>1. CASE back = "fuzz"
      <4>1. cur \notin excused' => IsTreeOf(tree_cur, queue_file[cur])
        BY <1>1, <2>1, <3>1 DEF SessionInv, Working, InStage
      <4> QED BY <1>1, <2>1, <3>1, <4>1 DEF Working, InStage, InTrim, IsTreeOf
    <3>2. CASE back = "havoc"
      BY <1>1, <3>2 DEF Working, InStage, InTrim
    <3> QED BY <1>2, <3>1, <3>2
  <2> QED BY <2>7, <2>8, <2>10, <2>11, <2>12 DEF SessionInv
<1> QED BY <1>4, <1>5

-----------------------------------------------------------------------------
LEMMA InitSession ==
  Init => SessionInv
<1> SUFFICES ASSUME Init PROVE SessionInv
  OBVIOUS
<1>1. /\ queue_file = [e \in Entries |-> IF e \in DOMAIN Seeds THEN Seeds[e].text ELSE NoText]
      /\ written = [e \in Entries |-> IF e \in DOMAIN Seeds THEN Seeds[e].tree ELSE <<>>]
      /\ tree_file = [e \in Entries |-> Serialize(written[e])]
      /\ tree_cur = <<>> /\ tree_fn_cur = NoEntry /\ mutated_tree = <<>>
      /\ trim_was_effective = FALSE /\ chunks = {} /\ queue = {} /\ started = FALSE
      /\ pc = "idle" /\ cur = NoEntry /\ new = NoEntry /\ back = "idle"
      /\ faults = 0 /\ excused = {}
  BY DEF Init
<1>2. /\ queue_file \in [Entries -> DOMAIN Parse \cup {NoText}]
      /\ \A e \in Entries : written[e] \in TreeOrNull
  BY <1>1, SeedsAssumption DEF TreeOrNull
<1>3. Typing
  <2>1. DOMAIN tree_file = Entries /\ DOMAIN written = Entries
    BY <1>1
  <2>2. Existing \subseteq Entries /\ faults \in 0..MaxFaults
    BY <1>1, TextsAssumption DEF Existing
  <2> QED BY <1>1, <1>2, <2>1, <2>2 DEF Typing, TypeOK, TreeOrNull
<1>4. \A e \in Entries : SavedTree(e) = written[e] /\ FaultsInAValue(tree_file[e], written[e])
  <2> TAKE e \in Entries
  <2>1. tree_file[e] = Serialize(written[e])
    BY <1>1
  <2>2. CASE written[e] = <<>>
    BY <2>1, <2>2, NoFile DEF SavedTree, FaultsInAValue
  <2>3. CASE written[e] \in DOMAIN Mutants
    BY <2>1, <2>3, TreeFacts DEF SavedTree
  <2> QED BY <1>2, <2>2, <2>3 DEF TreeOrNull
<1>5. PartialFilesNotAccepted
  BY <1>4 DEF PartialFilesNotAccepted, SavedTree, FaultsInAValue
<1>6. ASSUME NEW e \in Existing PROVE e \in DOMAIN Seeds /\ queue_file[e] = Seeds[e].text
  BY <1>1 DEF Existing
<1>7. TreeFilesMatch
  BY <1>1, <1>4, <1>6, SeedsAssumption DEF TreeFilesMatch, SavedTree, Existing
<1>8. NothingYet
  <2> SUFFICES ASSUME NEW e \in Entries \ Existing PROVE written[e] = <<>>
    BY <1>4 DEF NothingYet
  <2>1. e \notin DOMAIN Seeds
    BY <1>1, SeedsAssumption, TextsAssumption DEF Existing
  <2> QED BY <1>1, <2>1
<1>9. Places /\ Working /\ EveryEntryCanBeSpliced
  BY <1>1 DEF Places, Working, InStage, InTrim, EveryEntryCanBeSpliced
<1> QED BY <1>3, <1>5, <1>7, <1>8, <1>9 DEF SessionInv, Files

LEMMA StutterKeeps ==
  ASSUME SessionInv, UNCHANGED vars
  PROVE  SessionInv'
<1>1. /\ UNCHANGED <<queue_file, tree_file, written>>
      /\ UNCHANGED <<tree_cur, tree_fn_cur, mutated_tree, trim_was_effective, chunks>>
      /\ UNCHANGED <<queue, started, pc, cur, new, back, faults, excused>>
  BY DEF vars, diskVars, dataVars, aflVars
<1>2. \A x : Settled(x)' <=> Settled(x)
  BY <1>1 DEF Settled
<1>3. Existing' = Existing /\ Files' /\ EveryEntryCanBeSpliced'
  BY <1>1, <1>2, NothingWritten
<1>4. PlaceTyping'
  BY <1>1, <1>3, SessionTypes DEF PlaceTyping
<1>5. Typing'
  BY <1>1, <1>4, SessionTypes, TypesKept
<1>6. Places' /\ Working'
  BY <1>1, <1>3 DEF SessionInv, Places, Working, InStage, InTrim, OutBuf, IsTreeOf, SavedTree
<1> QED BY <1>3, <1>5, <1>6 DEF SessionInv

LEMMA NextSession ==
  SessionInv /\ [Next]_vars => SessionInv'
<1> SUFFICES ASSUME SessionInv, [Next]_vars PROVE SessionInv'
  OBVIOUS
<1>1. CASE UNCHANGED vars
  BY <1>1, StutterKeeps
<1>2. CASE \E e \in Entries : AddEntry(e) \/ FuzzOne(e) \/ FuzzFind(e) \/ HavocFind(e)
  BY <1>2, AddEntryKeeps, FuzzOneKeeps, FindKeeps
<1>3. CASE \E e \in Entries, text \in ImportTexts : Import(e, text)
  BY <1>3, ImportKeeps
<1>4. CASE Start \/ PostTrim \/ EndTrim \/ WriteTestCase
  BY <1>4, StartKeeps, PostTrimKeeps, EndTrimKeeps, WriteTestCaseKeeps
<1>5. CASE Fuzz \/ NewEntry \/ MoveOn \/ Restart
  BY <1>5, FuzzKeeps, NewEntryKeeps, MoveOnKeeps, RestartKeeps
<1>6. CASE \E e \in Entries : ReadFault(e)
  BY <1>6, ReadFaultKeeps
<1> QED BY <1>1, <1>2, <1>3, <1>4, <1>5, <1>6 DEF Next

LEMMA SpecKeepsSessionInv ==
  Spec => []SessionInv
BY InitSession, NextSession, PTL DEF Spec

(* All variables of a session always hold values of their types: the files *)
(* of the queue, the fields of the mutator's data and where afl-fuzz is.   *)
THEOREM SessionTypeOK == Spec => []TypeOK
<1>1. SessionInv => TypeOK
  BY DEF SessionInv, Typing
<1> QED BY <1>1, SpecKeepsSessionInv, PTL

(* Whatever short writes, failing opens and crashes leave in a tree file,  *)
(* tree_deserialize accepts nothing but the tree it was written for; and   *)
(* whatever the size of a page, it faults at no file but one that was cut  *)
(* in a node's value.                                                      *)
THEOREM NoPartialTreeIsAccepted == Spec => []PartialFilesNotAccepted
<1>1. SessionInv => PartialFilesNotAccepted
  BY DEF SessionInv, Files
<1> QED BY <1>1, SpecKeepsSessionInv, PTL

(* Over any number of sessions a tree file that can be read is of its      *)
(* entry's test case, the four known causes apart.                         *)
THEOREM TreeFilesStayMatched == Spec => []TreeFilesMatch
<1>1. SessionInv => TreeFilesMatch
  BY DEF SessionInv, Files
<1> QED BY <1>1, SpecKeepsSessionInv, PTL

(* From queue_get to the end of an entry's trimming and custom mutator     *)
(* stage, finds and the entries loaded for them in between, tree_fn_cur    *)
(* and tree_cur are the entry's.                                           *)
THEOREM WorkingTreeStaysTheEntrys == Spec => []WorkingTreeIsTheEntrys
<1>1. SessionInv => WorkingTreeIsTheEntrys
  BY DEF SessionInv, Places, Working, WorkingTreeIsTheEntrys, InStage
<1> QED BY <1>1, SpecKeepsSessionInv, PTL

(* Every entry of the queue that parses has a tree of its own in the chunk *)
(* store for the splices, whichever way it came into the queue.            *)
THEOREM QueueIsInTheChunkStore == Spec => []EveryEntryCanBeSpliced
<1>1. SessionInv => EveryEntryCanBeSpliced
  BY DEF SessionInv
<1> QED BY <1>1, SpecKeepsSessionInv, PTL
=============================================================================
