--------------------------- MODULE ChunkStoreProof ---------------------------
(***************************************************************************)
(* Theorems about the chunk store, for every set of trees, every heap and  *)
(* every hash.  While a clone is taken, each of its nodes that has not     *)
(* been taken yet is reached in exactly one way: from a node not taken     *)
(* either, or from a call in progress that has still to come to it.        *)
(***************************************************************************)
EXTENDS ChunkStore, TreesProof

Untaken == Live \ Kept

CallRec == [node : Addr \cup {NULL}, next : Nat]

(* Every list holds live nodes of its symbol, each once; what has been     *)
(* seen is in a list.                                                      *)
ListsHold ==
  /\ lists \in [Ids -> Seq(Addr)]
  /\ \A id \in Ids :
       /\ \A i, j \in DOMAIN lists[id] : lists[id][i] = lists[id][j] => i = j
       /\ \A i \in DOMAIN lists[id] : lists[id][i] \in Live /\ heap[lists[id][i]].id = id
  /\ \A h \in DOMAIN seen : seen[h] \in Kept

HeapHolds ==
  /\ Live \subseteq Addr
  /\ \A a \in Live : heap[a] \in NodeRec /\ heap[a].parent \in Live \cup {NULL}
  /\ \A a \in Kept : heap[a].parent \in Kept \cup {NULL}
  /\ \A a \in Live : \A i \in DOMAIN heap[a].subnodes :
       LET s == heap[a].subnodes[i] IN
       /\ s \in Live
       /\ a \in Untaken => s \in Untaken
       /\ s \in Untaken => /\ heap[s].parent = a
                           /\ \A j \in DOMAIN heap[a].subnodes :
                                heap[a].subnodes[j] = s => j = i

(* What call k is still to take.                                           *)
Ahead(k) == calls[k].next..Len(heap[calls[k].node].subnodes)

CallsHold ==
  /\ calls \in Seq(CallRec)
  /\ \A k \in DOMAIN calls :
       IF calls[k].node = NULL
       THEN Len(calls) = 1 /\ calls[k].next \in Untaken /\ heap[calls[k].next].parent = NULL
       ELSE /\ calls[k].node \in Kept
            /\ calls[k].next \in 1..(Len(heap[calls[k].node].subnodes) + 1)
            /\ \A i \in Ahead(k) : heap[calls[k].node].subnodes[i] \in Untaken
  /\ \A j, k \in DOMAIN calls : calls[j].node = calls[k].node => j = k

(* Node u is reached from an untaken node or a call still to come to it.   *)
UnderUntaken(u) ==
  /\ heap[u].parent \in Untaken
  /\ \E i \in DOMAIN heap[heap[u].parent].subnodes : heap[heap[u].parent].subnodes[i] = u
AheadOfCall(u) ==
  \E k \in DOMAIN calls :
    IF calls[k].node = NULL THEN calls[k].next = u
    ELSE \E i \in Ahead(k) : heap[calls[k].node].subnodes[i] = u

AllReached == \A u \in Untaken : UnderUntaken(u) \/ AheadOfCall(u)

(* The untaken nodes have depths, as in the tree they were cloned from.    *)
IsDepth(dep) ==
  /\ dep \in [Untaken -> 0..MaxNodes]
  /\ \A u \in Untaken : \A i \in DOMAIN heap[u].subnodes :
       dep[heap[u].subnodes[i]] = dep[u] + 1
Deep == \E dep \in [Untaken -> 0..MaxNodes] : IsDepth(dep)

OwnInv == ListsHold /\ HeapHolds /\ CallsHold /\ AllReached /\ Deep

-----------------------------------------------------------------------------
LEMMA Constants ==
  /\ Addr \subseteq Nat \ {0} /\ IsFiniteSet(Addr) /\ MaxNodes \in Nat
  /\ \A t \in Inputs : /\ IsTree(t) /\ Len(t) <= MaxNodes
                       /\ t \in Seq([id : Ids, val : Vals, depth : 0..MaxNodes])
BY AddrAssumption, SizeAssumption, InputsAssumption

(* The levels of the recursion that Below takes the last of.               *)
BelowLevels ==
  LET d[n \in 0..MaxNodes] ==
        [b \in Live |-> {b} \cup IF n = 0 THEN {}
                                 ELSE UNION {d[n-1][s] : s \in Range(heap[b].subnodes)}]
  IN  d

LEMMA BelowStep ==
  ASSUME HeapHolds
  PROVE  /\ \A a : Below(a) = BelowLevels[MaxNodes][a]
         /\ \A b \in Live : BelowLevels[0][b] = {b}
         /\ \A n \in 1..MaxNodes : \A b \in Live :
              BelowLevels[n][b] =
                {b} \cup UNION {BelowLevels[n-1][s] : s \in Range(heap[b].subnodes)}
<1> DEFINE Level(n, e) ==
             [b \in Live |-> {b} \cup IF n = 0 THEN {}
                                      ELSE UNION {e[s] : s \in Range(heap[b].subnodes)}]
           Body(d) == [n \in 0..MaxNodes |-> Level(n, d[n-1])]
           F == CHOOSE d : d = Body(d)
           V == [Live -> SUBSET Live]
<1>1. BelowLevels = F
  BY DEF BelowLevels
<1>2. \A n, e : e \in V => Level(n, e) \in V
  <2> SUFFICES ASSUME NEW n, NEW e \in V, NEW b \in Live
               PROVE  ({b} \cup IF n = 0 THEN {}
                                ELSE UNION {e[s] : s \in Range(heap[b].subnodes)}) \in SUBSET Live
    BY Zenon
  <2>1. \A s \in Range(heap[b].subnodes) : s \in Live
    BY DEF HeapHolds, Range
  <2>2. \A s \in Range(heap[b].subnodes) : e[s] \subseteq Live
    BY <2>1
  <2> QED BY <2>2
<1> DEFINE base == Level(0, [b \in Live |-> {}])
<1>3. base \in V
  <2>1. [b \in Live |-> {}] \in V
    OBVIOUS
  <2> HIDE DEF V, Level
  <2> QED BY <1>2, <2>1
<1>4. \A e : Level(0, e) = base
  OBVIOUS
<1> HIDE DEF Level, V, base
<1>5. \E d : d = Body(d)
  <2> DEFINE h == [p \in (1..MaxNodes) \X V |-> Level(p[1], p[2])]
  <2>1. IsStep(h, MaxNodes, V)
    BY <1>2 DEF IsStep
  <2>2. \A k \in 1..MaxNodes, v \in V : h[<<k, v>>] = Level(k, v)
    OBVIOUS
  <2> HIDE DEF h
  <2>3. PICK f \in [0..MaxNodes -> V] : Follows(f, h, MaxNodes, base)
    BY <1>3, <2>1, RecursionExists, Constants
  <2>4. \A n \in 0..MaxNodes : f[n] = Level(n, f[n-1])
    <3> TAKE n \in 0..MaxNodes
    <3>1. n # 0 => n \in 1..MaxNodes /\ n-1 \in 0..MaxNodes
      BY Constants
    <3>2. CASE n = 0
      BY <1>4, <2>3, <3>2 DEF Follows
    <3>3. CASE n # 0
      BY <2>2, <2>3, <3>1, <3>3 DEF Follows
    <3> QED BY <3>2, <3>3
  <2>5. f = Body(f)
    BY <2>3, <2>4
  <2> QED BY <2>5
<1>6. F = Body(F)
  <2> HIDE DEF Body
  <2> QED BY <1>5
<1> HIDE DEF F
<1>7. \A n \in 0..MaxNodes : F[n] = Level(n, F[n-1])
  BY <1>6
<1>8. 0 \in 0..MaxNodes /\ \A n \in 1..MaxNodes : n \in 0..MaxNodes /\ n # 0
  BY Constants
<1>9. \A a : Below(a) = BelowLevels[MaxNodes][a]
  BY DEF Below, BelowLevels
<1> USE DEF Level
<1>10. \A b \in Live : F[0][b] = {b}
  <2>1. F[0] = Level(0, F[0-1])
    BY <1>7, <1>8
  <2> QED BY <2>1
<1>11. \A n \in 1..MaxNodes : \A b \in Live :
         F[n][b] = {b} \cup UNION {F[n-1][s] : s \in Range(heap[b].subnodes)}
  <2> TAKE n \in 1..MaxNodes
  <2>1. F[n] = Level(n, F[n-1]) /\ n # 0
    BY <1>7, <1>8
  <2> QED BY <2>1
<1> QED BY <1>1, <1>9, <1>10, <1>11

(* What node_free frees of a clone: all of it belongs to the clone, and    *)
(* nothing in it points, or is pointed to, across its edge but its root.   *)
OwnSubtree(a, S) ==
  /\ a \in S /\ S \subseteq Untaken
  /\ \A x \in S : \A i \in DOMAIN heap[x].subnodes : heap[x].subnodes[i] \in S
  /\ \A x \in S : x = a \/ heap[x].parent \in S

LEMMA BelowOwned ==
  ASSUME HeapHolds, Deep, NEW a \in Untaken
  PROVE  OwnSubtree(a, Below(a))
<1>1. PICK dep \in [Untaken -> 0..MaxNodes] : IsDepth(dep)
  BY DEF Deep
<1> DEFINE d == BelowLevels
           G == {n \in 0..MaxNodes : \A u \in Untaken :
                   dep[u] + n >= MaxNodes => OwnSubtree(u, d[n][u])}
<1>2. \A u \in Untaken : u \in Live /\ dep[u] \in 0..MaxNodes
  BY DEF Untaken
<1>3. \A u \in Untaken : \A i \in DOMAIN heap[u].subnodes :
        /\ heap[u].subnodes[i] \in Untaken /\ heap[heap[u].subnodes[i]].parent = u
        /\ dep[heap[u].subnodes[i]] = dep[u] + 1
  BY <1>1, <1>2 DEF HeapHolds, IsDepth
<1>4. 0 \in G
  <2> SUFFICES ASSUME NEW u \in Untaken, dep[u] + 0 >= MaxNodes PROVE OwnSubtree(u, d[0][u])
    BY Constants
  <2>1. d[0][u] = {u}
    BY <1>2, BelowStep
  <2>2. ASSUME NEW i \in DOMAIN heap[u].subnodes PROVE FALSE
    <3>1. dep[heap[u].subnodes[i]] = dep[u] + 1 /\ dep[heap[u].subnodes[i]] \in 0..MaxNodes
      BY <1>2, <1>3
    <3> QED BY <1>2, <3>1, Constants
  <2> QED BY <2>1, <2>2 DEF OwnSubtree
<1>5. ASSUME NEW n \in 1..MaxNodes, n-1 \in G PROVE n \in G
  <2> SUFFICES ASSUME NEW u \in Untaken, dep[u] + n >= MaxNodes PROVE OwnSubtree(u, d[n][u])
    BY Constants
  <2> DEFINE sub == heap[u].subnodes
  <2>1. d[n][u] = {u} \cup UNION {d[n-1][s] : s \in Range(sub)}
    BY <1>2, BelowStep
  <2>2. \A i \in DOMAIN sub : OwnSubtree(sub[i], d[n-1][sub[i]]) /\ heap[sub[i]].parent = u
    <3> TAKE i \in DOMAIN sub
    <3>1. dep[sub[i]] + (n-1) >= MaxNodes
      BY <1>2, <1>3, Constants
    <3> QED BY <1>3, <1>5, <3>1
  <2> HIDE DEF d
  <2>3. \A x : x \in d[n][u] <=> x = u \/ \E i \in DOMAIN sub : x \in d[n-1][sub[i]]
    BY <2>1 DEF Range
  <2> HIDE DEF sub
  <2>4. u \in d[n][u] /\ d[n][u] \subseteq Untaken
    BY <2>2, <2>3 DEF OwnSubtree
  <2>5. ASSUME NEW x \in d[n][u], NEW j \in DOMAIN heap[x].subnodes
        PROVE  heap[x].subnodes[j] \in d[n][u]
    <3>1. CASE x = u
      BY <2>2, <2>3, <2>5, <3>1 DEF OwnSubtree, sub
    <3>2. CASE x # u
      <4>1. PICK i \in DOMAIN sub : x \in d[n-1][sub[i]]
        BY <2>3, <2>5, <3>2
      <4>2. heap[x].subnodes[j] \in d[n-1][sub[i]]
        BY <2>2, <2>5, <4>1 DEF OwnSubtree
      <4> QED BY <2>3, <4>2
    <3> QED BY <3>1, <3>2
  <2>6. ASSUME NEW x \in d[n][u], x # u PROVE heap[x].parent \in d[n][u]
    <3>1. PICK i \in DOMAIN sub : x \in d[n-1][sub[i]]
      BY <2>3, <2>6
    <3>2. x = sub[i] \/ heap[x].parent \in d[n-1][sub[i]]
      BY <2>2, <3>1 DEF OwnSubtree
    <3> QED BY <2>2, <2>3, <2>4, <3>2
  <2> QED BY <2>4, <2>5, <2>6 DEF OwnSubtree
<1>6. 0..MaxNodes \subseteq G
  <2> HIDE DEF G
  <2> QED BY <1>4, <1>5, NatClosed, Constants
<1>7. MaxNodes \in 0..MaxNodes /\ dep[a] + MaxNodes >= MaxNodes
  BY <1>2, Constants
<1>8. OwnSubtree(a, d[MaxNodes][a])
  BY <1>6, <1>7
<1> QED BY <1>8, BelowStep

-----------------------------------------------------------------------------
LEMMA KeptAre ==
  ASSUME ListsHold
  PROVE  /\ \A x : x \in Kept <=> \E id \in Ids : \E i \in DOMAIN lists[id] : lists[id][i] = x
         /\ Kept \subseteq Live /\ Range(seen) \subseteq Kept
<1>1. \A x : x \in Kept <=> \E id \in Ids : \E i \in DOMAIN lists[id] : lists[id][i] = x
  BY DEF Kept, Range
<1>2. Range(seen) \subseteq Kept
  BY DEF ListsHold, Range
<1> QED BY <1>1, <1>2 DEF ListsHold

(* The node taken next: it is untaken, and the innermost call is its       *)
(* parent's, or the root's.                                                *)
PendingFacts ==
  /\ Len(calls) \in Nat \ {0} /\ Head(calls) = calls[1] /\ 1 \in DOMAIN calls
  /\ DOMAIN calls = 1..Len(calls)
  /\ Pending \in Untaken /\ heap[Pending].parent = calls[1].node
  /\ calls[1].node = NULL => Len(calls) = 1 /\ Pending = calls[1].next
  /\ calls[1].node # NULL => /\ calls[1].node \in Kept
                             /\ calls[1].next \in Ahead(1)
                             /\ calls[1].next \in DOMAIN heap[calls[1].node].subnodes
                             /\ Pending = heap[calls[1].node].subnodes[calls[1].next]

LEMMA PendingIs ==
  ASSUME ListsHold, HeapHolds, CallsHold, MoreToTake
  PROVE  PendingFacts
<1>1. /\ calls \in Seq(CallRec) /\ calls # <<>> /\ Len(calls) \in Nat \ {0}
      /\ Head(calls) = calls[1] /\ DOMAIN calls = 1..Len(calls)
  BY EmptySeq, LenProperties DEF CallsHold, MoreToTake
<1>2. 1 \in DOMAIN calls
  BY <1>1
<1>3. CASE calls[1].node = NULL
  <2>1. Pending = calls[1].next
    BY <1>1, <1>3 DEF Pending
  <2> QED BY <1>1, <1>2, <1>3, <2>1 DEF CallsHold, PendingFacts
<1>4. CASE calls[1].node # NULL
  <2> DEFINE p == calls[1].node
             sub == heap[p].subnodes
             n == calls[1].next
  <2>1. p \in Kept /\ n \in 1..(Len(sub)+1) /\ n <= Len(sub)
        /\ \A i \in Ahead(1) : sub[i] \in Untaken
    BY <1>1, <1>2, <1>4 DEF CallsHold, MoreToTake
  <2>2. p \in Live
    BY <2>1, KeptAre
  <2>3. sub \in Seq(Addr)
    BY <2>2 DEF HeapHolds, NodeRec
  <2>4. DOMAIN sub = 1..Len(sub) /\ Len(sub) \in Nat
    BY <2>3, LenProperties
  <2>5. n \in DOMAIN sub /\ n \in Ahead(1)
    BY <2>1, <2>4 DEF Ahead
  <2>6. Pending = sub[n]
    BY <1>1, <1>4 DEF Pending
  <2>7. sub[n] \in Untaken
    BY <2>1, <2>5
  <2>8. heap[sub[n]].parent = p
    BY <2>2, <2>5, <2>7 DEF HeapHolds
  <2> QED BY <1>1, <1>2, <1>4, <2>1, <2>5, <2>6, <2>7, <2>8 DEF PendingFacts
<1> QED BY <1>3, <1>4

(* The stack once the node is taken.                                       *)
TakenFacts ==
  /\ Taken \in Seq(CallRec)
  /\ calls[1].node = NULL => Taken = <<>>
  /\ calls[1].node # NULL =>
       /\ Len(Taken) = Len(calls)
       /\ Taken[1].node = calls[1].node /\ Taken[1].next = calls[1].next + 1
       /\ \A k \in 2..Len(calls) : Taken[k] = calls[k]

LEMMA TakenIs ==
  ASSUME CallsHold, PendingFacts
  PROVE  TakenFacts
<1>1. /\ calls \in Seq(CallRec) /\ calls # <<>> /\ Len(calls) \in Nat \ {0}
      /\ Head(calls) = calls[1] /\ calls[1] \in CallRec
  BY EmptySeq, LenProperties, ElementOfSeq DEF CallsHold, PendingFacts
<1>2. /\ Tail(calls) \in Seq(CallRec) /\ Len(Tail(calls)) = Len(calls) - 1
      /\ \A i \in 1..(Len(calls)-1) : Tail(calls)[i] = calls[i+1]
  BY <1>1, HeadTailProperties
<1>3. CASE calls[1].node = NULL
  <2>1. Taken = Tail(calls)
    BY <1>1, <1>3 DEF Taken, MovedOn
  <2>2. Len(Tail(calls)) = 0
    BY <1>2, <1>3 DEF PendingFacts
  <2> QED BY <1>2, <1>3, <2>1, <2>2, EmptySeq DEF TakenFacts
<1>4. CASE calls[1].node # NULL
  <2> DEFINE d == [calls[1] EXCEPT !.next = @ + 1]
  <2>1. Taken = <<d>> \o Tail(calls)
    BY <1>1, <1>4 DEF Taken, MovedOn
  <2>2. d \in CallRec /\ d.node = calls[1].node /\ d.next = calls[1].next + 1
    BY <1>1 DEF CallRec
  <2> HIDE DEF d
  <2>3. <<d>> \in Seq(CallRec) /\ Len(<<d>>) = 1 /\ <<d>>[1] = d
    BY <2>2
  <2>4. /\ Taken \in Seq(CallRec) /\ Len(Taken) = 1 + (Len(calls) - 1)
        /\ \A i \in 1..(1 + (Len(calls)-1)) : Taken[i] = IF i <= 1 THEN <<d>>[i] ELSE Tail(calls)[i-1]
    BY <1>2, <2>1, <2>3, ConcatProperties
  <2>5. Taken[1] = d
    BY <1>1, <2>3, <2>4
  <2>6. ASSUME NEW k \in 2..Len(calls) PROVE Taken[k] = calls[k]
    <3>1. k-1 \in 1..(Len(calls)-1) /\ (k-1)+1 = k /\ ~(k <= 1) /\ k \in 1..(1 + (Len(calls)-1))
      BY <1>1
    <3> QED BY <1>2, <2>4, <3>1
  <2> QED BY <1>1, <1>4, <2>2, <2>4, <2>5, <2>6 DEF TakenFacts
<1> QED BY <1>3, <1>4

(* What the calls are still to take once the node is taken: all they were  *)
(* still to take, except the node.                                         *)
LEMMA TakenAhead ==
  ASSUME ListsHold, HeapHolds, CallsHold, PendingFacts, TakenFacts,
         calls[1].node # NULL, NEW k \in DOMAIN calls, NEW q, q = calls[k].node
  PROVE  /\ q \in Kept /\ q \in Live /\ q # NULL
         /\ heap[q].subnodes \in Seq(Addr) /\ Len(heap[q].subnodes) \in Nat
         /\ DOMAIN heap[q].subnodes = 1..Len(heap[q].subnodes)
         /\ DOMAIN Taken = DOMAIN calls /\ Taken[k].node = q
         /\ Taken[k].next \in 1..(Len(heap[q].subnodes) + 1)
         /\ Ahead(k) \subseteq DOMAIN heap[q].subnodes
         /\ \A i \in Ahead(k) : heap[q].subnodes[i] \in Untaken
         /\ \A i \in DOMAIN heap[q].subnodes :
              i \in Taken[k].next..Len(heap[q].subnodes)
                <=> i \in Ahead(k) /\ heap[q].subnodes[i] # Pending
<1> DEFINE n == Len(heap[q].subnodes)
           p == calls[1].node
<1>1. /\ DOMAIN calls = 1..Len(calls) /\ Len(calls) \in Nat
      /\ Pending \in Untaken /\ heap[Pending].parent = p
      /\ calls[1].next \in Ahead(1) /\ calls[1].next \in DOMAIN heap[p].subnodes
      /\ Pending = heap[p].subnodes[calls[1].next]
  BY DEF PendingFacts
<1>2. /\ Taken \in Seq(CallRec) /\ Len(Taken) = Len(calls)
      /\ Taken[1].node = p /\ Taken[1].next = calls[1].next + 1
      /\ \A j \in 2..Len(calls) : Taken[j] = calls[j]
  BY DEF TakenFacts
<1>3. DOMAIN Taken = DOMAIN calls
  BY <1>1, <1>2, LenProperties
<1>4. k # 1 => Taken[k] = calls[k]
  BY <1>1, <1>2
<1>5. Taken[k].node = q
  BY <1>2, <1>4
<1>6. q # NULL
  <2>1. CASE k # 1
    <3>1. Len(calls) # 1
      BY <1>1, <2>1
    <3> QED BY <3>1 DEF CallsHold
  <2> QED BY <2>1
<1>7. q \in Kept /\ calls[k].next \in 1..(n+1) /\ \A i \in Ahead(k) : heap[q].subnodes[i] \in Untaken
  BY <1>6 DEF CallsHold
<1>8. q \in Live
  BY <1>7, KeptAre
<1>9. heap[q].subnodes \in Seq(Addr)
  BY <1>8 DEF HeapHolds, NodeRec
<1>10. n \in Nat /\ DOMAIN heap[q].subnodes = 1..n
  BY <1>9, LenProperties
<1>11. Ahead(k) = calls[k].next..n
  BY DEF Ahead
<1>12. Ahead(k) \subseteq DOMAIN heap[q].subnodes
  BY <1>7, <1>10, <1>11
<1>13. Taken[k].next \in 1..(n+1)
  <2>1. CASE k = 1
    <3>1. Taken[k].next = calls[k].next + 1 /\ calls[k].next \in 1..n
      BY <1>1, <1>2, <1>10, <2>1
    <3> QED BY <1>10, <3>1
  <2> QED BY <1>4, <1>7, <2>1
<1>14. ASSUME NEW i \in DOMAIN heap[q].subnodes
       PROVE  i \in Taken[k].next..n <=> i \in Ahead(k) /\ heap[q].subnodes[i] # Pending
  <2>1. CASE k = 1
    <3>1. heap[q].subnodes[i] = Pending <=> i = calls[k].next
      BY <1>1, <1>8, <1>14, <2>1 DEF HeapHolds
    <3>2. Taken[k].next = calls[k].next + 1 /\ calls[k].next \in Nat /\ i \in 1..n
      BY <1>2, <1>7, <1>10, <1>14, <2>1
    <3> HIDE DEF n
    <3> QED BY <1>10, <1>11, <3>1, <3>2
  <2>2. CASE k # 1
    <3>1. q # p
      <4>1. 1 \in DOMAIN calls
        BY DEF PendingFacts
      <4> QED BY <2>2, <4>1 DEF CallsHold
    <3>2. heap[q].subnodes[i] # Pending
      BY <1>1, <1>8, <1>14, <3>1 DEF HeapHolds
    <3> QED BY <1>4, <1>11, <2>2, <3>2
  <2> QED BY <2>1, <2>2
<1> QED BY <1>3, <1>5, <1>6, <1>7, <1>8, <1>9, <1>10, <1>12, <1>13, <1>14

-----------------------------------------------------------------------------
(* What freeing the duplicate a, with S below it, in favour of b leaves.   *)
Patched(a, b, S) ==
  /\ Live' = Live \ S
  /\ \A x \in Live \ S :
       /\ heap'[x] \in NodeRec /\ heap'[x].id = heap[x].id /\ heap'[x].val = heap[x].val
       /\ heap'[x].parent = heap[x].parent \/ (x = b /\ heap'[x].parent = heap[a].parent)
       /\ Len(heap'[x].subnodes) = Len(heap[x].subnodes)
       /\ DOMAIN heap'[x].subnodes = DOMAIN heap[x].subnodes
       /\ \A i \in DOMAIN heap[x].subnodes :
            IF heap[x].subnodes[i] = a
            THEN x = heap[a].parent /\ heap'[x].subnodes[i] = b
            ELSE heap'[x].subnodes[i] = heap[x].subnodes[i]

LEMMA PatchIs ==
  ASSUME HeapHolds, NEW a \in Untaken, NEW b \in Live \ {NULL}, NEW S, OwnSubtree(a, S),
         heap[a].parent \in Kept \cup {NULL}, Kept \subseteq Live,
         heap' = FreeAll(IF heap[a].parent = NULL THEN heap
                         ELSE ReplaceSubnode(heap[a].parent, a, b), S)
  PROVE  Patched(a, b, S)
<1> DEFINE p == heap[a].parent
<1>1. \A x \in Live : heap[x] \in NodeRec /\ heap[x].subnodes \in Seq(Addr)
  BY DEF HeapHolds, NodeRec
<1>2. \A x \in Live : \A i \in DOMAIN heap[x].subnodes : heap[x].subnodes[i] = a => x = p
  BY DEF HeapHolds
<1>3. CASE p = NULL
  <2>1. heap' = [x \in Live \ S |-> heap[x]]
    BY <1>3 DEF FreeAll, Live
  <2>2. \A x \in Live : \A i \in DOMAIN heap[x].subnodes : heap[x].subnodes[i] # a
    <3>1. NULL \notin Live
      BY Constants DEF HeapHolds, NULL
    <3> QED BY <1>2, <1>3, <3>1
  <2> QED BY <1>1, <2>1, <2>2 DEF Patched, Live
<1>4. CASE p # NULL
  <2>1. p \in Live /\ b \in Live
    BY <1>4
  <2> DEFINE sub == [i \in DOMAIN heap[p].subnodes |->
                       IF heap[p].subnodes[i] = a THEN b ELSE heap[p].subnodes[i]]
             g == [heap EXCEPT ![p].subnodes = sub]
             h == [g EXCEPT ![b].parent = p]
  <2>2. ReplaceSubnode(p, a, b) = h
    BY <2>1 DEF ReplaceSubnode, Live
  <2>3. /\ sub \in Seq(Addr) /\ Len(sub) = Len(heap[p].subnodes)
        /\ DOMAIN sub = DOMAIN heap[p].subnodes
    <3>1. /\ heap[p].subnodes \in Seq(Addr) /\ DOMAIN heap[p].subnodes = 1..Len(heap[p].subnodes)
          /\ Len(heap[p].subnodes) \in Nat
      BY <1>1, <2>1, LenProperties
    <3>2. \A i \in 1..Len(heap[p].subnodes) : sub[i] \in Addr
      BY <2>1, <3>1, ElementOfSeq DEF HeapHolds
    <3>3. sub \in [1..Len(heap[p].subnodes) -> Addr]
      BY <3>1, <3>2
    <3> QED BY <3>1, <3>3
  <2>4. /\ DOMAIN g = Live
        /\ \A x \in Live : /\ g[x] \in NodeRec /\ g[x].id = heap[x].id /\ g[x].val = heap[x].val
                           /\ g[x].parent = heap[x].parent
                           /\ g[x].subnodes = IF x = p THEN sub ELSE heap[x].subnodes
    <3> HIDE DEF sub
    <3> QED BY <1>1, <2>1, <2>3 DEF NodeRec, Live
  <2> HIDE DEF g
  <2>5. /\ DOMAIN h = Live
        /\ \A x \in Live : /\ h[x] \in NodeRec /\ h[x].id = heap[x].id /\ h[x].val = heap[x].val
                           /\ h[x].parent = IF x = b THEN p ELSE heap[x].parent
                           /\ h[x].subnodes = IF x = p THEN sub ELSE heap[x].subnodes
    <3>1. p \in Addr
      BY <2>1 DEF HeapHolds
    <3> HIDE DEF sub
    <3> QED BY <2>1, <2>4, <3>1 DEF NodeRec
  <2> HIDE DEF h
  <2>6. Live' = Live \ S /\ \A x \in Live \ S : heap'[x] = h[x]
    BY <1>4, <2>2, <2>5 DEF FreeAll, Live
  <2>7. ASSUME NEW x \in Live \ S
        PROVE  /\ heap'[x] \in NodeRec /\ heap'[x].id = heap[x].id /\ heap'[x].val = heap[x].val
               /\ heap'[x].parent = heap[x].parent \/ (x = b /\ heap'[x].parent = heap[a].parent)
               /\ Len(heap'[x].subnodes) = Len(heap[x].subnodes)
               /\ DOMAIN heap'[x].subnodes = DOMAIN heap[x].subnodes
               /\ \A i \in DOMAIN heap[x].subnodes :
                    IF heap[x].subnodes[i] = a
                    THEN x = heap[a].parent /\ heap'[x].subnodes[i] = b
                    ELSE heap'[x].subnodes[i] = heap[x].subnodes[i]
    <3>1. /\ x \in Live /\ heap'[x] = h[x] /\ h[x] \in NodeRec /\ h[x].id = heap[x].id
          /\ h[x].val = heap[x].val /\ h[x].parent = IF x = b THEN p ELSE heap[x].parent
          /\ h[x].subnodes = IF x = p THEN sub ELSE heap[x].subnodes
          /\ \A i \in DOMAIN heap[x].subnodes : heap[x].subnodes[i] = a => x = p
      BY <1>2, <2>5, <2>6
    <3>2. \A i \in DOMAIN heap[p].subnodes :
            sub[i] = IF heap[p].subnodes[i] = a THEN b ELSE heap[p].subnodes[i]
      OBVIOUS
    <3> HIDE DEF sub
    <3>3. CASE x = p
      <4>1. heap'[x].subnodes = sub /\ heap[x].subnodes = heap[p].subnodes
        BY <3>1, <3>3
      <4>2. /\ Len(heap'[x].subnodes) = Len(heap[x].subnodes)
            /\ DOMAIN heap'[x].subnodes = DOMAIN heap[x].subnodes
        BY <2>3, <4>1
      <4>3. ASSUME NEW i \in DOMAIN heap[x].subnodes
            PROVE  IF heap[x].subnodes[i] = a
                   THEN x = heap[a].parent /\ heap'[x].subnodes[i] = b
                   ELSE heap'[x].subnodes[i] = heap[x].subnodes[i]
        BY <3>2, <3>3, <4>1, <4>3
      <4> QED BY <3>1, <4>2, <4>3
    <3>4. CASE x # p
      BY <3>1, <3>4
    <3> QED BY <3>3, <3>4
  <2> QED BY <2>6, <2>7 DEF Patched
<1> QED BY <1>3, <1>4

LEMMA DuplicateOwnInv ==
  ASSUME OwnInv, TakeDuplicate
  PROVE  OwnInv'
<1> DEFINE a == Pending
           S == Below(Pending)
           p == calls[1].node
           b == seen[Hash(Pending)]
<1>1. ListsHold /\ HeapHolds /\ CallsHold /\ AllReached /\ Deep /\ MoreToTake
  BY DEF OwnInv, TakeDuplicate
<1>2. PendingFacts /\ TakenFacts /\ Kept \subseteq Live /\ Range(seen) \subseteq Kept
  BY <1>1, PendingIs, TakenIs, KeptAre
<1>3. a \in Untaken /\ OwnSubtree(a, S) /\ heap[a].parent = p
  BY <1>1, <1>2, BelowOwned DEF PendingFacts
<1>4. p \in Kept \cup {NULL} /\ b \in Kept /\ b \in Live \ {NULL}
  <2>1. b \in Kept
    BY <1>2 DEF TakeDuplicate, Range
  <2>2. NULL \notin Live
    BY <1>1, Constants DEF HeapHolds, NULL
  <2> QED BY <1>2, <2>1, <2>2 DEF PendingFacts
<1>5. Patched(a, b, S)
  <2>1. heap' = FreeAll(IF heap[a].parent = NULL THEN heap
                         ELSE ReplaceSubnode(heap[a].parent, a, b), S)
    BY DEF TakeDuplicate
  <2> HIDE DEF a, S, p, b
  <2> QED BY <1>1, <1>2, <1>3, <1>4, <2>1, PatchIs
<1> HIDE DEF a, S, p, b
<1>6. lists' = lists /\ seen' = seen /\ Kept' = Kept /\ calls' = Taken
  BY DEF TakeDuplicate, Kept
<1>7. Live' = Live \ S /\ Untaken' = Untaken \ S /\ S \subseteq Untaken /\ S \cap Kept = {}
  BY <1>3, <1>5, <1>6 DEF Patched, OwnSubtree, Untaken
<1>8. \A x \in Live \ S : \A i \in DOMAIN heap[x].subnodes :
        heap[x].subnodes[i] # a => heap[x].subnodes[i] \notin S
  BY <1>1, <1>3 DEF HeapHolds, OwnSubtree
<1>9. \A u \in Untaken \ S : UnderUntaken(u) => heap[u].parent \notin S
  BY <1>3 DEF OwnSubtree, UnderUntaken
<1>10. ASSUME NEW u \in Untaken \ S, AheadOfCall(u) PROVE heap[u].parent \in Kept \cup {NULL}
  <2>1. PICK k \in DOMAIN calls :
          IF calls[k].node = NULL THEN calls[k].next = u
          ELSE \E i \in Ahead(k) : heap[calls[k].node].subnodes[i] = u
    BY <1>10 DEF AheadOfCall
  <2>2. CASE calls[k].node = NULL
    BY <1>1, <2>1, <2>2 DEF CallsHold
  <2>3. CASE calls[k].node # NULL
    <3>1. PICK i \in Ahead(k) : heap[calls[k].node].subnodes[i] = u
      BY <2>1, <2>3
    <3>2. calls[k].node \in Kept /\ i \in DOMAIN heap[calls[k].node].subnodes
      <4>1. calls[k].node \in Kept /\ calls[k].node \in Live
            /\ calls[k].next \in 1..(Len(heap[calls[k].node].subnodes) + 1)
        BY <1>1, <1>2, <2>3 DEF CallsHold
      <4>2. heap[calls[k].node].subnodes \in Seq(Addr)
        BY <1>1, <4>1 DEF HeapHolds, NodeRec
      <4> QED BY <4>1, <4>2, LenProperties DEF Ahead
    <3> QED BY <1>1, <1>2, <3>1, <3>2 DEF HeapHolds
  <2> QED BY <2>2, <2>3
<1>11. \A x \in Live' : heap'[x] \in NodeRec /\ heap'[x].id = heap[x].id
                       /\ (x \in Untaken => heap'[x].parent = heap[x].parent)
                       /\ heap'[x].parent \in {heap[x].parent, p}
  BY <1>3, <1>4, <1>5, <1>7 DEF Patched, Untaken
<1>12. ASSUME NEW x \in Live', NEW i \in DOMAIN heap[x].subnodes
       PROVE  /\ DOMAIN heap'[x].subnodes = DOMAIN heap[x].subnodes
              /\ IF heap[x].subnodes[i] = a THEN x = p /\ heap'[x].subnodes[i] = b
                 ELSE heap'[x].subnodes[i] = heap[x].subnodes[i]
  BY <1>3, <1>5, <1>7 DEF Patched
<1>13. ListsHold'
  <2>1. ASSUME NEW id \in Ids, NEW i \in DOMAIN lists[id]
        PROVE  lists[id][i] \in Live' /\ heap'[lists[id][i]].id = id
    <3>1. lists[id][i] \in Kept /\ heap[lists[id][i]].id = id
      BY <1>1, KeptAre DEF ListsHold
    <3> QED BY <1>2, <1>7, <1>11, <3>1
  <2> QED BY <1>1, <1>6, <2>1 DEF ListsHold
<1>14. HeapHolds'
  <2>1. Live' \subseteq Addr
    BY <1>1, <1>7 DEF HeapHolds
  <2>2. ASSUME NEW x \in Live' PROVE heap'[x].parent \in Live' \cup {NULL}
    <3>1. CASE x \in Kept
      BY <1>1, <1>2, <1>4, <1>7, <1>11, <2>2, <3>1 DEF HeapHolds
    <3>2. CASE x \notin Kept
      <4>1. x \in Untaken \ S /\ x \in Live
        BY <1>7, <3>2, <2>2 DEF Untaken
      <4>2. heap[x].parent \in Live \cup {NULL} /\ NULL \notin Live
        BY <1>1, <4>1, Constants DEF HeapHolds, NULL
      <4>3. heap[x].parent \notin S
        BY <1>1, <1>2, <1>7, <1>9, <1>10, <4>1, <4>2 DEF AllReached, Untaken
      <4> QED BY <1>7, <1>11, <2>2, <4>1, <4>2, <4>3
    <3> QED BY <3>1, <3>2
  <2>3. \A x \in Kept : heap'[x].parent \in Kept \cup {NULL}
    BY <1>1, <1>2, <1>4, <1>7, <1>11 DEF HeapHolds
  <2>4. ASSUME NEW x \in Live', NEW i \in DOMAIN heap'[x].subnodes
        PROVE  LET s == heap'[x].subnodes[i] IN
               /\ s \in Live'
               /\ x \in Untaken' => s \in Untaken'
               /\ s \in Untaken' => /\ heap'[s].parent = x
                                    /\ \A j \in DOMAIN heap'[x].subnodes :
                                         heap'[x].subnodes[j] = s => j = i
    <3>1. x \in Live \ S
      BY <1>7, <2>4
    <3>2. DOMAIN heap'[x].subnodes = DOMAIN heap[x].subnodes /\ i \in DOMAIN heap[x].subnodes
      BY <1>5, <2>4, <3>1 DEF Patched
    <3>3. CASE heap[x].subnodes[i] = a
      <4>1. heap'[x].subnodes[i] = b /\ x = p
        BY <1>12, <2>4, <3>2, <3>3
      <4>2. b \in Live' /\ b \notin Untaken'
        BY <1>4, <1>7 DEF Untaken
      <4>3. x \notin Untaken'
        <5>1. NULL \notin Live
          BY <1>1, Constants DEF HeapHolds, NULL
        <5>2. p \in Kept
          BY <1>4, <3>1, <4>1, <5>1
        <5> QED BY <1>7, <4>1, <5>2 DEF Untaken
      <4> QED BY <4>1, <4>2, <4>3
    <3>4. CASE heap[x].subnodes[i] # a
      <4> DEFINE s == heap[x].subnodes[i]
      <4>1. heap'[x].subnodes[i] = s
        BY <1>12, <2>4, <3>2, <3>4
      <4>2. s \in Live /\ s \notin S
        BY <1>1, <1>8, <3>1, <3>2, <3>4 DEF HeapHolds
      <4>3. x \in Untaken' => s \in Untaken'
        BY <1>1, <1>7, <3>1, <3>2, <4>2 DEF HeapHolds
      <4>4. ASSUME s \in Untaken', NEW j \in DOMAIN heap'[x].subnodes, heap'[x].subnodes[j] = s
            PROVE  j = i
        <5>1. s # b /\ j \in DOMAIN heap[x].subnodes
          BY <1>4, <1>7, <3>2, <4>4 DEF Untaken
        <5>2. heap[x].subnodes[j] = s
          BY <1>12, <2>4, <4>4, <5>1
        <5> QED BY <1>1, <1>7, <3>1, <3>2, <4>4, <5>1, <5>2 DEF HeapHolds
      <4>5. s \in Untaken' => heap'[s].parent = x
        BY <1>1, <1>7, <1>11, <3>1, <3>2, <4>2 DEF HeapHolds
      <4> HIDE DEF s
      <4> QED BY <1>7, <4>1, <4>2, <4>3, <4>4, <4>5
    <3> QED BY <3>3, <3>4
  <2> QED BY <1>6, <1>11, <2>1, <2>2, <2>3, <2>4 DEF HeapHolds
<1>15. ASSUME p # NULL, NEW k \in DOMAIN calls, NEW q, q = calls[k].node
       PROVE  /\ q \in Kept /\ q \in Live' /\ q # NULL /\ k \in DOMAIN calls' /\ calls'[k].node = q
              /\ Len(heap'[q].subnodes) = Len(heap[q].subnodes)
              /\ calls'[k].next \in 1..(Len(heap[q].subnodes) + 1)
              /\ DOMAIN heap[q].subnodes = 1..Len(heap[q].subnodes) /\ Len(heap[q].subnodes) \in Nat
              /\ Ahead(k) \subseteq DOMAIN heap[q].subnodes
              /\ Ahead(k)' \subseteq DOMAIN heap[q].subnodes
              /\ \A i \in Ahead(k) : heap[q].subnodes[i] \in Untaken
              /\ \A i \in DOMAIN heap[q].subnodes :
                   i \in Ahead(k)' <=> i \in Ahead(k) /\ heap[q].subnodes[i] # a
  <2>1. /\ q \in Kept /\ q \in Live /\ q # NULL /\ Len(heap[q].subnodes) \in Nat
        /\ DOMAIN heap[q].subnodes = 1..Len(heap[q].subnodes)
        /\ DOMAIN Taken = DOMAIN calls /\ Taken[k].node = q
        /\ Taken[k].next \in 1..(Len(heap[q].subnodes) + 1)
        /\ Ahead(k) \subseteq DOMAIN heap[q].subnodes
        /\ \A i \in Ahead(k) : heap[q].subnodes[i] \in Untaken
        /\ \A i \in DOMAIN heap[q].subnodes :
             i \in Taken[k].next..Len(heap[q].subnodes)
               <=> i \in Ahead(k) /\ heap[q].subnodes[i] # a
    BY <1>1, <1>2, <1>15, TakenAhead DEF p, a
  <2>2. q \in Live' /\ q \in Live \ S
    BY <1>7, <2>1
  <2>3. Len(heap'[q].subnodes) = Len(heap[q].subnodes)
    BY <1>5, <2>2 DEF Patched
  <2>4. calls'[k].node = q
    BY <1>6, <2>1
  <2>5. Ahead(k)' = Taken[k].next..Len(heap[q].subnodes)
    BY <1>6, <2>1, <2>3, <2>4 DEF Ahead
  <2>6. Ahead(k)' \subseteq DOMAIN heap[q].subnodes
    BY <2>1, <2>5
  <2> QED BY <1>6, <2>1, <2>2, <2>3, <2>4, <2>5, <2>6
<1>16. p # NULL => DOMAIN calls' = DOMAIN calls /\ calls' \in Seq(CallRec)
  BY <1>1, <1>2, <1>6, TakenAhead DEF p, TakenFacts, PendingFacts
<1>17. p = NULL => calls' = <<>>
  BY <1>2, <1>6 DEF TakenFacts, p
<1>18. CallsHold'
  <2>1. CASE p = NULL
    <3>1. calls' \in Seq(CallRec) /\ DOMAIN calls' = {}
      BY <1>17, <2>1, EmptySeq
    <3> QED BY <3>1 DEF CallsHold
  <2>2. CASE p # NULL
    <3>1. ASSUME NEW k \in DOMAIN calls
          PROVE  /\ calls'[k].node # NULL /\ calls'[k].node \in Kept'
                 /\ calls'[k].next \in 1..(Len(heap'[calls'[k].node].subnodes) + 1)
                 /\ \A i \in Ahead(k)' : heap'[calls'[k].node].subnodes[i] \in Untaken'
      <4> DEFINE q == calls[k].node
      <4>1. /\ calls'[k].node = q /\ q \in Kept /\ q \in Live' /\ q # NULL
            /\ calls'[k].next \in 1..(Len(heap'[q].subnodes) + 1)
        BY <1>15, <2>2, <3>1
      <4>2. ASSUME NEW i \in Ahead(k)' PROVE heap'[q].subnodes[i] \in Untaken'
        <5>1. /\ i \in DOMAIN heap[q].subnodes /\ i \in Ahead(k) /\ heap[q].subnodes[i] # a
              /\ heap[q].subnodes[i] \in Untaken
          BY <1>15, <2>2, <3>1, <4>2
        <5>2. heap'[q].subnodes[i] = heap[q].subnodes[i]
          BY <1>12, <4>1, <5>1
        <5>3. heap[q].subnodes[i] \notin S
          BY <1>7, <1>8, <4>1, <5>1
        <5> QED BY <1>7, <5>1, <5>2, <5>3
      <4> QED BY <1>6, <4>1, <4>2
    <3>2. \A j, k \in DOMAIN calls : calls'[j].node = calls'[k].node => j = k
      BY <1>1, <1>15, <2>2 DEF CallsHold
    <3> QED BY <1>16, <2>2, <3>1, <3>2 DEF CallsHold
  <2> QED BY <2>1, <2>2
<1>19. AllReached'
  <2> SUFFICES ASSUME NEW u \in Untaken' PROVE UnderUntaken(u)' \/ AheadOfCall(u)'
    BY DEF AllReached
  <2>1. u \in Untaken \ S /\ u \in Live' /\ u # a
    BY <1>3, <1>7 DEF Untaken, OwnSubtree
  <2>2. heap'[u].parent = heap[u].parent
    BY <1>11, <2>1
  <2>3. CASE UnderUntaken(u)
    <3>1. heap[u].parent \in Untaken' /\ heap[u].parent \in Live'
      BY <1>7, <1>9, <2>1, <2>3 DEF UnderUntaken, Untaken
    <3>2. PICK i \in DOMAIN heap[heap[u].parent].subnodes : heap[heap[u].parent].subnodes[i] = u
      BY <2>3 DEF UnderUntaken
    <3>3. i \in DOMAIN heap'[heap[u].parent].subnodes /\ heap'[heap[u].parent].subnodes[i] = u
      BY <1>12, <2>1, <3>1, <3>2
    <3> QED BY <2>2, <3>1, <3>3 DEF UnderUntaken
  <2>4. CASE AheadOfCall(u)
    <3>1. PICK k \in DOMAIN calls :
            IF calls[k].node = NULL THEN calls[k].next = u
            ELSE \E i \in Ahead(k) : heap[calls[k].node].subnodes[i] = u
      BY <2>4 DEF AheadOfCall
    <3>2. p # NULL
      <4> SUFFICES ASSUME p = NULL PROVE FALSE
        OBVIOUS
      <4>1. k = 1 /\ a = calls[1].next
        BY <1>2, <3>1 DEF PendingFacts, p, a
      <4> QED BY <2>1, <3>1, <4>1 DEF p
    <3> DEFINE q == calls[k].node
    <3>3. q # NULL /\ q \in Live' /\ k \in DOMAIN calls' /\ calls'[k].node = q
          /\ Ahead(k) \subseteq DOMAIN heap[q].subnodes
      BY <1>15, <3>1, <3>2
    <3>4. PICK i \in Ahead(k) : heap[q].subnodes[i] = u
      BY <3>1, <3>3
    <3>5. i \in DOMAIN heap[q].subnodes /\ i \in Ahead(k)'
      BY <1>15, <2>1, <3>1, <3>2, <3>3, <3>4
    <3>6. heap'[q].subnodes[i] = u
      BY <1>12, <2>1, <3>3, <3>4, <3>5
    <3> HIDE DEF q
    <3> QED BY <3>3, <3>5, <3>6 DEF AheadOfCall
  <2> QED BY <1>1, <2>1, <2>3, <2>4 DEF AllReached
<1>20. Deep'
  <2>1. PICK dep \in [Untaken -> 0..MaxNodes] : IsDepth(dep)
    BY <1>1 DEF Deep
  <2> DEFINE new == [u \in Untaken' |-> dep[u]]
  <2>2. new \in [Untaken' -> 0..MaxNodes]
    BY <1>7
  <2>3. ASSUME NEW u \in Untaken', NEW i \in DOMAIN heap'[u].subnodes
        PROVE  new[heap'[u].subnodes[i]] = new[u] + 1
    <3>1. u \in Untaken /\ u \in Live' /\ u \in Live /\ u \in Live \ S
      BY <1>7, <2>3 DEF Untaken
    <3>2. i \in DOMAIN heap[u].subnodes
      BY <1>5, <2>3, <3>1 DEF Patched
    <3>3. heap[u].subnodes[i] # a
      <4>1. NULL \notin Live
        BY <1>1, Constants DEF HeapHolds, NULL
      <4> QED BY <1>1, <1>3, <1>4, <3>1, <3>2, <4>1 DEF HeapHolds, Untaken
    <3>4. heap'[u].subnodes[i] = heap[u].subnodes[i] /\ heap[u].subnodes[i] \in Untaken'
      BY <1>1, <1>7, <1>8, <1>12, <3>1, <3>2, <3>3 DEF HeapHolds
    <3>5. dep[heap[u].subnodes[i]] = dep[u] + 1
      BY <2>1, <3>1, <3>2 DEF IsDepth
    <3> QED BY <2>3, <3>4, <3>5
  <2> HIDE DEF new
  <2> QED BY <2>2, <2>3 DEF Deep, IsDepth
<1> QED BY <1>13, <1>14, <1>18, <1>19, <1>20 DEF OwnInv

-----------------------------------------------------------------------------
(* A brand new node goes to the list of its symbol, and a call for it      *)
(* starts.                                                                 *)
LEMMA NewLists ==
  ASSUME ListsHold, HeapHolds, NEW a \in Untaken,
         lists' = [lists EXCEPT ![heap[a].id] = Append(@, a)], heap' = heap,
         \A h \in DOMAIN seen' : seen'[h] \in {a} \cup Range(seen)
  PROVE  ListsHold' /\ Kept' = Kept \cup {a} /\ Untaken' = Untaken \ {a}
<1> DEFINE id == heap[a].id
           old == lists[id]
           new == Append(old, a)
<1>1. a \in Live /\ a \in Addr /\ id \in Ids /\ a \notin Kept
  BY DEF HeapHolds, NodeRec, Untaken
<1>2. old \in Seq(Addr) /\ lists \in [Ids -> Seq(Addr)]
  BY <1>1 DEF ListsHold
<1>3. /\ new \in Seq(Addr) /\ Len(new) = Len(old) + 1 /\ Len(old) \in Nat
      /\ \A i \in 1..Len(old) : new[i] = old[i]
      /\ new[Len(old)+1] = a
  BY <1>1, <1>2, AppendProperties, LenProperties
<1>4. DOMAIN old = 1..Len(old) /\ DOMAIN new = 1..(Len(old)+1)
  BY <1>2, <1>3, LenProperties
<1>5. lists' \in [Ids -> Seq(Addr)] /\ lists'[id] = new /\ \A d \in Ids : d # id => lists'[d] = lists[d]
  BY <1>1, <1>2, <1>3
<1> HIDE DEF new, old
<1>6. \A i \in DOMAIN new : (i \in DOMAIN old /\ new[i] = old[i]) \/ (i = Len(old)+1 /\ new[i] = a)
  BY <1>3, <1>4
<1>7. \A i \in DOMAIN old : i \in DOMAIN new /\ new[i] = old[i] /\ i # Len(old)+1
  BY <1>3, <1>4
<1>8. Len(old)+1 \in DOMAIN new
  BY <1>3, <1>4
<1>9. \A i \in DOMAIN old : old[i] # a
  BY <1>1, KeptAre DEF old
<1>10. Kept' = Kept \cup {a}
  <2>1. \A x : x \in Kept' <=> \E d \in Ids : \E i \in DOMAIN lists'[d] : lists'[d][i] = x
    BY DEF Kept, Range
  <2>2. \A x : (\E i \in DOMAIN new : new[i] = x) <=> x = a \/ \E i \in DOMAIN old : old[i] = x
    BY <1>3, <1>6, <1>7, <1>8
  <2>3. \A x : x \in Kept' <=> x \in Kept \/ x = a
    <3>1. \A x : x \in Kept <=> \E d \in Ids : \E i \in DOMAIN lists[d] : lists[d][i] = x
      BY KeptAre
    <3> DEFINE In(x, d) == \E i \in DOMAIN lists[d] : lists[d][i] = x
               InNew(x, d) == \E i \in DOMAIN lists'[d] : lists'[d][i] = x
    <3>2. \A x : \A d \in Ids : d # id => (InNew(x, d) <=> In(x, d))
      BY <1>5
    <3>3. \A x : InNew(x, id) <=> x = a \/ In(x, id)
      BY <1>5, <2>2 DEF old
    <3>4. \A x : (x \in Kept' <=> \E d \in Ids : InNew(x, d)) /\ (x \in Kept <=> \E d \in Ids : In(x, d))
      BY <2>1, <3>1
    <3> HIDE DEF In, InNew, id
    <3>5. id \in Ids
      BY <1>1
    <3> QED BY <3>2, <3>3, <3>4, <3>5
  <2> QED BY <2>3
<1>11. ASSUME NEW d \in Ids
       PROVE  /\ \A i, j \in DOMAIN lists'[d] : lists'[d][i] = lists'[d][j] => i = j
              /\ \A i \in DOMAIN lists'[d] : lists'[d][i] \in Live /\ heap[lists'[d][i]].id = d
  <2>1. CASE d # id
    BY <1>5, <2>1 DEF ListsHold
  <2>2. CASE d = id
    <3>1. \A i, j \in DOMAIN new : new[i] = new[j] => i = j
      <4>1. \A i, j \in DOMAIN old : old[i] = old[j] => i = j
        BY <1>1 DEF ListsHold, old
      <4> QED BY <1>6, <1>9, <4>1
    <3>2. \A i \in DOMAIN new : new[i] \in Live /\ heap[new[i]].id = id
      <4>1. \A i \in DOMAIN old : old[i] \in Live /\ heap[old[i]].id = id
        BY <1>1 DEF ListsHold, old
      <4> QED BY <1>1, <1>6, <4>1
    <3> QED BY <1>5, <2>2, <3>1, <3>2
  <2> QED BY <2>1, <2>2
<1>12. \A h \in DOMAIN seen' : seen'[h] \in Kept'
  BY <1>10, KeptAre
<1>13. Live' = Live
  BY DEF Live
<1>14. ListsHold'
  BY <1>5, <1>11, <1>12, <1>13 DEF ListsHold
<1> QED BY <1>10, <1>13, <1>14 DEF Untaken

LEMMA NewOwnInv ==
  ASSUME OwnInv, TakeNew
  PROVE  OwnInv'
<1> DEFINE a == Pending
           p == calls[1].node
           c == [node |-> Pending, next |-> 1]
<1>1. ListsHold /\ HeapHolds /\ CallsHold /\ AllReached /\ Deep /\ MoreToTake
  BY DEF OwnInv, TakeNew
<1>2. PendingFacts /\ TakenFacts /\ Kept \subseteq Live /\ Range(seen) \subseteq Kept
  BY <1>1, PendingIs, TakenIs, KeptAre
<1>3. /\ a \in Untaken /\ a \in Live /\ a \in Addr /\ heap[a].parent = p
      /\ p \in Kept \cup {NULL} /\ p # a
      /\ NULL \notin Live
  <2>1. a \in Untaken /\ heap[a].parent = p /\ p \in Kept \cup {NULL}
    BY <1>2 DEF PendingFacts
  <2>2. NULL \notin Live
    BY <1>1, Constants DEF HeapHolds, NULL
  <2> QED BY <1>1, <2>1, <2>2 DEF HeapHolds, Untaken
<1>4. heap' = heap /\ Live' = Live
  BY DEF TakeNew, Live
<1>5. ListsHold' /\ Kept' = Kept \cup {a} /\ Untaken' = Untaken \ {a}
  <2>1. lists' = [lists EXCEPT ![heap[a].id] = Append(@, a)]
    BY DEF TakeNew
  <2>2. \A h \in DOMAIN seen' : seen'[h] \in {a} \cup Range(seen)
    BY DEF TakeNew, Range
  <2> HIDE DEF a
  <2> QED BY <1>1, <1>3, <1>4, <2>1, <2>2, NewLists
<1>6. c \in CallRec /\ c.node = a /\ c.next = 1
  BY <1>3 DEF CallRec
<1>7. calls' = <<c>> \o Taken
  BY DEF TakeNew
<1> HIDE DEF a, c
<1>8. /\ calls' \in Seq(CallRec) /\ DOMAIN calls' = 1..(1 + Len(Taken)) /\ Len(Taken) \in Nat
      /\ DOMAIN Taken = 1..Len(Taken)
      /\ calls'[1] = c /\ \A k \in 1..Len(Taken) : calls'[k+1] = Taken[k]
  <2>1. <<c>> \in Seq(CallRec) /\ Len(<<c>>) = 1 /\ <<c>>[1] = c /\ Taken \in Seq(CallRec)
    BY <1>2, <1>6 DEF TakenFacts
  <2>2. Len(Taken) \in Nat /\ DOMAIN Taken = 1..Len(Taken)
    BY <2>1, LenProperties
  <2>3. /\ calls' \in Seq(CallRec) /\ Len(calls') = 1 + Len(Taken)
        /\ \A i \in 1..(1 + Len(Taken)) : calls'[i] = IF i <= 1 THEN <<c>>[i] ELSE Taken[i-1]
    BY <1>7, <2>1, ConcatProperties
  <2>4. calls'[1] = c
    BY <2>1, <2>2, <2>3
  <2>5. ASSUME NEW k \in 1..Len(Taken) PROVE calls'[k+1] = Taken[k]
    <3>1. k+1 \in 1..(1 + Len(Taken)) /\ ~(k+1 <= 1) /\ (k+1)-1 = k
      BY <2>2
    <3> QED BY <2>3, <3>1
  <2> QED BY <2>2, <2>3, <2>4, <2>5, LenProperties
<1>9. p = NULL => Len(Taken) = 0
  BY <1>2, EmptySeq DEF TakenFacts, p
<1>10. \A k \in DOMAIN calls' : k = 1 \/ (k-1 \in DOMAIN Taken /\ calls'[k] = Taken[k-1] /\ p # NULL)
  <2> SUFFICES ASSUME NEW k \in DOMAIN calls', k # 1
               PROVE  k-1 \in DOMAIN Taken /\ calls'[k] = Taken[k-1] /\ p # NULL
    OBVIOUS
  <2>1. k-1 \in 1..Len(Taken) /\ (k-1)+1 = k
    BY <1>8
  <2>2. Len(Taken) # 0
    BY <1>8, <2>1
  <2> QED BY <1>8, <1>9, <2>1, <2>2
<1>11. p # NULL => DOMAIN Taken = DOMAIN calls
  BY <1>1, <1>2, TakenAhead DEF p, PendingFacts
<1>12. ASSUME p # NULL, NEW k \in DOMAIN calls, NEW q, q = calls[k].node
       PROVE  /\ q \in Kept /\ q \in Live /\ q # NULL /\ q # a
              /\ k+1 \in DOMAIN calls' /\ calls'[k+1].node = q
              /\ calls'[k+1].next \in 1..(Len(heap[q].subnodes) + 1)
              /\ Ahead(k) \subseteq DOMAIN heap[q].subnodes
              /\ Ahead(k+1)' \subseteq DOMAIN heap[q].subnodes
              /\ \A i \in Ahead(k) : heap[q].subnodes[i] \in Untaken
              /\ \A i \in DOMAIN heap[q].subnodes :
                   i \in Ahead(k+1)' <=> i \in Ahead(k) /\ heap[q].subnodes[i] # a
  <2>1. /\ q \in Kept /\ q \in Live /\ q # NULL /\ Len(heap[q].subnodes) \in Nat
        /\ DOMAIN heap[q].subnodes = 1..Len(heap[q].subnodes)
        /\ DOMAIN Taken = DOMAIN calls /\ Taken[k].node = q
        /\ Taken[k].next \in 1..(Len(heap[q].subnodes) + 1)
        /\ Ahead(k) \subseteq DOMAIN heap[q].subnodes
        /\ \A i \in Ahead(k) : heap[q].subnodes[i] \in Untaken
        /\ \A i \in DOMAIN heap[q].subnodes :
             i \in Taken[k].next..Len(heap[q].subnodes)
               <=> i \in Ahead(k) /\ heap[q].subnodes[i] # a
    BY <1>1, <1>2, <1>12, TakenAhead DEF p, a
  <2>2. k \in 1..Len(Taken) /\ k+1 \in DOMAIN calls' /\ calls'[k+1] = Taken[k]
    BY <1>8, <1>12, <2>1
  <2>3. Ahead(k+1)' = Taken[k].next..Len(heap[q].subnodes)
    BY <1>4, <2>1, <2>2 DEF Ahead
  <2>4. Ahead(k+1)' \subseteq DOMAIN heap[q].subnodes
    BY <2>1, <2>3
  <2>5. q # a
    BY <1>3, <2>1 DEF Untaken
  <2> QED BY <2>1, <2>2, <2>3, <2>4, <2>5
<1>13. HeapHolds'
  <2>1. \A x \in Kept \cup {a} : heap[x].parent \in Kept \cup {a} \cup {NULL}
    BY <1>1, <1>3 DEF HeapHolds
  <2>2. ASSUME NEW x \in Live, NEW i \in DOMAIN heap[x].subnodes, x \in Untaken \ {a}
        PROVE  heap[x].subnodes[i] \in Untaken \ {a}
    <3>1. x # p
      BY <1>3, <2>2 DEF Untaken
    <3> QED BY <1>1, <1>3, <2>2, <3>1 DEF HeapHolds
  <2> QED BY <1>1, <1>4, <1>5, <2>1, <2>2 DEF HeapHolds
<1>14. \A i \in DOMAIN heap[a].subnodes : heap[a].subnodes[i] \in Untaken \ {a}
  BY <1>1, <1>3 DEF HeapHolds
<1>15. heap[a].subnodes \in Seq(Addr) /\ Len(heap[a].subnodes) \in Nat
       /\ DOMAIN heap[a].subnodes = 1..Len(heap[a].subnodes)
  <2>1. heap[a].subnodes \in Seq(Addr)
    BY <1>1, <1>3 DEF HeapHolds, NodeRec
  <2> QED BY <2>1, LenProperties
<1>16. /\ 1 \in DOMAIN calls' /\ calls'[1].node = a /\ calls'[1].next = 1
       /\ Ahead(1)' = DOMAIN heap[a].subnodes
  BY <1>4, <1>6, <1>8, <1>15 DEF Ahead
<1>17. CallsHold'
  <2>1. ASSUME NEW k \in DOMAIN calls'
        PROVE  /\ calls'[k].node # NULL /\ calls'[k].node \in Kept'
               /\ calls'[k].next \in 1..(Len(heap'[calls'[k].node].subnodes) + 1)
               /\ \A i \in Ahead(k)' : heap'[calls'[k].node].subnodes[i] \in Untaken'
    <3>1. CASE k = 1
      BY <1>3, <1>4, <1>5, <1>14, <1>15, <1>16, <3>1
    <3>2. CASE k # 1
      <4>1. k-1 \in DOMAIN calls /\ p # NULL /\ (k-1)+1 = k
        BY <1>8, <1>10, <1>11, <3>2
      <4> DEFINE q == calls[k-1].node
                 j == k-1
      <4>2. j \in DOMAIN calls /\ j+1 = k /\ q = calls[j].node
        BY <4>1
      <4> HIDE DEF q, j
      <4>3. /\ q \in Kept /\ q # NULL /\ calls'[j+1].node = q
            /\ calls'[j+1].next \in 1..(Len(heap[q].subnodes) + 1)
            /\ \A i \in Ahead(j+1)' : heap[q].subnodes[i] \in Untaken \ {a}
        BY <1>12, <4>1, <4>2
      <4> QED BY <1>4, <1>5, <4>2, <4>3
    <3> QED BY <3>1, <3>2
  <2>2. ASSUME NEW j \in DOMAIN calls', NEW k \in DOMAIN calls', calls'[j].node = calls'[k].node
        PROVE  j = k
    <3>1. ASSUME NEW l \in DOMAIN calls', l # 1
          PROVE  /\ l-1 \in DOMAIN calls /\ (l-1)+1 = l /\ p # NULL
                 /\ calls'[l].node = calls[l-1].node /\ calls'[l].node # a
      <4> DEFINE m == l-1
      <4>1. m \in DOMAIN calls /\ m+1 = l /\ p # NULL
        BY <1>8, <1>10, <1>11, <3>1
      <4> HIDE DEF m
      <4>2. calls'[m+1].node = calls[m].node /\ calls[m].node # a
        BY <1>12, <4>1
      <4> QED BY <4>1, <4>2 DEF m
    <3>2. CASE j = 1 \/ k = 1
      BY <1>16, <2>2, <3>1, <3>2
    <3>3. CASE j # 1 /\ k # 1
      <4>1. j-1 = k-1
        BY <1>1, <2>2, <3>1, <3>3 DEF CallsHold
      <4> QED BY <1>8, <4>1
    <3> QED BY <3>2, <3>3
  <2> QED BY <1>8, <2>1, <2>2 DEF CallsHold
<1>18. AllReached'
  <2> SUFFICES ASSUME NEW u \in Untaken' PROVE UnderUntaken(u)' \/ AheadOfCall(u)'
    BY DEF AllReached
  <2>1. u \in Untaken /\ u # a
    BY <1>5
  <2>2. CASE UnderUntaken(u)
    <3>1. heap[u].parent \in Untaken
          /\ \E i \in DOMAIN heap[heap[u].parent].subnodes : heap[heap[u].parent].subnodes[i] = u
      BY <2>2 DEF UnderUntaken
    <3>2. CASE heap[u].parent = a
      BY <1>3, <1>4, <1>16, <3>1, <3>2 DEF AheadOfCall
    <3>3. CASE heap[u].parent # a
      BY <1>4, <1>5, <3>1, <3>3 DEF UnderUntaken
    <3> QED BY <3>2, <3>3
  <2>3. CASE AheadOfCall(u)
    <3>1. PICK k \in DOMAIN calls :
            IF calls[k].node = NULL THEN calls[k].next = u
            ELSE \E i \in Ahead(k) : heap[calls[k].node].subnodes[i] = u
      BY <2>3 DEF AheadOfCall
    <3>2. p # NULL
      <4> SUFFICES ASSUME p = NULL PROVE FALSE
        OBVIOUS
      <4>1. k = 1 /\ a = calls[1].next
        BY <1>2, <3>1 DEF PendingFacts, p, a
      <4> QED BY <2>1, <3>1, <4>1 DEF p
    <3> DEFINE q == calls[k].node
    <3>3. q # NULL /\ k+1 \in DOMAIN calls' /\ calls'[k+1].node = q
          /\ Ahead(k) \subseteq DOMAIN heap[q].subnodes
      BY <1>12, <3>1, <3>2
    <3>4. PICK i \in Ahead(k) : heap[q].subnodes[i] = u
      BY <3>1, <3>3
    <3>5. i \in DOMAIN heap[q].subnodes /\ i \in Ahead(k+1)'
      BY <1>12, <2>1, <3>1, <3>2, <3>3, <3>4
    <3> HIDE DEF q
    <3> QED BY <1>4, <3>3, <3>4, <3>5 DEF AheadOfCall
  <2> QED BY <1>1, <2>1, <2>2, <2>3 DEF AllReached
<1>19. Deep'
  <2>1. PICK dep \in [Untaken -> 0..MaxNodes] : IsDepth(dep)
    BY <1>1 DEF Deep
  <2> DEFINE new == [u \in Untaken' |-> dep[u]]
  <2>2. new \in [Untaken' -> 0..MaxNodes]
    BY <1>5
  <2>3. ASSUME NEW u \in Untaken', NEW i \in DOMAIN heap[u].subnodes
        PROVE  new[heap[u].subnodes[i]] = new[u] + 1
    <3>1. heap[u].subnodes[i] \in Untaken' /\ u \in Untaken
      BY <1>4, <1>5, <1>13, <2>3 DEF HeapHolds, Untaken
    <3> QED BY <2>1, <2>3, <3>1 DEF IsDepth
  <2> HIDE DEF new
  <2> QED BY <1>4, <2>2, <2>3 DEF Deep, IsDepth
<1> QED BY <1>5, <1>13, <1>17, <1>18, <1>19 DEF OwnInv

-----------------------------------------------------------------------------
(* Between calls nothing is untaken: an untaken node that is least deep    *)
(* would be reached from one less deep.                                    *)
LEMMA NothingUntaken ==
  ASSUME OwnInv, calls = <<>>
  PROVE  Untaken = {} /\ Live = Kept
<1>1. ListsHold /\ HeapHolds /\ AllReached /\ Deep
  BY DEF OwnInv
<1>2. PICK dep \in [Untaken -> 0..MaxNodes] : IsDepth(dep)
  BY <1>1 DEF Deep
<1>3. Untaken = {}
  <2> SUFFICES ASSUME Untaken # {} PROVE FALSE
    OBVIOUS
  <2> DEFINE D == {dep[u] : u \in Untaken}
  <2>1. D \in SUBSET Nat /\ D # {}
    BY Constants
  <2>2. PICK m \in D : \A n \in D : m <= n
    <3> HIDE DEF D
    <3> QED BY <2>1, LeastNat
  <2>3. PICK u \in Untaken : m = dep[u]
    OBVIOUS
  <2>4. ~AheadOfCall(u)
    BY DEF AheadOfCall
  <2>5. UnderUntaken(u)
    BY <1>1, <2>4 DEF AllReached
  <2>6. /\ heap[u].parent \in Untaken
        /\ dep[u] = dep[heap[u].parent] + 1
    BY <1>2, <2>5 DEF UnderUntaken, IsDepth
  <2>7. dep[heap[u].parent] \in D /\ dep[heap[u].parent] \in Nat
    BY <2>1, <2>6
  <2>8. m <= dep[heap[u].parent]
    BY <2>2, <2>7
  <2> QED BY <2>3, <2>6, <2>7, <2>8
<1>4. Kept \subseteq Live
  BY <1>1, KeptAre
<1> QED BY <1>3, <1>4 DEF Untaken

LEMMA UnchangedOwnInv ==
  ASSUME OwnInv, UNCHANGED <<heap, lists, seen, calls>>
  PROVE  OwnInv'
<1> USE DEF OwnInv
<1>1. Live' = Live /\ Kept' = Kept /\ Untaken' = Untaken
  BY DEF Live, Kept, Untaken
<1>2. ListsHold' /\ HeapHolds'
  BY <1>1 DEF ListsHold, HeapHolds
<1>3. CallsHold'
  BY <1>1 DEF CallsHold, Ahead
<1>4. AllReached'
  BY <1>1 DEF AllReached, UnderUntaken, AheadOfCall, Ahead
<1>5. Deep'
  BY <1>1 DEF Deep, IsDepth
<1> QED BY <1>2, <1>3, <1>4, <1>5

(* A call that returns has nothing left to take.                           *)
LEMMA ReturnOwnInv ==
  ASSUME OwnInv, Return
  PROVE  OwnInv'
<1>1. ListsHold /\ HeapHolds /\ CallsHold /\ AllReached /\ Deep
  BY DEF OwnInv
<1>2. UNCHANGED <<heap, lists, seen>> /\ calls' = Tail(calls) /\ calls # <<>> /\ ~MoreToTake
  BY DEF Return
<1>3. Live' = Live /\ Kept' = Kept /\ Untaken' = Untaken
  BY <1>2 DEF Live, Kept, Untaken
<1>4. /\ calls \in Seq(CallRec) /\ Len(calls) \in Nat \ {0}
      /\ Head(calls) = calls[1] /\ DOMAIN calls = 1..Len(calls)
      /\ Tail(calls) \in Seq(CallRec) /\ Len(Tail(calls)) = Len(calls) - 1
      /\ \A k \in 1..(Len(calls)-1) : Tail(calls)[k] = calls[k+1]
  BY <1>1, <1>2, EmptySeq, LenProperties, HeadTailProperties DEF CallsHold
<1>5. /\ DOMAIN calls' = 1..(Len(calls)-1)
      /\ \A k \in DOMAIN calls' : k+1 \in DOMAIN calls /\ calls'[k] = calls[k+1]
      /\ \A k \in DOMAIN calls : k # 1 => k-1 \in DOMAIN calls' /\ calls'[k-1] = calls[k]
  <2>1. DOMAIN Tail(calls) = 1..(Len(calls)-1)
    BY <1>4, LenProperties
  <2>2. \A k \in 1..(Len(calls)-1) : k+1 \in 1..Len(calls)
    BY <1>4
  <2>3. \A k \in 1..Len(calls) : k # 1 => k-1 \in 1..(Len(calls)-1) /\ (k-1)+1 = k
    BY <1>4
  <2> QED BY <1>2, <1>4, <2>1, <2>2, <2>3
<1>6. calls[1].node # NULL /\ Ahead(1) = {}
  <2> DEFINE n == Len(heap[calls[1].node].subnodes)
  <2>1. calls[1].node # NULL /\ ~(calls[1].next <= n)
    BY <1>2, <1>4 DEF MoreToTake
  <2>2. 1 \in DOMAIN calls
    BY <1>4
  <2>3. calls[1].node \in Kept /\ calls[1].next \in 1..(n+1)
    BY <1>1, <2>1, <2>2 DEF CallsHold
  <2>4. heap[calls[1].node].subnodes \in Seq(Addr)
    BY <1>1, <2>3, KeptAre DEF HeapHolds, NodeRec
  <2>5. n \in Nat
    BY <2>4, LenProperties
  <2>6. Ahead(1) = calls[1].next..n
    BY DEF Ahead
  <2> HIDE DEF n
  <2>7. Ahead(1) = {}
    BY <2>1, <2>3, <2>5, <2>6
  <2> QED BY <2>1, <2>7
<1>7. \A k \in DOMAIN calls : k # 1 => calls[k].node # NULL
  <2> SUFFICES ASSUME NEW k \in DOMAIN calls, k # 1, calls[k].node = NULL PROVE FALSE
    OBVIOUS
  <2>1. Len(calls) = 1
    BY <1>1 DEF CallsHold
  <2> QED BY <1>4, <2>1
<1>8. \A k \in DOMAIN calls' : Ahead(k)' = Ahead(k+1)
  BY <1>2, <1>5 DEF Ahead
<1>9. \A k \in DOMAIN calls' : k+1 # 1 /\ k \in Nat
  BY <1>4, <1>5
<1>10. CallsHold'
  <2>1. calls' \in Seq(CallRec)
    BY <1>2, <1>4
  <2>2. ASSUME NEW k \in DOMAIN calls'
        PROVE  /\ calls'[k].node # NULL /\ calls'[k].node \in Kept'
               /\ calls'[k].next \in 1..(Len(heap'[calls'[k].node].subnodes) + 1)
               /\ \A i \in Ahead(k)' : heap'[calls'[k].node].subnodes[i] \in Untaken'
    <3> DEFINE j == k+1
    <3>1. j \in DOMAIN calls /\ calls'[k] = calls[j] /\ Ahead(k)' = Ahead(j) /\ calls[j].node # NULL
      BY <1>5, <1>7, <1>8, <1>9, <2>2
    <3> HIDE DEF j
    <3> QED BY <1>1, <1>2, <1>3, <3>1 DEF CallsHold
  <2>3. \A j, k \in DOMAIN calls' : calls'[j].node = calls'[k].node => j = k
    <3> SUFFICES ASSUME NEW j \in DOMAIN calls', NEW k \in DOMAIN calls',
                        calls'[j].node = calls'[k].node
                 PROVE  j = k
      OBVIOUS
    <3>1. j+1 = k+1
      BY <1>1, <1>5 DEF CallsHold
    <3> QED BY <1>9, <3>1
  <2> QED BY <2>1, <2>2, <2>3 DEF CallsHold
<1>11. AllReached'
  <2> SUFFICES ASSUME NEW u \in Untaken PROVE UnderUntaken(u)' \/ AheadOfCall(u)'
    BY <1>3 DEF AllReached
  <2>1. CASE UnderUntaken(u)
    BY <1>2, <1>3, <2>1 DEF UnderUntaken
  <2>2. CASE AheadOfCall(u)
    <3>1. PICK k \in DOMAIN calls :
            IF calls[k].node = NULL THEN calls[k].next = u
            ELSE \E i \in Ahead(k) : heap[calls[k].node].subnodes[i] = u
      BY <2>2 DEF AheadOfCall
    <3>2. k # 1
      BY <1>6, <3>1
    <3> DEFINE j == k-1
    <3>3. j \in DOMAIN calls' /\ calls'[j] = calls[k] /\ calls[k].node # NULL /\ j+1 = k
      BY <1>4, <1>5, <1>7, <3>1, <3>2
    <3> HIDE DEF j
    <3>4. Ahead(j)' = Ahead(k)
      BY <1>8, <3>3
    <3> QED BY <1>2, <3>1, <3>3, <3>4 DEF AheadOfCall
  <2> QED BY <1>1, <2>1, <2>2 DEF AllReached
<1>12. ListsHold' /\ HeapHolds'
  BY <1>1, <1>2, <1>3 DEF ListsHold, HeapHolds
<1>13. Deep'
  BY <1>1, <1>2, <1>3 DEF Deep, IsDepth
<1> QED BY <1>10, <1>11, <1>12, <1>13 DEF OwnInv

(* The empty store.                                                        *)
Empty == Live = {} /\ lists = [id \in Ids |-> <<>>] /\ seen = <<>> /\ calls = <<>>

LEMMA EmptyOwnInv == Empty => OwnInv
<1> SUFFICES ASSUME Empty PROVE OwnInv
  OBVIOUS
<1> USE DEF Empty
<1>1. Kept = {} /\ Untaken = {}
  BY DEF Kept, Untaken, Range
<1>2. ListsHold
  <2>1. <<>> \in Seq(Addr) /\ DOMAIN <<>> = {}
    BY EmptySeq
  <2>2. lists \in [Ids -> Seq(Addr)]
    BY <2>1
  <2>3. \A id \in Ids : DOMAIN lists[id] = {}
    BY <2>1
  <2> QED BY <2>1, <2>2, <2>3 DEF ListsHold
<1>3. HeapHolds
  BY <1>1 DEF HeapHolds
<1>4. CallsHold
  <2>1. <<>> \in Seq(CallRec) /\ DOMAIN <<>> = {}
    BY EmptySeq
  <2> QED BY <2>1 DEF CallsHold
<1>5. AllReached
  BY <1>1 DEF AllReached
<1>6. Deep
  <2>1. [u \in Untaken |-> 0] \in [Untaken -> 0..MaxNodes] /\ IsDepth([u \in Untaken |-> 0])
    BY <1>1 DEF IsDepth
  <2> QED BY <2>1 DEF Deep
<1> QED BY <1>2, <1>3, <1>4, <1>5, <1>6 DEF OwnInv

-----------------------------------------------------------------------------
(* The nodes of a clone, at addresses that were free.                      *)
Nodes == [id : Ids, val : Vals, depth : Nat]

LEMMA InputNodes ==
  ASSUME NEW t \in Inputs
  PROVE  /\ IsTree(t) /\ t \in Seq(Nodes) /\ NodeSet(Nodes) /\ Len(t) \in Nat \ {0}
         /\ DOMAIN t = 1..Len(t)
         /\ \A k \in 1..Len(t) : /\ t[k].id \in Ids /\ t[k].val \in Vals
                                 /\ t[k].depth \in 0..MaxNodes
<1> DEFINE N == [id : Ids, val : Vals, depth : 0..MaxNodes]
<1>1. IsTree(t) /\ t \in Seq(N)
  BY Constants
<1>2. \A k \in 1..Len(t) : t[k] \in N
  BY <1>1, ElementOfSeq
<1>3. N \subseteq Nodes
  BY Constants DEF Nodes
<1>4. t \in Seq(Nodes)
  BY <1>1, <1>3, SeqMonotonic
<1>5. NodeSet(Nodes)
  BY DEF NodeSet, Nodes, AtDepth
<1>6. Len(t) \in Nat \ {0} /\ DOMAIN t = 1..Len(t)
  BY <1>1, LenProperties DEF IsTree
<1> QED BY <1>1, <1>2, <1>4, <1>5, <1>6

Cloned(t, at, h) ==
  /\ \A k \in 1..Len(t) : at[k] \in Addr \ Live
  /\ \A j, k \in 1..Len(t) : at[j] = at[k] => j = k
  /\ DOMAIN h = Live \cup {at[k] : k \in 1..Len(t)}
  /\ \A a \in Live : h[a] = heap[a]
  /\ \A k \in 1..Len(t) :
       /\ h[at[k]] \in NodeRec /\ h[at[k]].id = t[k].id /\ h[at[k]].val = t[k].val
       /\ h[at[k]].parent = IF k = 1 THEN NULL ELSE at[ParentOf(t, k)]
       /\ Len(h[at[k]].subnodes) = Cardinality(Children(t, k))
       /\ DOMAIN h[at[k]].subnodes = 1..Cardinality(Children(t, k))
       /\ \A i \in 1..Cardinality(Children(t, k)) :
            h[at[k]].subnodes[i] = at[Ascending(Children(t, k))[i]]

LEMMA CloneIs ==
  ASSUME HeapHolds, NEW t \in Inputs, Cardinality(Addr \ Live) >= Len(t)
  PROVE  Cloned(t, Ascending(Addr \ Live), Clone(t))
<1> DEFINE free == Addr \ Live
           at == Ascending(free)
           n == Len(t)
           kids(k) == Ascending(Children(t, k))
           node(k) == [id |-> t[k].id, val |-> t[k].val,
                       parent |-> IF k = 1 THEN NULL ELSE at[ParentOf(t, k)],
                       subnodes |-> [i \in DOMAIN kids(k) |-> at[kids(k)[i]]]]
<1>1. /\ IsTree(t) /\ t \in Seq(Nodes) /\ NodeSet(Nodes) /\ n \in Nat \ {0} /\ DOMAIN t = 1..n
      /\ \A k \in 1..n : t[k].id \in Ids /\ t[k].val \in Vals
  BY InputNodes
<1>2. free \in SUBSET Nat /\ IsFiniteSet(free) /\ Cardinality(free) \in Nat
  <2>1. free \in SUBSET Nat /\ IsFiniteSet(free)
    BY Constants, FS_Subset
  <2> QED BY <2>1, FS_CardinalityType
<1>3. \A k \in 1..n : k \in 1..Cardinality(free)
  BY <1>1, <1>2
<1>4. \A k \in 1..n : at[k] \in free
  <2>1. \A k \in 1..Cardinality(free) : at[k] \in free
    BY <1>2, AscendingMembers
  <2> HIDE DEF at
  <2> QED BY <1>3, <2>1
<1>5. \A j, k \in 1..n : at[j] = at[k] => j = k
  <2>1. \A j, k \in 1..Cardinality(free) : j < k <=> at[j] < at[k]
    BY <1>2, AscendingOrder
  <2> SUFFICES ASSUME NEW j \in 1..n, NEW k \in 1..n, at[j] = at[k] PROVE j = k
    OBVIOUS
  <2>2. at[j] \in Nat /\ at[k] \in Nat
    BY <1>2, <1>4
  <2> HIDE DEF at
  <2>3. (j < k <=> at[j] < at[k]) /\ (k < j <=> at[k] < at[j])
    BY <1>3, <2>1
  <2>4. \A x \in Nat : ~(x < x)
    OBVIOUS
  <2>5. ~(j < k) /\ ~(k < j)
    BY <2>2, <2>3, <2>4
  <2> QED BY <1>1, <2>5
<1>6. Clone(t) = [a \in Live \cup {at[k] : k \in DOMAIN t} |->
                    IF a \in Live THEN heap[a] ELSE node(CHOOSE k \in DOMAIN t : at[k] = a)]
  BY DEF Clone
<1>7. ASSUME NEW k \in 1..n
      PROVE  /\ kids(k) \in Seq(Children(t, k)) /\ Len(kids(k)) = Cardinality(Children(t, k))
             /\ Cardinality(Children(t, k)) \in Nat
             /\ DOMAIN kids(k) = 1..Cardinality(Children(t, k))
             /\ \A i \in 1..Cardinality(Children(t, k)) : kids(k)[i] \in 2..n
  <2>1. Children(t, k) \in SUBSET Nat /\ IsFiniteSet(Children(t, k))
    BY <1>1, <1>7, ChildrenFinite
  <2>2. /\ kids(k) \in Seq(Children(t, k)) /\ Len(kids(k)) = Cardinality(Children(t, k))
        /\ \A i \in 1..Cardinality(Children(t, k)) : kids(k)[i] \in Children(t, k)
    BY <2>1, AscendingMembers
  <2>3. \A c \in Children(t, k) : c \in 2..n
    BY <1>1, <1>7, ChildrenAre
  <2> HIDE DEF kids
  <2> QED BY <2>1, <2>2, <2>3, FS_CardinalityType, LenProperties
<1>8. ASSUME NEW k \in 1..n
      PROVE  /\ at[k] \notin Live /\ at[k] \in DOMAIN Clone(t) /\ Clone(t)[at[k]] = node(k)
  <2>1. at[k] \notin Live /\ k \in DOMAIN t
    BY <1>1, <1>4, <1>8
  <2>2. (CHOOSE j \in DOMAIN t : at[j] = at[k]) = k
    <3> HIDE DEF at
    <3> QED BY <1>1, <1>5, <1>8
  <2> HIDE DEF at, node
  <2> QED BY <1>6, <2>1, <2>2
<1>9. ASSUME NEW k \in 1..n
      PROVE  /\ node(k) \in NodeRec /\ node(k).id = t[k].id /\ node(k).val = t[k].val
             /\ node(k).parent = IF k = 1 THEN NULL ELSE at[ParentOf(t, k)]
             /\ Len(node(k).subnodes) = Cardinality(Children(t, k))
             /\ DOMAIN node(k).subnodes = 1..Cardinality(Children(t, k))
             /\ \A i \in 1..Cardinality(Children(t, k)) : node(k).subnodes[i] = at[kids(k)[i]]
  <2> DEFINE sub == [i \in DOMAIN kids(k) |-> at[kids(k)[i]]]
             m == Cardinality(Children(t, k))
             par == IF k = 1 THEN NULL ELSE at[ParentOf(t, k)]
  <2>1. m \in Nat /\ DOMAIN kids(k) = 1..m /\ \A i \in 1..m : kids(k)[i] \in 2..n
    BY <1>7, <1>9
  <2>2. \A i \in 1..m : at[kids(k)[i]] \in Addr
    <3>1. \A c \in 2..n : c \in 1..n
      BY <1>1
    <3> HIDE DEF at, kids
    <3> QED BY <1>4, <2>1, <3>1
  <2>3. sub \in [1..m -> Addr] /\ \A i \in 1..m : sub[i] = at[kids(k)[i]]
    <3> HIDE DEF at, kids, m
    <3> QED BY <2>1, <2>2
  <2>4. sub \in Seq(Addr) /\ Len(sub) = m /\ DOMAIN sub = 1..m
    <3> HIDE DEF sub, m
    <3> QED BY <2>1, <2>3
  <2>5. par \in Addr \cup {NULL}
    <3>1. CASE k = 1
      BY <3>1
    <3>2. CASE k # 1
      <4>1. k \in 2..n
        BY <1>1, <1>9, <3>2
      <4>2. ParentOf(t, k) \in 1..(k-1)
        BY <1>1, <4>1, ParentExists
      <4>3. ParentOf(t, k) \in 1..n
        BY <1>1, <4>1, <4>2
      <4> HIDE DEF at
      <4> QED BY <1>4, <3>2, <4>3
    <3> QED BY <3>1, <3>2
  <2>6. node(k) = [id |-> t[k].id, val |-> t[k].val, parent |-> par, subnodes |-> sub]
    OBVIOUS
  <2> HIDE DEF node, par, sub, m
  <2>7. node(k) \in NodeRec /\ node(k).id = t[k].id /\ node(k).val = t[k].val
        /\ node(k).parent = par /\ node(k).subnodes = sub
    BY <1>1, <1>9, <2>4, <2>5, <2>6 DEF NodeRec
  <2> QED BY <2>3, <2>4, <2>7 DEF par, m
<1>10. DOMAIN Clone(t) = Live \cup {at[k] : k \in 1..n} /\ \A a \in Live : Clone(t)[a] = heap[a]
  <2> HIDE DEF at, node
  <2> QED BY <1>1, <1>6
<1> HIDE DEF node
<1>11. ASSUME NEW k \in 1..n
       PROVE  LET b == Clone(t)[at[k]] IN
              /\ b \in NodeRec /\ b.id = t[k].id /\ b.val = t[k].val
              /\ b.parent = IF k = 1 THEN NULL ELSE at[ParentOf(t, k)]
              /\ Len(b.subnodes) = Cardinality(Children(t, k))
              /\ DOMAIN b.subnodes = 1..Cardinality(Children(t, k))
              /\ \A i \in 1..Cardinality(Children(t, k)) :
                   b.subnodes[i] = at[Ascending(Children(t, k))[i]]
  <2>1. Clone(t)[at[k]] = node(k)
    BY <1>8, <1>11
  <2>2. /\ node(k) \in NodeRec /\ node(k).id = t[k].id /\ node(k).val = t[k].val
        /\ node(k).parent = IF k = 1 THEN NULL ELSE at[ParentOf(t, k)]
        /\ Len(node(k).subnodes) = Cardinality(Children(t, k))
        /\ DOMAIN node(k).subnodes = 1..Cardinality(Children(t, k))
        /\ \A i \in 1..Cardinality(Children(t, k)) :
             node(k).subnodes[i] = at[Ascending(Children(t, k))[i]]
    BY <1>9, <1>11
  <2> HIDE DEF at
  <2> QED BY <2>1, <2>2
<1> HIDE DEF at, free
<1>12. Cloned(t, at, Clone(t))
  BY <1>4, <1>5, <1>10, <1>11 DEF Cloned, free
<1> QED BY <1>12 DEF at, free

LEMMA AddOwnInv ==
  ASSUME OwnInv, NEW t \in Inputs, AddTree(t)
  PROVE  OwnInv'
<1> DEFINE free == Addr \ Live
           at == Ascending(free)
           n == Len(t)
           kids(k) == Ascending(Children(t, k))
           count(k) == Cardinality(Children(t, k))
<1>1. /\ ListsHold /\ HeapHolds /\ calls = <<>> /\ Cardinality(free) >= n /\ heap' = Clone(t)
      /\ calls' = <<[node |-> NULL, next |-> Min(free)]>> /\ UNCHANGED <<lists, seen>>
  BY DEF OwnInv, AddTree
<1>2. Untaken = {} /\ Live = Kept /\ Kept' = Kept
  BY <1>1, NothingUntaken DEF Kept
<1>3. /\ IsTree(t) /\ t \in Seq(Nodes) /\ NodeSet(Nodes) /\ n \in Nat \ {0}
      /\ \A k \in 1..n : t[k].depth \in 0..MaxNodes
  BY InputNodes
<1>4. Cloned(t, at, heap')
  BY <1>1, CloneIs
<1>5. Min(free) = at[1]
  <2>1. free \in SUBSET Nat /\ IsFiniteSet(free) /\ Cardinality(free) \in Nat
    <3>1. free \in SUBSET Nat /\ IsFiniteSet(free)
      BY Constants, FS_Subset
    <3> QED BY <3>1, FS_CardinalityType
  <2>2. 1 \in 1..Cardinality(free) /\ \A j \in 1..Cardinality(free) : j # 1 => 1 < j
    BY <1>1, <1>3, <2>1
  <2>3. /\ \A c \in free : \E k \in 1..Cardinality(free) : at[k] = c
        /\ \A j, k \in 1..Cardinality(free) : j < k <=> at[j] < at[k]
        /\ at[1] \in free
    BY <2>1, <2>2, AscendingOrder, AscendingMembers
  <2> HIDE DEF at, free
  <2>4. \A c \in free : at[1] <= c
    <3> SUFFICES ASSUME NEW c \in free PROVE at[1] <= c
      OBVIOUS
    <3>1. PICK k \in 1..Cardinality(free) : at[k] = c
      BY <2>3
    <3>2. k = 1 \/ at[1] < c
      BY <2>2, <2>3, <3>1
    <3>3. at[1] \in Nat /\ c \in Nat
      BY <2>1, <2>3
    <3> QED BY <3>1, <3>2, <3>3
  <2>5. ASSUME NEW c \in free, \A d \in free : c <= d PROVE c = at[1]
    <3>1. c <= at[1] /\ at[1] <= c /\ c \in Nat /\ at[1] \in Nat
      BY <2>1, <2>3, <2>4, <2>5
    <3> QED BY <3>1
  <2> QED BY <2>3, <2>4, <2>5 DEF Min
<1> HIDE DEF at, free
<1>6. /\ \A k \in 1..n : at[k] \in Addr \ Live
      /\ \A j, k \in 1..n : at[j] = at[k] => j = k
      /\ Live' = Live \cup {at[k] : k \in 1..n}
      /\ \A a \in Live : heap'[a] = heap[a]
  BY <1>4 DEF Cloned, Live
<1>7. Untaken' = {at[k] : k \in 1..n}
  BY <1>2, <1>6 DEF Untaken
<1>8. ASSUME NEW k \in 1..n
      PROVE  /\ heap'[at[k]] \in NodeRec
             /\ heap'[at[k]].parent = IF k = 1 THEN NULL ELSE at[ParentOf(t, k)]
             /\ DOMAIN heap'[at[k]].subnodes = 1..count(k)
             /\ \A i \in 1..count(k) : heap'[at[k]].subnodes[i] = at[kids(k)[i]]
  BY <1>4, <1>8 DEF Cloned
<1>9. ASSUME NEW k \in 1..n
      PROVE  /\ \A i \in 1..count(k) : kids(k)[i] \in 2..n /\ ParentOf(t, kids(k)[i]) = k
             /\ \A c \in 2..n : ParentOf(t, c) = k => \E i \in 1..count(k) : kids(k)[i] = c
             /\ \A i, j \in 1..count(k) : kids(k)[i] = kids(k)[j] => i = j
  <2>1. Children(t, k) \in SUBSET Nat /\ IsFiniteSet(Children(t, k))
    BY <1>3, <1>9, ChildrenFinite
  <2>2. \A i \in 1..count(k) : kids(k)[i] \in Children(t, k)
    BY <2>1, AscendingMembers
  <2>3. /\ \A c \in Children(t, k) : \E i \in 1..count(k) : kids(k)[i] = c
        /\ \A i, j \in 1..count(k) : i < j <=> kids(k)[i] < kids(k)[j]
    BY <2>1, AscendingOrder
  <2>4. \A c : c \in Children(t, k) <=> c \in 2..n /\ ParentOf(t, c) = k
    BY <1>3, <1>9, ChildrenAre
  <2>5. \A i, j \in 1..count(k) : kids(k)[i] = kids(k)[j] => i = j
    <3> SUFFICES ASSUME NEW i \in 1..count(k), NEW j \in 1..count(k), kids(k)[i] = kids(k)[j]
                 PROVE  i = j
      OBVIOUS
    <3>1. kids(k)[i] \in Nat /\ kids(k)[j] \in Nat
      BY <2>1, <2>2
    <3>2. \A x \in Nat : ~(x < x)
      OBVIOUS
    <3>3. ~(i < j) /\ ~(j < i)
      BY <2>3, <3>1, <3>2
    <3>4. count(k) \in Nat
      BY <2>1, FS_CardinalityType
    <3> HIDE DEF count, kids
    <3> QED BY <3>3, <3>4
  <2> HIDE DEF kids, count
  <2> QED BY <2>2, <2>3, <2>4, <2>5
<1>10. \A k \in 2..n : ParentOf(t, k) \in 1..(k-1) /\ ParentOf(t, k) \in 1..n /\ k \in 1..n
                       /\ IsParent(t, ParentOf(t, k), k)
  <2> SUFFICES ASSUME NEW k \in 2..n
               PROVE  ParentOf(t, k) \in 1..(k-1) /\ ParentOf(t, k) \in 1..n /\ k \in 1..n
                      /\ IsParent(t, ParentOf(t, k), k)
    OBVIOUS
  <2>1. ParentOf(t, k) \in 1..(k-1) /\ IsParent(t, ParentOf(t, k), k)
    BY <1>3, ParentExists
  <2> QED BY <1>3, <2>1
<1> HIDE DEF kids, count, n
<1>11. 1 \in 1..n /\ \A k \in 1..n : k # 1 => k \in 2..n
  BY <1>3
<1>12. NULL \notin Addr
  BY Constants DEF NULL
<1>13. ListsHold'
  BY <1>1, <1>2, <1>6 DEF ListsHold
<1>14. HeapHolds'
  <2>1. Live' \subseteq Addr /\ \A a \in Live' : heap'[a] \in NodeRec
    BY <1>1, <1>6, <1>8 DEF HeapHolds
  <2>2. \A a \in Live' : heap'[a].parent \in Live' \cup {NULL}
    <3>1. \A a \in Live : heap'[a].parent \in Live' \cup {NULL}
      BY <1>1, <1>6 DEF HeapHolds
    <3>2. \A k \in 1..n : heap'[at[k]].parent \in Live' \cup {NULL}
      BY <1>6, <1>8, <1>10, <1>11
    <3> QED BY <1>6, <3>1, <3>2
  <2>3. \A a \in Kept : heap'[a].parent \in Kept \cup {NULL}
    BY <1>1, <1>2, <1>6 DEF HeapHolds
  <2>4. ASSUME NEW a \in Live, NEW i \in DOMAIN heap'[a].subnodes
        PROVE  heap'[a].subnodes[i] \in Live /\ heap'[a].subnodes[i] \notin Untaken' /\ a \notin Untaken'
    <3>1. heap'[a] = heap[a] /\ heap[a].subnodes[i] \in Live
      BY <1>1, <1>6, <2>4 DEF HeapHolds
    <3> QED BY <1>2, <3>1 DEF Untaken
  <2>5. ASSUME NEW k \in 1..n, NEW i \in DOMAIN heap'[at[k]].subnodes
        PROVE  LET s == heap'[at[k]].subnodes[i] IN
               /\ s \in Untaken' /\ heap'[s].parent = at[k]
               /\ \A j \in DOMAIN heap'[at[k]].subnodes : heap'[at[k]].subnodes[j] = s => j = i
    <3>1. i \in 1..count(k) /\ heap'[at[k]].subnodes[i] = at[kids(k)[i]]
      BY <1>8, <2>5
    <3>2. kids(k)[i] \in 2..n /\ kids(k)[i] \in 1..n /\ ParentOf(t, kids(k)[i]) = k
      BY <1>9, <1>10, <2>5, <3>1
    <3>3. at[kids(k)[i]] \in Untaken'
      BY <1>7, <3>2
    <3>4. heap'[at[kids(k)[i]]].parent = at[k]
      <4>1. kids(k)[i] # 1
        BY <1>3, <3>2
      <4> QED BY <1>8, <3>2, <4>1
    <3>5. ASSUME NEW j \in DOMAIN heap'[at[k]].subnodes,
                 heap'[at[k]].subnodes[j] = at[kids(k)[i]]
          PROVE  j = i
      <4>1. j \in 1..count(k) /\ at[kids(k)[j]] = at[kids(k)[i]] /\ kids(k)[j] \in 1..n
        BY <1>8, <1>9, <1>10, <2>5, <3>5
      <4>2. kids(k)[j] = kids(k)[i]
        BY <1>6, <3>2, <4>1
      <4> QED BY <1>9, <2>5, <3>1, <4>1, <4>2
    <3> QED BY <3>1, <3>3, <3>4, <3>5
  <2>6. ASSUME NEW a \in Live', NEW i \in DOMAIN heap'[a].subnodes
        PROVE  LET s == heap'[a].subnodes[i] IN
               /\ s \in Live'
               /\ a \in Untaken' => s \in Untaken'
               /\ s \in Untaken' => /\ heap'[s].parent = a
                                    /\ \A j \in DOMAIN heap'[a].subnodes :
                                         heap'[a].subnodes[j] = s => j = i
    <3>1. CASE a \in Live
      BY <1>6, <2>4, <2>6, <3>1
    <3>2. CASE a \notin Live
      <4>1. PICK k \in 1..n : a = at[k]
        BY <1>6, <2>6, <3>2
      <4>2. Untaken' \subseteq Live'
        BY DEF Untaken
      <4> QED BY <2>5, <2>6, <4>1, <4>2
    <3> QED BY <3>1, <3>2
  <2> QED BY <1>2, <2>1, <2>2, <2>3, <2>6 DEF HeapHolds
<1>15. /\ calls' \in Seq(CallRec) /\ Len(calls') = 1 /\ DOMAIN calls' = {1}
       /\ calls'[1].node = NULL /\ calls'[1].next = at[1]
  <2> DEFINE c == [node |-> NULL, next |-> at[1]]
  <2>1. c \in CallRec /\ c.node = NULL /\ c.next = at[1]
    BY <1>6, <1>11, Constants DEF CallRec
  <2> HIDE DEF c
  <2>2. calls' = <<c>>
    BY <1>1, <1>5 DEF c
  <2> QED BY <2>1, <2>2
<1>16. CallsHold'
  <2>1. at[1] \in Untaken' /\ heap'[at[1]].parent = NULL
    BY <1>7, <1>8, <1>11
  <2> QED BY <1>15, <2>1 DEF CallsHold
<1>17. AllReached'
  <2> SUFFICES ASSUME NEW u \in Untaken'
               PROVE  \/ /\ heap'[u].parent \in Untaken'
                         /\ \E i \in DOMAIN heap'[heap'[u].parent].subnodes :
                              heap'[heap'[u].parent].subnodes[i] = u
                      \/ calls'[1].next = u
    BY <1>15 DEF AllReached, UnderUntaken, AheadOfCall
  <2>1. PICK k \in 1..n : u = at[k]
    BY <1>7
  <2>2. CASE k = 1
    BY <1>15, <2>1, <2>2
  <2>3. CASE k # 1
    <3> DEFINE p == ParentOf(t, k)
    <3>1. k \in 2..n /\ p \in 1..n
      BY <1>10, <1>11, <2>3
    <3>2. PICK i \in 1..count(p) : kids(p)[i] = k
      BY <1>9, <3>1
    <3> HIDE DEF p
    <3>3. heap'[u].parent = at[p] /\ at[p] \in Untaken'
      BY <1>7, <1>8, <2>1, <2>3, <3>1 DEF p
    <3>4. i \in DOMAIN heap'[at[p]].subnodes /\ heap'[at[p]].subnodes[i] = u
      BY <1>8, <2>1, <3>1, <3>2
    <3> QED BY <3>3, <3>4
  <2> QED BY <2>2, <2>3
<1>18. Deep'
  <2> DEFINE index(u) == CHOOSE k \in 1..n : at[k] = u
             dep == [u \in Untaken' |-> t[index(u)].depth]
  <2>1. \A k \in 1..n : index(at[k]) = k
    BY <1>6
  <2> HIDE DEF index
  <2>2. \A k \in 1..n : at[k] \in Untaken' /\ dep[at[k]] = t[k].depth
    BY <1>7, <2>1
  <2>3. dep \in [Untaken' -> 0..MaxNodes]
    <3>1. \A u \in Untaken' : t[index(u)].depth \in 0..MaxNodes
      BY <1>3, <1>7, <2>1 DEF n
    <3> QED BY <3>1
  <2> HIDE DEF dep
  <2>4. ASSUME NEW u \in Untaken', NEW i \in DOMAIN heap'[u].subnodes
        PROVE  dep[heap'[u].subnodes[i]] = dep[u] + 1
    <3>1. PICK k \in 1..n : u = at[k]
      BY <1>7
    <3> DEFINE c == kids(k)[i]
    <3>2. i \in 1..count(k) /\ heap'[u].subnodes[i] = at[c]
      BY <1>8, <2>4, <3>1
    <3>3. c \in 2..n /\ ParentOf(t, c) = k
      BY <1>9, <3>2
    <3> HIDE DEF c
    <3>4. c \in 1..n /\ t[k].depth + 1 = t[c].depth
      BY <1>10, <3>3 DEF IsParent
    <3> QED BY <2>2, <3>1, <3>2, <3>4
  <2> QED BY <2>3, <2>4 DEF Deep, IsDepth
<1> QED BY <1>13, <1>14, <1>16, <1>17, <1>18 DEF OwnInv

-----------------------------------------------------------------------------
LEMMA ClearOwnInv ==
  ASSUME OwnInv, Clear
  PROVE  OwnInv'
<1>1. Live = Kept
  BY NothingUntaken DEF Clear
<1>2. heap' = [a \in {} |-> heap[a]]
  BY <1>1 DEF Clear, FreeAll, Live
<1>3. Empty'
  BY <1>2 DEF Clear, Live, Empty
<1> QED BY <1>3, EmptyOwnInv, PTL

LEMMA NextOwnInv ==
  ASSUME OwnInv, [Next]_vars
  PROVE  OwnInv'
<1>1. ASSUME NEW t \in Inputs, AddTree(t) PROVE OwnInv'
  BY <1>1, AddOwnInv
<1>2. CASE TakeDuplicate
  BY <1>2, DuplicateOwnInv
<1>3. CASE TakeNew
  BY <1>3, NewOwnInv
<1>4. CASE Return
  BY <1>4, ReturnOwnInv
<1>5. ASSUME NEW id \in Ids, GetAlternativeNode(id) PROVE OwnInv'
  <2>1. UNCHANGED <<heap, lists, seen, calls>>
    BY <1>5 DEF GetAlternativeNode
  <2> QED BY <2>1, UnchangedOwnInv
<1>6. CASE Clear
  BY <1>6, ClearOwnInv
<1>7. CASE UNCHANGED vars
  <2>1. UNCHANGED <<heap, lists, seen, calls>>
    BY <1>7 DEF vars
  <2> QED BY <2>1, UnchangedOwnInv
<1> QED BY <1>1, <1>2, <1>3, <1>4, <1>5, <1>6, <1>7 DEF Next, TakeNode

LEMMA OwnInvariance == Spec => []OwnInv
<1>1. Init => OwnInv
  <2> SUFFICES ASSUME Init PROVE OwnInv
    OBVIOUS
  <2>1. Empty
    BY DEF Init, Live, Empty
  <2> QED BY <2>1, EmptyOwnInv
<1>2. OwnInv /\ [Next]_vars => OwnInv'
  BY NextOwnInv
<1> QED BY <1>1, <1>2, PTL DEF Spec

-----------------------------------------------------------------------------
(* The heap, the lists, the hash map and the stack of calls hold what they *)
(* should, whatever trees are added, drawn from and cleared.               *)
THEOREM ChunkTypeOK == Spec => []TypeOK
<1>1. OwnInv => TypeOK
  <2> SUFFICES ASSUME OwnInv PROVE TypeOK
    OBVIOUS
  <2>1. ListsHold /\ HeapHolds /\ CallsHold
    BY DEF OwnInv
  <2>2. Kept \subseteq Live /\ Live \subseteq Addr
    BY <2>1, KeptAre DEF HeapHolds
  <2>3. \A h \in DOMAIN seen : seen[h] \in Addr
    BY <2>1, <2>2 DEF ListsHold
  <2>4. \A k \in DOMAIN calls :
          IF calls[k].node = NULL THEN calls[k].next \in Addr
          ELSE /\ calls[k].node \in Live
               /\ calls[k].next \in 1..(Len(heap[calls[k].node].subnodes) + 1)
    BY <2>1, <2>2 DEF CallsHold, Untaken
  <2> QED BY <2>1, <2>2, <2>3, <2>4 DEF TypeOK, ListsHold, HeapHolds
<1> QED BY <1>1, OwnInvariance, PTL

(* No pointer dangles, while a tree is taken and after: freeing a          *)
(* duplicate with all below it leaves no subnode, parent, list entry, hash *)
(* map entry or call that points into it.                                  *)
THEOREM ChunkNoDanglingPointer == Spec => []NoDanglingPointer
<1>1. OwnInv => NoDanglingPointer
  <2> SUFFICES ASSUME OwnInv PROVE NoDanglingPointer
    OBVIOUS
  <2>1. ListsHold /\ HeapHolds /\ CallsHold
    BY DEF OwnInv
  <2>2. Kept \subseteq Live /\ Range(seen) \subseteq Kept
    BY <2>1, KeptAre
  <2>3. \A a \in Live : Range(heap[a].subnodes) \subseteq Live /\ heap[a].parent \in Live \cup {NULL}
    BY <2>1 DEF HeapHolds, Range
  <2>4. \A k \in DOMAIN calls : calls[k].node \in Live \cup {NULL}
    BY <2>1, <2>2 DEF CallsHold
  <2> QED BY <2>2, <2>3, <2>4 DEF NoDanglingPointer
<1> QED BY <1>1, OwnInvariance, PTL

(* Between calls the lists hold each live node once, so clearing the store *)
(* frees every node exactly once: none leaks, none is freed twice.         *)
THEOREM ChunkFreedExactlyOnce == Spec => []FreedExactlyOnce
<1>1. OwnInv => FreedExactlyOnce
  <2> SUFFICES ASSUME OwnInv, calls = <<>>
               PROVE  /\ Live = Kept
                      /\ \A id \in Ids :
                           /\ \A i, j \in DOMAIN lists[id] : lists[id][i] = lists[id][j] => i = j
                           /\ \A i \in DOMAIN lists[id] : heap[lists[id][i]].id = id
    BY DEF FreedExactlyOnce
  <2>1. ListsHold /\ Live = Kept
    BY NothingUntaken DEF OwnInv
  <2> QED BY <2>1 DEF ListsHold
<1> QED BY <1>1, OwnInvariance, PTL

(* What freeing a duplicate frees is the clone's alone: nothing that a     *)
(* list or the hash map points to.                                         *)
THEOREM ChunkDuplicatesAreExclusive == Spec => []DuplicatesAreExclusive
<1>1. OwnInv => DuplicatesAreExclusive
  <2> SUFFICES ASSUME OwnInv, MoreToTake
               PROVE  Below(Pending) \cap (Kept \cup Range(seen)) = {}
    BY DEF DuplicatesAreExclusive
  <2>1. ListsHold /\ HeapHolds /\ CallsHold /\ Deep
    BY DEF OwnInv
  <2>2. Pending \in Untaken /\ Range(seen) \subseteq Kept
    BY <2>1, PendingIs, KeptAre DEF PendingFacts
  <2>3. Below(Pending) \subseteq Untaken
    BY <2>1, <2>2, BelowOwned DEF OwnSubtree
  <2> QED BY <2>2, <2>3 DEF Untaken
<1> QED BY <1>1, OwnInvariance, PTL

-----------------------------------------------------------------------------
(* FlattenSeq joins n sequences of elements of R one after the other.      *)
Joins(f, R, n, s) ==
  /\ f \in [0..n -> Seq(R)] /\ s \in [1..n -> Seq(R)]
  /\ f[0] = <<>> /\ \A i \in 1..n : f[i] = f[i-1] \o s[i]

LEMMA FlattenIs ==
  ASSUME NEW R, NEW n \in Nat, NEW s \in [1..n -> Seq(R)]
  PROVE  \E f : Joins(f, R, n, s) /\ FlattenSeq(s) = f[n]
<1> DEFINE Body(g) == [i \in 1..n |-> IF i = 1 THEN s[i] ELSE g[i-1] \o s[i]]
           F == CHOOSE g : g = Body(g)
           V == Seq(R)
           step == [p \in (1..n) \X V |-> p[2] \o s[p[1]]]
<1>1. s \in Seq(V) /\ Len(s) = n
  BY LenProperties
<1>2. IsStep(step, n, V)
  <2>1. \A i \in 1..n, v \in V : v \o s[i] \in V
    BY ConcatProperties
  <2> QED BY <2>1 DEF IsStep
<1>3. <<>> \in V
  OBVIOUS
<1>4. \A i \in 1..n, v \in V : step[<<i, v>>] = v \o s[i]
  OBVIOUS
<1> HIDE DEF step
<1>5. PICK f \in [0..n -> V] : Follows(f, step, n, <<>>)
  <2> HIDE DEF V
  <2> QED BY <1>2, <1>3, RecursionExists
<1>6. f[0] = <<>> /\ \A i \in 1..n : f[i] = f[i-1] \o s[i]
  <2>1. \A i \in 1..n : i-1 \in 0..n
    OBVIOUS
  <2> HIDE DEF V
  <2>2. \A i \in 1..n : f[i-1] \in V
    BY <1>5, <2>1
  <2> QED BY <1>4, <1>5, <2>2 DEF Follows
<1>7. \A i \in 1..n : f[i] = IF i = 1 THEN s[i] ELSE f[i-1] \o s[i]
  <2> SUFFICES ASSUME NEW i \in 1..n, i = 1 PROVE f[1] = s[1]
    BY <1>6
  <2>1. f[1] = f[0] \o s[1] /\ f[0] = <<>>
    <3>1. 1 \in 1..n /\ 1-1 = 0
      OBVIOUS
    <3>2. f[1] = f[1-1] \o s[1]
      BY <1>6, <3>1
    <3> QED BY <1>6, <3>1, <3>2
  <2>2. s[1] \in Seq(R)
    OBVIOUS
  <2> QED BY <2>1, <2>2, ConcatEmptySeq
<1>8. \E g : g = Body(g)
  <2>1. [i \in 1..n |-> f[i]] = Body([i \in 1..n |-> f[i]])
    <3> DEFINE g == [i \in 1..n |-> f[i]]
    <3>1. \A i \in 1..n : i # 1 => i-1 \in 1..n
      OBVIOUS
    <3>2. \A i \in 1..n : g[i] = IF i = 1 THEN s[i] ELSE g[i-1] \o s[i]
      BY <1>7, <3>1
    <3> QED BY <3>2
  <2> QED BY <2>1
<1>9. F = Body(F)
  <2> HIDE DEF Body
  <2> QED BY <1>8
<1>10. FlattenSeq(s) = IF n = 0 THEN s ELSE F[n]
  BY <1>1 DEF FlattenSeq
<1> HIDE DEF F
<1>11. \A i \in 1..n : F[i] = IF i = 1 THEN s[i] ELSE F[i-1] \o s[i]
  BY <1>9
<1> DEFINE G == {i \in 0..n : i # 0 => F[i] = f[i]}
<1>12. 0..n \subseteq G
  <2>1. 0 \in G
    OBVIOUS
  <2>2. ASSUME NEW i \in 1..n, i-1 \in G PROVE i \in G
    <3>1. F[i] = f[i]
      BY <1>7, <1>11, <2>2
    <3> QED BY <3>1
  <2> HIDE DEF G
  <2> QED BY <2>1, <2>2, NatClosed
<1>13. n # 0 => F[n] = f[n]
  BY <1>12
<1>14. n = 0 => s = <<>>
  OBVIOUS
<1>15. FlattenSeq(s) = f[n]
  BY <1>6, <1>10, <1>13, <1>14
<1> QED BY <1>5, <1>6, <1>15 DEF Joins

Joint(R, x, y, z) == x \in Seq(R) /\ y \in Seq(R) /\ z \in Seq(R) /\ z = x \o y

LEMMA JoinsStep ==
  ASSUME NEW R, NEW n \in Nat, NEW s, NEW f, Joins(f, R, n, s)
  PROVE  \A j \in 1..n : Joint(R, f[j-1], s[j], f[j])
<1> SUFFICES ASSUME NEW j \in 1..n PROVE Joint(R, f[j-1], s[j], f[j])
  OBVIOUS
<1>1. j-1 \in 0..n /\ j \in 0..n
  OBVIOUS
<1>2. f[j-1] \in Seq(R) /\ s[j] \in Seq(R) /\ f[j] \in Seq(R)
  BY <1>1, Zenon DEF Joins
<1>3. f[j] = f[j-1] \o s[j]
  BY DEF Joins
<1> QED BY <1>2, <1>3 DEF Joint

LEMMA JoinsLength ==
  ASSUME NEW R, NEW n \in Nat, NEW s, NEW f, Joins(f, R, n, s)
  PROVE  \A i \in 1..n : Len(s[i]) \in Nat /\ Len(s[i]) <= Len(f[n])
<1> DEFINE G == {j \in 0..n : \A i \in 1..j : Len(s[i]) <= Len(f[j])}
<1>1. ASSUME NEW j \in 1..n
      PROVE  /\ Len(s[j]) \in Nat /\ Len(f[j-1]) \in Nat
             /\ Len(f[j]) = Len(f[j-1]) + Len(s[j])
  <2>1. Joint(R, f[j-1], s[j], f[j])
    BY JoinsStep
  <2> QED BY <2>1, ConcatProperties, LenProperties DEF Joint
<1>2. 0 \in G
  OBVIOUS
<1>3. ASSUME NEW j \in 1..n, j-1 \in G PROVE j \in G
  <2>1. ASSUME NEW i \in 1..j PROVE Len(s[i]) <= Len(f[j])
    <3> DEFINE a == Len(f[j-1])
               b == Len(s[j])
    <3>1. a \in Nat /\ b \in Nat /\ Len(f[j]) = a + b
      BY <1>1
    <3>2. CASE i = j
      <4>1. Len(s[i]) = b
        BY <3>2
      <4> HIDE DEF a, b
      <4> QED BY <3>1, <4>1
    <3>3. CASE i # j
      <4>1. i \in 1..(j-1) /\ i \in 1..n
        BY <3>3
      <4>2. Len(s[i]) <= a /\ Len(s[i]) \in Nat
        BY <1>1, <1>3, <4>1
      <4> HIDE DEF a, b
      <4> QED BY <3>1, <4>2
    <3> QED BY <3>2, <3>3
  <2> QED BY <2>1
<1>4. 0..n \subseteq G
  <2> HIDE DEF G
  <2> QED BY <1>2, <1>3, NatClosed
<1>5. n \in G
  BY <1>4
<1> QED BY <1>1, <1>5

(* A function applied to each element of a sequence, and to each element   *)
(* of the sequences joined.                                                *)
Maps(m, R, Q) == m \in [R -> Q]
Mapped(m, x) == [k \in DOMAIN x |-> m[x[k]]]

LEMMA MappedConcat ==
  ASSUME NEW R, NEW Q, NEW m, Maps(m, R, Q), NEW x \in Seq(R), NEW y \in Seq(R)
  PROVE  /\ Mapped(m, x) \in Seq(Q) /\ Len(Mapped(m, x)) = Len(x)
         /\ Mapped(m, x \o y) = Mapped(m, x) \o Mapped(m, y)
<1>1. \A z \in Seq(R) : /\ Mapped(m, z) \in Seq(Q) /\ Len(Mapped(m, z)) = Len(z)
                        /\ Len(z) \in Nat
                        /\ \A k \in 1..Len(z) : Mapped(m, z)[k] = m[z[k]]
  <2> SUFFICES ASSUME NEW z \in Seq(R)
               PROVE  /\ Mapped(m, z) \in Seq(Q) /\ Len(Mapped(m, z)) = Len(z)
                      /\ Len(z) \in Nat
                      /\ \A k \in 1..Len(z) : Mapped(m, z)[k] = m[z[k]]
    OBVIOUS
  <2>1. Len(z) \in Nat /\ DOMAIN z = 1..Len(z) /\ \A k \in 1..Len(z) : z[k] \in R
    BY LenProperties, ElementOfSeq
  <2>2. Mapped(m, z) \in [1..Len(z) -> Q]
    BY <2>1 DEF Mapped, Maps
  <2>3. Mapped(m, z) \in Seq(Q) /\ Len(Mapped(m, z)) = Len(z)
    BY <2>1, <2>2, LenProperties
  <2> QED BY <2>1, <2>3 DEF Mapped
<1>2. /\ x \o y \in Seq(R) /\ Len(x \o y) = Len(x) + Len(y)
      /\ \A k \in 1..(Len(x) + Len(y)) :
           (x \o y)[k] = IF k <= Len(x) THEN x[k] ELSE y[k - Len(x)]
  BY ConcatProperties
<1>3. LET w == Mapped(m, x) \o Mapped(m, y) IN
      /\ w \in Seq(Q) /\ Len(w) = Len(x) + Len(y)
      /\ \A k \in 1..(Len(x) + Len(y)) :
           w[k] = IF k <= Len(x) THEN Mapped(m, x)[k] ELSE Mapped(m, y)[k - Len(x)]
  <2>1. /\ Mapped(m, x) \in Seq(Q) /\ Len(Mapped(m, x)) = Len(x)
        /\ Mapped(m, y) \in Seq(Q) /\ Len(Mapped(m, y)) = Len(y)
    BY <1>1
  <2> DEFINE mx == Mapped(m, x)
             my == Mapped(m, y)
  <2> HIDE DEF mx, my
  <2>2. /\ mx \o my \in Seq(Q) /\ Len(mx \o my) = Len(mx) + Len(my)
        /\ \A k \in 1..(Len(mx) + Len(my)) :
             (mx \o my)[k] = IF k <= Len(mx) THEN mx[k] ELSE my[k - Len(mx)]
    BY <2>1, ConcatProperties DEF mx, my
  <2> QED BY <2>1, <2>2 DEF mx, my
<1> DEFINE v == Mapped(m, x \o y)
           w == Mapped(m, x) \o Mapped(m, y)
<1>4. v \in Seq(Q) /\ Len(v) = Len(w)
  BY <1>1, <1>2, <1>3
<1>5. ASSUME NEW k \in 1..Len(v) PROVE v[k] = w[k]
  <2>1. k \in 1..(Len(x) + Len(y)) /\ v[k] = m[(x \o y)[k]]
    BY <1>1, <1>2, <1>5
  <2> HIDE DEF v, w
  <2>2. CASE k <= Len(x)
    BY <1>1, <1>2, <1>3, <2>1, <2>2 DEF w
  <2>3. CASE ~(k <= Len(x))
    <3>1. k - Len(x) \in 1..Len(y)
      BY <1>1, <2>1, <2>3
    <3> QED BY <1>1, <1>2, <1>3, <2>1, <2>3, <3>1 DEF w
  <2> QED BY <2>2, <2>3
<1>6. v = w
  <2> HIDE DEF v, w
  <2> QED BY <1>3, <1>4, <1>5, SeqEqual DEF w
<1> QED BY <1>1, <1>6

MapsEach(m, R, Q, n, s, u) ==
  /\ Maps(m, R, Q) /\ n \in Nat /\ s \in [1..n -> Seq(R)] /\ u \in [1..n -> Seq(Q)]
  /\ \A i \in 1..n : u[i] = Mapped(m, s[i])

LEMMA FlattenMaps ==
  ASSUME NEW R, NEW Q, NEW m, NEW n, NEW s, NEW u, MapsEach(m, R, Q, n, s, u)
  PROVE  FlattenSeq(u) = Mapped(m, FlattenSeq(s))
<1>0. /\ Maps(m, R, Q) /\ n \in Nat /\ s \in [1..n -> Seq(R)] /\ u \in [1..n -> Seq(Q)]
      /\ \A i \in 1..n : u[i] = Mapped(m, s[i])
  BY DEF MapsEach
<1>1. PICK f : Joins(f, R, n, s) /\ FlattenSeq(s) = f[n]
  BY <1>0, FlattenIs
<1>2. PICK g : Joins(g, Q, n, u) /\ FlattenSeq(u) = g[n]
  BY <1>0, FlattenIs
<1> DEFINE G == {j \in 0..n : g[j] = Mapped(m, f[j])}
<1>3. 0 \in G
  <2>1. f[0] = <<>> /\ g[0] = <<>>
    BY <1>1, <1>2 DEF Joins
  <2>2. Mapped(m, <<>>) = <<>>
    BY DEF Mapped
  <2> QED BY <1>0, <2>1, <2>2
<1>4. ASSUME NEW j \in 1..n, j-1 \in G PROVE j \in G
  <2>1. Joint(R, f[j-1], s[j], f[j])
    BY <1>0, <1>1, JoinsStep
  <2>2. Joint(Q, g[j-1], u[j], g[j])
    BY <1>0, <1>2, JoinsStep
  <2>3. Mapped(m, f[j-1] \o s[j]) = Mapped(m, f[j-1]) \o Mapped(m, s[j])
    BY <1>0, <2>1, MappedConcat DEF Joint
  <2>4. g[j-1] = Mapped(m, f[j-1]) /\ u[j] = Mapped(m, s[j]) /\ j \in 0..n
    BY <1>0, <1>4
  <2> QED BY <2>1, <2>2, <2>3, <2>4 DEF Joint
<1>5. 0..n \subseteq G
  <2> HIDE DEF G
  <2> QED BY <1>0, <1>3, <1>4, NatClosed
<1>6. n \in G
  BY <1>0, <1>5
<1> QED BY <1>1, <1>2, <1>6

-----------------------------------------------------------------------------
(* Contents and Hash for a heap h, which may be the one after a step.      *)
NodeOf(b) == [id |-> b.id, val |-> b.val, count |-> Len(b.subnodes)]
NodesOf(h) == {NodeOf(h[b]) : b \in DOMAIN h}

Shapes(h) ==
  LET c[n \in 0..MaxNodes] ==
        [b \in DOMAIN h |->
           <<[id |-> h[b].id, val |-> h[b].val, count |-> Len(h[b].subnodes)]>>
           \o (IF n = 0 THEN <<>>
               ELSE FlattenSeq([i \in DOMAIN h[b].subnodes |-> c[n-1][h[b].subnodes[i]]]))]
  IN  c

ContentsIn(h, a) == Shapes(h)[MaxNodes][a]
HashIn(h, a) == [k \in DOMAIN ContentsIn(h, a) |->
                   <<ContentsIn(h, a)[k].id, ContentsIn(h, a)[k].val>>]

LEMMA HeapBefore ==
  \A a : Contents(a) = ContentsIn(heap, a) /\ Hash(a) = HashIn(heap, a)
BY DEF Contents, Hash, ContentsIn, HashIn, Shapes, Live

HeapIs(h) ==
  \A b \in DOMAIN h : h[b].id \in Ids /\ h[b].val \in Vals /\ h[b].subnodes \in Seq(DOMAIN h)

(* What e gives for the subnodes of b, one after the other.                *)
Under(h, e, b) == [i \in DOMAIN h[b].subnodes |-> e[h[b].subnodes[i]]]

UnderFacts(h, e, b, R, n) ==
  /\ n \in Nat /\ DOMAIN h[b].subnodes = 1..n
  /\ Under(h, e, b) \in [1..n -> Seq(R)]
  /\ FlattenSeq(Under(h, e, b)) \in Seq(R)
  /\ \A i \in 1..n : /\ h[b].subnodes[i] \in DOMAIN h
                     /\ Under(h, e, b)[i] = e[h[b].subnodes[i]]
                     /\ Len(e[h[b].subnodes[i]]) \in Nat
                     /\ Len(e[h[b].subnodes[i]]) <= Len(FlattenSeq(Under(h, e, b)))

LEMMA UnderIs ==
  ASSUME NEW h, HeapIs(h), NEW R, NEW e \in [DOMAIN h -> Seq(R)], NEW b \in DOMAIN h
  PROVE  UnderFacts(h, e, b, R, Len(h[b].subnodes))
<1> DEFINE sub == h[b].subnodes
           n == Len(sub)
           s == Under(h, e, b)
<1>1. sub \in Seq(DOMAIN h)
  BY DEF HeapIs
<1>2. n \in Nat /\ DOMAIN sub = 1..n /\ \A i \in 1..n : sub[i] \in DOMAIN h
  <2> HIDE DEF sub
  <2> QED BY <1>1, LenProperties, ElementOfSeq
<1>3. s = [i \in 1..n |-> e[sub[i]]]
  BY <1>2 DEF Under
<1>4. s \in [1..n -> Seq(R)] /\ \A i \in 1..n : s[i] = e[sub[i]]
  <2>1. \A i \in 1..n : e[sub[i]] \in Seq(R)
    BY <1>2
  <2> HIDE DEF s, sub, n
  <2> QED BY <1>3, <2>1
<1> HIDE DEF s, sub, n
<1>5. PICK f : Joins(f, R, n, s) /\ FlattenSeq(s) = f[n]
  BY <1>2, <1>4, FlattenIs
<1>6. f[n] \in Seq(R)
  <2>1. n \in 0..n
    BY <1>2
  <2>2. f \in [0..n -> Seq(R)]
    BY <1>5 DEF Joins
  <2> QED BY <2>1, <2>2, Zenon
<1>7. \A i \in 1..n : Len(s[i]) \in Nat /\ Len(s[i]) <= Len(f[n])
  BY <1>2, <1>5, JoinsLength
<1>8. UnderFacts(h, e, b, R, n)
  BY <1>2, <1>4, <1>5, <1>6, <1>7 DEF UnderFacts, s, sub
<1> QED BY <1>8 DEF n, sub

LEMMA ShapesStep ==
  ASSUME NEW h, HeapIs(h)
  PROVE  /\ \A n \in 0..MaxNodes : Shapes(h)[n] \in [DOMAIN h -> Seq(NodesOf(h))]
         /\ \A b \in DOMAIN h : Shapes(h)[0][b] = <<NodeOf(h[b])>> \o <<>>
         /\ \A n \in 1..MaxNodes : \A b \in DOMAIN h :
              Shapes(h)[n][b] =
                <<NodeOf(h[b])>> \o FlattenSeq(Under(h, Shapes(h)[n-1], b))
<1> DEFINE Level(n, e) ==
             [b \in DOMAIN h |->
                <<[id |-> h[b].id, val |-> h[b].val, count |-> Len(h[b].subnodes)]>>
                \o (IF n = 0 THEN <<>>
                    ELSE FlattenSeq([i \in DOMAIN h[b].subnodes |-> e[h[b].subnodes[i]]]))]
           Body(d) == [n \in 0..MaxNodes |-> Level(n, d[n-1])]
           F == CHOOSE d : d = Body(d)
           R == NodesOf(h)
           V == [DOMAIN h -> Seq(R)]
<1>1. Shapes(h) = F
  BY DEF Shapes
<1>2. \A n, e : Level(n, e) = [b \in DOMAIN h |->
                                 <<NodeOf(h[b])>> \o (IF n = 0 THEN <<>>
                                                      ELSE FlattenSeq(Under(h, e, b)))]
  BY DEF NodeOf, Under
<1> HIDE DEF Level
<1>3. ASSUME NEW n, NEW e \in V PROVE Level(n, e) \in V
  <2> SUFFICES ASSUME NEW b \in DOMAIN h
               PROVE  <<NodeOf(h[b])>> \o (IF n = 0 THEN <<>>
                                           ELSE FlattenSeq(Under(h, e, b))) \in Seq(R)
    BY <1>2, Zenon
  <2>1. FlattenSeq(Under(h, e, b)) \in Seq(R)
    <3> HIDE DEF R
    <3>1. UnderFacts(h, e, b, R, Len(h[b].subnodes))
      BY <1>3, UnderIs
    <3> QED BY <3>1 DEF UnderFacts
  <2>2. NodeOf(h[b]) \in R
    BY DEF NodesOf
  <2> HIDE DEF R
  <2>3. <<NodeOf(h[b])>> \in Seq(R) /\ <<>> \in Seq(R)
    BY <2>2
  <2>4. (IF n = 0 THEN <<>> ELSE FlattenSeq(Under(h, e, b))) \in Seq(R)
    BY <2>1, <2>3
  <2> QED BY <2>3, <2>4, ConcatProperties
<1> DEFINE base == [b \in DOMAIN h |-> <<NodeOf(h[b])>> \o <<>>]
<1>4. \A e : Level(0, e) = base
  BY <1>2
<1>5. base \in V
  <2>1. [b \in DOMAIN h |-> <<>>] \in V
    OBVIOUS
  <2> HIDE DEF V, base
  <2> QED BY <1>3, <1>4, <2>1
<1> HIDE DEF V, base
<1>6. \E d : d \in [0..MaxNodes -> V] /\ d = Body(d)
  <2> DEFINE g == [p \in (1..MaxNodes) \X V |-> Level(p[1], p[2])]
  <2>1. IsStep(g, MaxNodes, V)
    BY <1>3 DEF IsStep
  <2>2. \A k \in 1..MaxNodes, v \in V : g[<<k, v>>] = Level(k, v)
    OBVIOUS
  <2> HIDE DEF g
  <2>3. PICK f \in [0..MaxNodes -> V] : Follows(f, g, MaxNodes, base)
    BY <1>5, <2>1, RecursionExists, Constants
  <2>4. \A n \in 0..MaxNodes : f[n] = Level(n, f[n-1])
    <3> TAKE n \in 0..MaxNodes
    <3>1. n # 0 => n \in 1..MaxNodes /\ n-1 \in 0..MaxNodes
      BY Constants
    <3>2. CASE n = 0
      BY <1>4, <2>3, <3>2 DEF Follows
    <3>3. CASE n # 0
      BY <2>2, <2>3, <3>1, <3>3 DEF Follows
    <3> QED BY <3>2, <3>3
  <2>5. f = Body(f)
    BY <2>3, <2>4
  <2> QED BY <2>5
<1>7. F = Body(F)
  <2> HIDE DEF Body
  <2> QED BY <1>6
<1> HIDE DEF F
<1>8. \A n \in 0..MaxNodes : F[n] = Level(n, F[n-1])
  BY <1>7
<1>9. 0 \in 0..MaxNodes /\ MaxNodes \in Nat
      /\ \A n \in 1..MaxNodes : n \in 0..MaxNodes /\ n # 0
  BY Constants
<1>10. 0..MaxNodes \subseteq {n \in 0..MaxNodes : F[n] \in V}
  <2>1. F[0] \in V
    BY <1>4, <1>5, <1>8, <1>9
  <2>2. \A n \in 1..MaxNodes : F[n-1] \in V => F[n] \in V
    BY <1>3, <1>8, <1>9
  <2> QED BY <1>9, <2>1, <2>2, NatClosed
<1>11. \A b \in DOMAIN h : F[0][b] = <<NodeOf(h[b])>> \o <<>>
  <2>1. F[0] = base
    BY <1>4, <1>8, <1>9
  <2> QED BY <2>1 DEF base
<1>12. \A n \in 1..MaxNodes : \A b \in DOMAIN h :
         F[n][b] = <<NodeOf(h[b])>> \o FlattenSeq(Under(h, F[n-1], b))
  <2> TAKE n \in 1..MaxNodes
  <2>1. F[n] = Level(n, F[n-1]) /\ n # 0
    BY <1>8, <1>9
  <2> QED BY <1>2, <2>1
<1>13. \A n \in 0..MaxNodes : F[n] \in V
  BY <1>10
<1> QED BY <1>1, <1>11, <1>12, <1>13 DEF V

-----------------------------------------------------------------------------
(* What hash_node is fed for each node, by the equation that it satisfies. *)
(* It bounds the levels of the recursion that are needed, so that the last *)
(* one is exact.                                                           *)
Pairs == Ids \X Vals
PairOf(b) == <<b.id, b.val>>

IsFlat(h, flat) ==
  /\ flat \in [DOMAIN h -> Seq(Pairs)]
  /\ \A b \in DOMAIN h : /\ flat[b] = <<PairOf(h[b])>> \o FlattenSeq(Under(h, flat, b))
                         /\ Len(flat[b]) <= MaxNodes

FlatFacts(h, flat, b) ==
  /\ UnderFacts(h, flat, b, Pairs, Len(h[b].subnodes))
  /\ <<PairOf(h[b])>> \in Seq(Pairs) /\ flat[b] \in Seq(Pairs)
  /\ Len(flat[b]) \in 1..MaxNodes
  /\ Len(flat[b]) = 1 + Len(FlattenSeq(Under(h, flat, b)))
  /\ \A i \in 1..Len(h[b].subnodes) : Len(flat[h[b].subnodes[i]]) < Len(flat[b])

LEMMA FlatIs ==
  ASSUME NEW h, HeapIs(h), NEW flat, IsFlat(h, flat), NEW b \in DOMAIN h
  PROVE  FlatFacts(h, flat, b)
<1> DEFINE s == FlattenSeq(Under(h, flat, b))
           n == Len(h[b].subnodes)
<1>1. UnderFacts(h, flat, b, Pairs, n)
  <2>1. flat \in [DOMAIN h -> Seq(Pairs)]
    BY DEF IsFlat
  <2> QED BY <2>1, UnderIs
<1>2. s \in Seq(Pairs) /\ \A i \in 1..n : /\ Len(flat[h[b].subnodes[i]]) \in Nat
                                          /\ Len(flat[h[b].subnodes[i]]) <= Len(s)
  BY <1>1 DEF UnderFacts
<1>3. PairOf(h[b]) \in Pairs
  BY DEF HeapIs, Pairs, PairOf
<1>4. flat[b] = <<PairOf(h[b])>> \o s /\ Len(flat[b]) <= MaxNodes
  BY DEF IsFlat
<1> DEFINE one == <<PairOf(h[b])>>
<1>5. one \in Seq(Pairs) /\ Len(one) = 1
  BY <1>3
<1> HIDE DEF s, one
<1>6. one \o s \in Seq(Pairs) /\ Len(one \o s) = 1 + Len(s) /\ Len(s) \in Nat
  BY <1>2, <1>5, ConcatProperties, LenProperties
<1>7. flat[b] \in Seq(Pairs) /\ Len(flat[b]) = 1 + Len(s) /\ Len(flat[b]) \in 1..MaxNodes
  BY <1>4, <1>6, Constants DEF one
<1>8. \A i \in 1..n : Len(flat[h[b].subnodes[i]]) < Len(flat[b])
  BY <1>2, <1>6, <1>7
<1> QED BY <1>1, <1>5, <1>7, <1>8 DEF FlatFacts, one, s

LEMMA HashUnique ==
  ASSUME NEW h, HeapIs(h), NEW flat, IsFlat(h, flat)
  PROVE  \A a \in DOMAIN h : /\ HashIn(h, a) = flat[a]
                             /\ ContentsIn(h, a) \in Seq(NodesOf(h))
<1> DEFINE R == NodesOf(h)
           m == [r \in R |-> <<r.id, r.val>>]
           c == Shapes(h)
           G == {n \in 0..MaxNodes : \A b \in DOMAIN h :
                   Len(flat[b]) <= n+1 => Mapped(m, c[n][b]) = flat[b]}
<1>1. Maps(m, R, Pairs)
  <2>1. \A r \in R : <<r.id, r.val>> \in Pairs
    BY DEF HeapIs, NodesOf, NodeOf, Pairs
  <2> QED BY <2>1 DEF Maps
<1>2. \A b \in DOMAIN h : NodeOf(h[b]) \in R /\ m[NodeOf(h[b])] = PairOf(h[b])
  BY DEF NodesOf, NodeOf, PairOf
<1>3. /\ \A n \in 0..MaxNodes : c[n] \in [DOMAIN h -> Seq(R)]
      /\ \A b \in DOMAIN h : c[0][b] = <<NodeOf(h[b])>> \o <<>>
      /\ \A n \in 1..MaxNodes : \A b \in DOMAIN h :
           c[n][b] = <<NodeOf(h[b])>> \o FlattenSeq(Under(h, c[n-1], b))
  BY ShapesStep
<1>4. \A b \in DOMAIN h : flat[b] = <<PairOf(h[b])>> \o FlattenSeq(Under(h, flat, b))
  BY DEF IsFlat
<1> HIDE DEF R, m, c
<1>5. ASSUME NEW b \in DOMAIN h
      PROVE  /\ <<NodeOf(h[b])>> \in Seq(R)
             /\ Mapped(m, <<NodeOf(h[b])>>) = <<PairOf(h[b])>>
  <2> DEFINE x == NodeOf(h[b])
             y == PairOf(h[b])
  <2>1. x \in R /\ m[x] = y
    BY <1>2
  <2> HIDE DEF x, y
  <2>2. Mapped(m, <<x>>) = <<y>>
    BY <2>1 DEF Mapped
  <2> QED BY <2>1, <2>2 DEF x, y
<1>6. 0 \in G
  <2> SUFFICES ASSUME NEW b \in DOMAIN h, Len(flat[b]) <= 0+1
               PROVE  Mapped(m, c[0][b]) = flat[b]
    BY Constants
  <2> DEFINE s == FlattenSeq(Under(h, flat, b))
             x == <<NodeOf(h[b])>>
             y == <<PairOf(h[b])>>
  <2>1. FlatFacts(h, flat, b)
    BY FlatIs
  <2>2. s \in Seq(Pairs) /\ Len(s) = 0 /\ y \in Seq(Pairs)
    <3>1. s \in Seq(Pairs) /\ Len(flat[b]) \in 1..MaxNodes /\ Len(flat[b]) = 1 + Len(s)
          /\ y \in Seq(Pairs)
      BY <2>1 DEF FlatFacts, UnderFacts
    <3> HIDE DEF s, y
    <3> QED BY <3>1, LenProperties, Constants
  <2>3. s = <<>> /\ flat[b] = y \o s
    BY <1>4, <2>2, EmptySeq
  <2>4. c[0][b] = x \o <<>> /\ x \in Seq(R) /\ Mapped(m, x) = y
    BY <1>3, <1>5
  <2> HIDE DEF s, x, y
  <2> QED BY <2>2, <2>3, <2>4, ConcatEmptySeq
<1>7. ASSUME NEW n \in 1..MaxNodes, n-1 \in G PROVE n \in G
  <2> SUFFICES ASSUME NEW b \in DOMAIN h, Len(flat[b]) <= n+1
               PROVE  Mapped(m, c[n][b]) = flat[b]
    BY Constants
  <2> DEFINE k == Len(h[b].subnodes)
             u == Under(h, flat, b)
             s == Under(h, c[n-1], b)
             x == <<NodeOf(h[b])>>
  <2>1. FlatFacts(h, flat, b) /\ UnderFacts(h, flat, b, Pairs, k)
    BY FlatIs DEF FlatFacts
  <2>2. c[n-1] \in [DOMAIN h -> Seq(R)]
    <3>1. n-1 \in 0..MaxNodes
      BY Constants
    <3> QED BY <1>3, <3>1
  <2>3. UnderFacts(h, c[n-1], b, R, k)
    BY <2>2, UnderIs
  <2>4. ASSUME NEW i \in 1..k PROVE u[i] = Mapped(m, s[i])
    <3> DEFINE z == h[b].subnodes[i]
    <3>1. z \in DOMAIN h /\ u[i] = flat[z] /\ s[i] = c[n-1][z] /\ Len(flat[z]) \in Nat
      BY <2>1, <2>3 DEF UnderFacts
    <3>2. Len(flat[z]) < Len(flat[b]) /\ Len(flat[b]) \in 1..MaxNodes
      BY <2>1 DEF FlatFacts
    <3>3. Len(flat[z]) <= (n-1)+1
      BY <3>1, <3>2, Constants
    <3> QED BY <1>7, <3>1, <3>3
  <2>5. k \in Nat /\ u \in [1..k -> Seq(Pairs)] /\ s \in [1..k -> Seq(R)]
        /\ FlattenSeq(s) \in Seq(R)
    BY <2>1, <2>3 DEF UnderFacts
  <2> HIDE DEF u, s, k
  <2>6. FlattenSeq(u) = Mapped(m, FlattenSeq(s))
    <3>1. MapsEach(m, R, Pairs, k, s, u)
      BY <1>1, <2>4, <2>5 DEF MapsEach
    <3> QED BY <3>1, FlattenMaps
  <2>7. c[n][b] = x \o FlattenSeq(s) /\ x \in Seq(R) /\ Mapped(m, x) = <<PairOf(h[b])>>
    BY <1>3, <1>5 DEF s
  <2>8. flat[b] = <<PairOf(h[b])>> \o FlattenSeq(u)
    BY <1>4 DEF u
  <2> HIDE DEF x
  <2>9. Mapped(m, x \o FlattenSeq(s)) = Mapped(m, x) \o Mapped(m, FlattenSeq(s))
    <3>1. x \in Seq(R)
      BY <2>7
    <3>2. FlattenSeq(s) \in Seq(R)
      BY <2>5
    <3> QED BY <1>1, <3>1, <3>2, MappedConcat
  <2> QED BY <2>6, <2>7, <2>8, <2>9
<1>8. MaxNodes \in G
  <2>1. 0..MaxNodes \subseteq G
    <3> HIDE DEF G
    <3> QED BY <1>6, <1>7, NatClosed, Constants
  <2> QED BY <2>1, Constants
<1> SUFFICES ASSUME NEW a \in DOMAIN h
             PROVE  HashIn(h, a) = flat[a] /\ ContentsIn(h, a) \in Seq(R)
  BY DEF R
<1>9. ContentsIn(h, a) = c[MaxNodes][a]
  BY DEF ContentsIn, c
<1>10. ContentsIn(h, a) \in Seq(R)
  <2>1. MaxNodes \in 0..MaxNodes
    BY Constants
  <2>2. c[MaxNodes] \in [DOMAIN h -> Seq(R)]
    BY <1>3, <2>1
  <2> QED BY <1>9, <2>2
<1>11. Mapped(m, ContentsIn(h, a)) = flat[a]
  <2>1. Len(flat[a]) <= MaxNodes + 1
    <3>1. FlatFacts(h, flat, a)
      BY FlatIs
    <3>2. Len(flat[a]) \in 1..MaxNodes
      BY <3>1 DEF FlatFacts
    <3> QED BY <3>2, Constants
  <2> QED BY <1>8, <1>9, <2>1
<1>12. Mapped(m, ContentsIn(h, a)) = HashIn(h, a)
  <2> DEFINE x == ContentsIn(h, a)
  <2>1. \A k \in DOMAIN x : x[k] \in R
    <3> HIDE DEF x
    <3> QED BY <1>10, LenProperties, ElementOfSeq DEF x
  <2>2. \A k \in DOMAIN x : m[x[k]] = <<x[k].id, x[k].val>>
    BY <2>1 DEF m
  <2> QED BY <2>2 DEF Mapped, HashIn
<1> QED BY <1>10, <1>11, <1>12

-----------------------------------------------------------------------------
(* The segments of T, one element for each node of t, that the subtrees of *)
(* t stand on: a node's is its own element and then its children's.        *)
Segments(t, T) == [k \in 1..Len(t) |-> SubSeq(T, k, SubtreeEnd(t, k))]

SegmentFacts(t, T, R, p) ==
  LET seg == Segments(t, T)
      m == Cardinality(Children(t, p))
      s == [i \in 1..m |-> seg[Ascending(Children(t, p))[i]]]
  IN  /\ seg[p] \in Seq(R) /\ Len(seg[p]) \in 1..Len(t)
      /\ Len(seg[p]) = NonTermSize(t, p)
      /\ \A k \in 1..NonTermSize(t, p) : seg[p][k] = T[p+k-1]
      /\ m \in Nat /\ \A i \in 1..m : Ascending(Children(t, p))[i] \in 2..Len(t)
      /\ seg[p] = <<T[p]>> \o FlattenSeq(s)

LEMMA SegmentIs ==
  ASSUME NEW N, NodeSet(N), NEW t \in Seq(N), IsTree(t), NEW R, NEW T \in Seq(R),
         Len(T) = Len(t), NEW p \in 1..Len(t)
  PROVE  SegmentFacts(t, T, R, p)
<1> DEFINE L == Len(t)
           seg == Segments(t, T)
           m == Cardinality(Children(t, p))
           kid(i) == Ascending(Children(t, p))[i]
           s == [i \in 1..m |-> seg[kid(i)]]
           E(i) == ChildrenEnd(t, p, i)
           e == SubtreeEnd(t, p)
<1>1. L \in Nat /\ Len(T) = L
  BY LenProperties
<1>2. /\ m \in Nat
      /\ \A i \in 1..m : kid(i) = E(i-1) + 1 /\ kid(i) \in 2..L /\ kid(i) <= E(i)
      /\ \A i \in 0..m : E(i) \in p..L
      /\ E(m) = e
  BY ChildrenFollow
<1>3. \A k \in 1..L : SubtreeEnd(t, k) \in k..L
  BY SubtreeEndExists
<1>4. E(0) = p /\ \A i \in 1..m : E(i) = SubtreeEnd(t, kid(i))
  BY <1>2 DEF ChildrenEnd
<1> HIDE DEF E, kid, m
<1>5. ASSUME NEW k \in 1..L
      PROVE  /\ seg[k] = SubSeq(T, k, SubtreeEnd(t, k)) /\ seg[k] \in Seq(R)
             /\ Len(seg[k]) = SubtreeEnd(t, k) - k + 1
             /\ \A j \in 1..(SubtreeEnd(t, k) - k + 1) : seg[k][j] = T[k+j-1]
  <2>1. seg[k] = SubSeq(T, k, SubtreeEnd(t, k))
    BY DEF Segments
  <2> HIDE DEF seg
  <2> DEFINE j == SubtreeEnd(t, k)
  <2>2. j \in k..L
    BY <1>3
  <2> HIDE DEF j
  <2>3. \A i \in k..j : T[i] \in R
    BY <1>1, <2>2, ElementOfSeq
  <2>4. /\ SubSeq(T, k, j) \in Seq(R) /\ Len(SubSeq(T, k, j)) = j - k + 1
        /\ \A i \in 1..(j-k+1) : SubSeq(T, k, j)[i] = T[k+i-1]
    BY <1>1, <2>2, <2>3, SubSeqProperties
  <2> QED BY <2>1, <2>4 DEF j
<1> HIDE DEF seg
<1>6. s \in [1..m -> Seq(R)] /\ \A i \in 1..m : s[i] = SubSeq(T, E(i-1)+1, E(i))
  <2>1. ASSUME NEW i \in 1..m
        PROVE  seg[kid(i)] \in Seq(R) /\ seg[kid(i)] = SubSeq(T, E(i-1)+1, E(i))
    <3>1. kid(i) \in 1..L
      BY <1>2
    <3> QED BY <1>2, <1>4, <1>5, <3>1
  <2> QED BY <2>1
<1> HIDE DEF s
<1>7. PICK f : Joins(f, R, m, s) /\ FlattenSeq(s) = f[m]
  BY <1>2, <1>6, FlattenIs
<1> DEFINE G == {i \in 0..m : f[i] = SubSeq(T, p+1, E(i))}
<1>8. 0 \in G
  <2>1. f[0] = <<>>
    BY <1>7 DEF Joins
  <2>2. SubSeq(T, p+1, p) = <<>>
    BY <1>1, SubSeqEmpty
  <2>3. f[0] = SubSeq(T, p+1, E(0))
    BY <1>4, <2>1, <2>2
  <2> QED BY <1>2, <2>3
<1>9. ASSUME NEW i \in 1..m, i-1 \in G PROVE i \in G
  <2>1. f[i] = f[i-1] \o s[i] /\ f[i-1] = SubSeq(T, p+1, E(i-1))
    BY <1>2, <1>7, <1>9 DEF Joins
  <2> DEFINE a == E(i-1)
             b == E(i)
  <2>2. i-1 \in 0..m /\ i \in 0..m
    BY <1>2
  <2>3. a \in p..L /\ b \in p..L /\ a+1 <= b
    BY <1>2, <2>2
  <2>4. s[i] = SubSeq(T, a+1, b)
    BY <1>6
  <2> HIDE DEF a, b
  <2>5. SubSeq(T, p+1, a) \o SubSeq(T, a+1, b) = SubSeq(T, p+1, b)
    <3>1. p+1 \in 1..(Len(T)+1) /\ a \in (p+1-1)..Len(T) /\ b \in a..Len(T)
      BY <1>1, <2>3
    <3> QED BY <3>1, ConcatAdjacentSubSeq
  <2>6. f[i] = SubSeq(T, p+1, b)
    BY <2>1, <2>4, <2>5 DEF a
  <2> QED BY <2>2, <2>6 DEF b
<1>10. f[m] = SubSeq(T, p+1, e)
  <2>1. 0..m \subseteq G
    <3> HIDE DEF G
    <3> QED BY <1>2, <1>8, <1>9, NatClosed
  <2>2. m \in G
    BY <1>2, <2>1
  <2> QED BY <1>2, <2>2
<1>11. seg[p] = <<T[p]>> \o FlattenSeq(s)
  <2>1. e \in p..L
    BY <1>3
  <2>2. SubSeq(T, p, e) = <<T[p]>> \o SubSeq(T, p+1, e)
    <3>1. p \in 1..Len(T) /\ e \in p..Len(T)
      BY <1>1, <2>1
    <3> QED BY <3>1, SubSeqRecursiveFirst
  <2> QED BY <1>5, <1>7, <1>10, <2>2
<1>12. /\ seg[p] \in Seq(R) /\ Len(seg[p]) = NonTermSize(t, p)
       /\ \A k \in 1..NonTermSize(t, p) : seg[p][k] = T[p+k-1]
  BY <1>5 DEF NonTermSize
<1>13. Len(seg[p]) \in 1..L
  <2>1. e \in p..L /\ Len(seg[p]) = e - p + 1
    BY <1>3, <1>5
  <2> HIDE DEF e
  <2> QED BY <1>1, <2>1
<1>14. \A i \in 1..m : kid(i) \in 2..L
  BY <1>2
<1> QED BY <1>2, <1>11, <1>12, <1>13, <1>14 DEF SegmentFacts, s, seg, m, kid

-----------------------------------------------------------------------------
(* Every node in a list is the one seen first with its hash.               *)
Hashed(flat) ==
  /\ IsFlat(heap, flat)
  /\ \A a \in Kept : flat[a] \in DOMAIN seen /\ seen[flat[a]] = a
  /\ \A h \in DOMAIN seen : flat[seen[h]] = h

HashInv == \E flat \in [Live -> Seq(Pairs)] : Hashed(flat)

LEMMA HeapTyped == HeapHolds => HeapIs(heap)
<1> SUFFICES ASSUME HeapHolds, NEW b \in Live
             PROVE  heap[b].id \in Ids /\ heap[b].val \in Vals /\ heap[b].subnodes \in Seq(Live)
  BY DEF HeapIs, Live
<1>1. heap[b] \in NodeRec /\ \A i \in DOMAIN heap[b].subnodes : heap[b].subnodes[i] \in Live
  BY DEF HeapHolds
<1>2. heap[b].id \in Ids /\ heap[b].val \in Vals /\ heap[b].subnodes \in Seq(Addr)
  BY <1>1 DEF NodeRec
<1> DEFINE sub == heap[b].subnodes
<1>3. Len(sub) \in Nat /\ DOMAIN sub = 1..Len(sub)
  BY <1>2, LenProperties
<1>4. sub \in [1..Len(sub) -> Live]
  <2>1. sub = [i \in DOMAIN sub |-> sub[i]]
    BY <1>2
  <2> HIDE DEF sub
  <2> QED BY <1>1, <1>3, <2>1 DEF sub
<1> HIDE DEF sub
<1>5. sub \in Seq(Live)
  BY <1>3, <1>4
<1> QED BY <1>2, <1>5 DEF sub

LEMMA HashIsFlat ==
  ASSUME HeapHolds, NEW flat, IsFlat(heap, flat)
  PROVE  \A a \in Live : Hash(a) = flat[a] /\ Contents(a) \in Seq(NodesOf(heap))
<1>1. HeapIs(heap)
  BY HeapTyped
<1>2. \A a \in Live : HashIn(heap, a) = flat[a] /\ ContentsIn(heap, a) \in Seq(NodesOf(heap))
  BY <1>1, HashUnique DEF Live
<1> QED BY <1>2, HeapBefore

(* A duplicate has the hash of the node that takes its place.              *)
DuplicateFacts(a, b, S) ==
  /\ a = Pending /\ b = seen[Hash(Pending)] /\ S = Below(Pending)
  /\ a \in Untaken /\ a \in Live /\ OwnSubtree(a, S) /\ b \in Kept /\ b \in Live \ {NULL}
  /\ Patched(a, b, S)

LEMMA DuplicatePatch ==
  ASSUME OwnInv, HashInv, TakeDuplicate
  PROVE  /\ DuplicateFacts(Pending, seen[Hash(Pending)], Below(Pending))
         /\ \A flat : Hashed(flat) => flat[seen[Hash(Pending)]] = flat[Pending]
<1> DEFINE a == Pending
           S == Below(Pending)
           b == seen[Hash(Pending)]
<1>1. ListsHold /\ HeapHolds /\ CallsHold /\ Deep /\ MoreToTake
  BY DEF OwnInv, TakeDuplicate
<1>2. PendingFacts /\ Kept \subseteq Live
  BY <1>1, PendingIs, KeptAre
<1>3. a \in Untaken /\ a \in Live /\ OwnSubtree(a, S) /\ heap[a].parent \in Kept \cup {NULL}
  BY <1>1, <1>2, BelowOwned DEF PendingFacts, Untaken
<1>4. Hash(a) \in DOMAIN seen
  BY DEF TakeDuplicate
<1>5. b \in Kept /\ b \in Live \ {NULL}
  <2>1. b \in Kept
    BY <1>1, <1>4 DEF ListsHold
  <2>2. NULL \notin Live
    BY <1>1, Constants DEF HeapHolds, NULL
  <2> QED BY <1>2, <2>1, <2>2
<1>6. Patched(a, b, S)
  <2>1. heap' = FreeAll(IF heap[a].parent = NULL THEN heap
                         ELSE ReplaceSubnode(heap[a].parent, a, b), S)
    BY DEF TakeDuplicate
  <2> HIDE DEF a, S, b
  <2> QED BY <1>1, <1>2, <1>3, <1>5, <2>1, PatchIs
<1>7. ASSUME NEW flat, Hashed(flat) PROVE flat[b] = flat[a]
  <2>1. Hash(a) = flat[a]
    BY <1>1, <1>3, <1>7, HashIsFlat DEF Hashed
  <2> QED BY <1>4, <1>7, <2>1 DEF Hashed
<1> QED BY <1>3, <1>5, <1>6, <1>7 DEF DuplicateFacts

(* So no hash changes.                                                     *)
LEMMA DuplicateHashed ==
  ASSUME OwnInv, HashInv, NEW flat, Hashed(flat), TakeDuplicate,
         NEW new, new = [x \in Live' |-> flat[x]]
  PROVE  Hashed(new)' /\ Live' \subseteq Live
<1> DEFINE a == Pending
           S == Below(Pending)
           b == seen[Hash(Pending)]
<1>1. ListsHold /\ HeapHolds /\ HeapIs(heap)
  BY HeapTyped DEF OwnInv
<1>2. Kept \subseteq Live
  BY <1>1, KeptAre
<1>3. a \in Untaken /\ OwnSubtree(a, S)
  BY DuplicatePatch DEF DuplicateFacts
<1>5. b \in Kept /\ b \in Live \ {NULL} /\ flat[b] = flat[a]
  BY DuplicatePatch DEF DuplicateFacts
<1>6. Patched(a, b, S)
  BY DuplicatePatch DEF DuplicateFacts
<1> HIDE DEF a, S, b
<1>7. lists' = lists /\ seen' = seen /\ Kept' = Kept /\ Kept \subseteq Live' /\ Live' \subseteq Live
  BY <1>2, <1>3, <1>6 DEF TakeDuplicate, Kept, Patched, OwnSubtree, Untaken
<1>8. ASSUME NEW x \in Live'
      PROVE  /\ new[x] = flat[x] /\ x \in Live /\ new[x] \in Seq(Pairs)
             /\ FlatFacts(heap, flat, x) /\ Len(new[x]) <= MaxNodes
             /\ flat[x] = <<PairOf(heap[x])>> \o FlattenSeq(Under(heap, flat, x))
  <2>1. x \in Live
    BY <1>7
  <2>2. FlatFacts(heap, flat, x)
    BY <1>1, <2>1, FlatIs DEF Hashed, Live
  <2>3. flat[x] = <<PairOf(heap[x])>> \o FlattenSeq(Under(heap, flat, x))
        /\ Len(flat[x]) <= MaxNodes
    BY <2>1 DEF Hashed, IsFlat, Live
  <2>4. flat[x] \in Seq(Pairs)
    BY <2>2 DEF FlatFacts
  <2> QED BY <2>1, <2>2, <2>3, <2>4
<1>9. ASSUME NEW x \in Live'
      PROVE  /\ PairOf(heap'[x]) = PairOf(heap[x])
             /\ Under(heap', new, x) = Under(heap, flat, x)
  <2>1. x \in Live \ S /\ x \in Live
    BY <1>6, <1>7 DEF Patched
  <2>2. /\ heap'[x].id = heap[x].id /\ heap'[x].val = heap[x].val
        /\ DOMAIN heap'[x].subnodes = DOMAIN heap[x].subnodes
        /\ \A i \in DOMAIN heap[x].subnodes :
             IF heap[x].subnodes[i] = a THEN heap'[x].subnodes[i] = b
             ELSE heap'[x].subnodes[i] = heap[x].subnodes[i]
    BY <1>6, <2>1 DEF Patched
  <2>3. ASSUME NEW i \in DOMAIN heap[x].subnodes
        PROVE  new[heap'[x].subnodes[i]] = flat[heap[x].subnodes[i]]
    <3> DEFINE s == heap[x].subnodes[i]
    <3>1. CASE s = a
      BY <1>5, <1>7, <1>8, <2>2, <3>1
    <3>2. CASE s # a
      <4>1. s \in Live
        BY <1>1, <2>1 DEF HeapHolds
      <4>2. s \notin S
        <5> SUFFICES ASSUME s \in S PROVE FALSE
          OBVIOUS
        <5>1. s \in Untaken /\ heap[s].parent \in S
          BY <1>3, <3>2 DEF OwnSubtree
        <5>2. heap[s].parent = x
          BY <1>1, <2>1, <5>1 DEF HeapHolds
        <5> QED BY <2>1, <5>1, <5>2
      <4>3. s \in Live'
        BY <1>6, <4>1, <4>2 DEF Patched
      <4> QED BY <1>8, <2>2, <3>2, <4>3
    <3> QED BY <3>1, <3>2
  <2> QED BY <2>2, <2>3 DEF PairOf, Under
<1>10. IsFlat(heap', new)
  <2>1. DOMAIN heap' = Live' /\ new \in [Live' -> Seq(Pairs)]
    BY <1>8 DEF Live
  <2>2. \A x \in Live' : /\ new[x] = <<PairOf(heap'[x])>> \o FlattenSeq(Under(heap', new, x))
                         /\ Len(new[x]) <= MaxNodes
    BY <1>8, <1>9
  <2> QED BY <2>1, <2>2 DEF IsFlat
<1>11. \A x \in Kept : new[x] \in DOMAIN seen /\ seen[new[x]] = x
  BY <1>7, <1>8 DEF Hashed
<1>12. \A h \in DOMAIN seen : new[seen[h]] = h
  <2>1. \A h \in DOMAIN seen : seen[h] \in Kept
    BY <1>1 DEF ListsHold
  <2> QED BY <1>7, <1>8, <2>1 DEF Hashed
<1> QED BY <1>7, <1>10, <1>11, <1>12 DEF Hashed

(* A brand new node is remembered under a hash that was not seen before.   *)
LEMMA NewHashed ==
  ASSUME OwnInv, NEW flat, Hashed(flat), TakeNew
  PROVE  Hashed(flat)' /\ Live' = Live
<1> DEFINE a == Pending
<1>1. ListsHold /\ HeapHolds /\ CallsHold /\ MoreToTake
  BY DEF OwnInv, TakeNew
<1>2. PendingFacts
  BY <1>1, PendingIs
<1>3. a \in Untaken /\ a \in Live
  BY <1>2 DEF PendingFacts, Untaken
<1>4. Hash(a) = flat[a] /\ Hash(a) \notin DOMAIN seen
  BY <1>1, <1>3, HashIsFlat DEF Hashed, TakeNew
<1>5. heap' = heap /\ Live' = Live
  BY DEF TakeNew, Live
<1>6. seen' = [h \in DOMAIN seen \cup {flat[a]} |-> IF h = flat[a] THEN a ELSE seen[h]]
  BY <1>4 DEF TakeNew
<1>7. Kept' = Kept \cup {a}
  <2>1. lists' = [lists EXCEPT ![heap[a].id] = Append(@, a)]
    BY DEF TakeNew
  <2>2. \A h \in DOMAIN seen' : seen'[h] \in {a} \cup Range(seen)
    <3> HIDE DEF a
    <3> QED BY <1>6 DEF Range
  <2> HIDE DEF a
  <2> QED BY <1>1, <1>3, <1>5, <2>1, <2>2, NewLists
<1> HIDE DEF a
<1>8. IsFlat(heap', flat)
  BY <1>5 DEF Hashed
<1>9. \A x \in Kept' : flat[x] \in DOMAIN seen' /\ seen'[flat[x]] = x
  <2> SUFFICES ASSUME NEW x \in Kept' PROVE flat[x] \in DOMAIN seen' /\ seen'[flat[x]] = x
    OBVIOUS
  <2>1. CASE x = a
    BY <1>6, <2>1
  <2>2. CASE x # a
    <3>1. x \in Kept /\ flat[x] \in DOMAIN seen /\ seen[flat[x]] = x
      BY <1>7, <2>2 DEF Hashed
    <3> QED BY <1>4, <1>6, <3>1
  <2> QED BY <2>1, <2>2
<1>10. \A h \in DOMAIN seen' : flat[seen'[h]] = h
  BY <1>4, <1>6 DEF Hashed
<1> QED BY <1>5, <1>8, <1>9, <1>10 DEF Hashed

(* What is fed to the hash for the nodes of a clone: the segments of the   *)
(* tree that it copies.                                                    *)
PairsOf(t) == [k \in 1..Len(t) |-> <<t[k].id, t[k].val>>]

ClonedFlat(t, flat, at, new) ==
  /\ new \in [Live \cup {at[k] : k \in 1..Len(t)} -> Seq(Pairs)]
  /\ \A a \in Live : new[a] = flat[a]
  /\ \A k \in 1..Len(t) : new[at[k]] = Segments(t, PairsOf(t))[k]

LEMMA ClonedFlatExists ==
  ASSUME NEW t \in Inputs, NEW at, Cloned(t, at, Clone(t)), NEW flat, IsFlat(heap, flat)
  PROVE  \E new : ClonedFlat(t, flat, at, new)
<1> DEFINE seg == Segments(t, PairsOf(t))
           index(a) == CHOOSE k \in 1..Len(t) : at[k] = a
           D == Live \cup {at[k] : k \in 1..Len(t)}
           new == [a \in D |-> IF a \in Live THEN flat[a] ELSE seg[index(a)]]
<1>1. /\ IsTree(t) /\ t \in Seq(Nodes) /\ NodeSet(Nodes)
      /\ PairsOf(t) \in Seq(Pairs) /\ Len(PairsOf(t)) = Len(t)
  <2>1. /\ IsTree(t) /\ t \in Seq(Nodes) /\ NodeSet(Nodes) /\ Len(t) \in Nat
        /\ \A k \in 1..Len(t) : t[k].id \in Ids /\ t[k].val \in Vals
    BY InputNodes
  <2>2. PairsOf(t) \in [1..Len(t) -> Pairs]
    BY <2>1 DEF PairsOf, Pairs
  <2> QED BY <2>1, <2>2, LenProperties
<1>2. \A k \in 1..Len(t) : seg[k] \in Seq(Pairs)
  <2> SUFFICES ASSUME NEW k \in 1..Len(t) PROVE seg[k] \in Seq(Pairs)
    OBVIOUS
  <2>1. SegmentFacts(t, PairsOf(t), Pairs, k)
    BY <1>1, SegmentIs
  <2> QED BY <2>1 DEF SegmentFacts
<1>3. \A k \in 1..Len(t) : at[k] \notin Live /\ at[k] \in D /\ index(at[k]) = k
  BY DEF Cloned
<1> HIDE DEF seg, index
<1>4. \A a \in D : new[a] \in Seq(Pairs)
  <2> SUFFICES ASSUME NEW a \in D PROVE new[a] \in Seq(Pairs)
    OBVIOUS
  <2>1. CASE a \in Live
    BY <2>1 DEF IsFlat, Live
  <2>2. CASE a \notin Live
    <3>1. PICK k \in 1..Len(t) : a = at[k]
      BY <2>2
    <3> QED BY <1>2, <1>3, <2>2, <3>1
  <2> QED BY <2>1, <2>2
<1>5. ClonedFlat(t, flat, at, new)
  <2>1. new \in [D -> Seq(Pairs)]
    BY <1>4
  <2>2. \A a \in Live : new[a] = flat[a]
    OBVIOUS
  <2>3. \A k \in 1..Len(t) : new[at[k]] = seg[k]
    BY <1>3
  <2> HIDE DEF new
  <2> QED BY <2>1, <2>2, <2>3 DEF ClonedFlat, seg
<1> QED BY <1>5

LEMMA AddHashed ==
  ASSUME OwnInv, NEW flat, Hashed(flat), NEW t \in Inputs, AddTree(t),
         NEW new, ClonedFlat(t, flat, Ascending(Addr \ Live), new)
  PROVE  Hashed(new)'
<1> DEFINE at == Ascending(Addr \ Live)
           T == PairsOf(t)
           seg == Segments(t, T)
           count(k) == Cardinality(Children(t, k))
           kid(k, i) == Ascending(Children(t, k))[i]
           n == Len(t)
<1>1. ListsHold /\ HeapHolds /\ HeapIs(heap) /\ Kept \subseteq Live
  BY HeapTyped, KeptAre DEF OwnInv
<1>2. /\ IsTree(t) /\ t \in Seq(Nodes) /\ NodeSet(Nodes) /\ n \in Nat /\ n <= MaxNodes
      /\ T \in Seq(Pairs) /\ Len(T) = n
  <2>1. /\ IsTree(t) /\ t \in Seq(Nodes) /\ NodeSet(Nodes) /\ Len(t) \in Nat
        /\ \A k \in 1..Len(t) : t[k].id \in Ids /\ t[k].val \in Vals
    BY InputNodes
  <2>2. PairsOf(t) \in [1..Len(t) -> Pairs]
    BY <2>1 DEF PairsOf, Pairs
  <2> QED BY <2>1, <2>2, LenProperties, Constants
<1>3. heap' = Clone(t) /\ lists' = lists /\ seen' = seen /\ Kept' = Kept
  BY DEF AddTree, Kept
<1>4. Cloned(t, at, heap')
  BY <1>1, <1>3, CloneIs DEF AddTree
<1> HIDE DEF at
<1>5. /\ DOMAIN heap' = Live \cup {at[k] : k \in 1..n} /\ Live' = DOMAIN heap'
      /\ \A a \in Live : heap'[a] = heap[a]
  BY <1>4 DEF Cloned, Live
<1>6. /\ new \in [DOMAIN heap' -> Seq(Pairs)]
      /\ \A a \in Live : new[a] = flat[a]
      /\ \A k \in 1..n : new[at[k]] = seg[k]
  BY <1>5 DEF ClonedFlat, at
<1>7. ASSUME NEW a \in Live
      PROVE  /\ new[a] = <<PairOf(heap'[a])>> \o FlattenSeq(Under(heap', new, a))
             /\ Len(new[a]) <= MaxNodes
  <2>1. flat[a] = <<PairOf(heap[a])>> \o FlattenSeq(Under(heap, flat, a)) /\ Len(flat[a]) <= MaxNodes
    BY DEF Hashed, IsFlat, Live
  <2>2. \A i \in DOMAIN heap[a].subnodes : heap[a].subnodes[i] \in Live
    BY <1>1 DEF HeapHolds
  <2>3. Under(heap', new, a) = Under(heap, flat, a)
    BY <1>5, <1>6, <2>2 DEF Under
  <2> QED BY <1>5, <1>6, <2>1, <2>3
<1>8. ASSUME NEW k \in 1..n
      PROVE  /\ new[at[k]] = <<PairOf(heap'[at[k]])>> \o FlattenSeq(Under(heap', new, at[k]))
             /\ Len(new[at[k]]) <= MaxNodes
  <2>1. SegmentFacts(t, T, Pairs, k)
    BY <1>2, SegmentIs
  <2>2. /\ heap'[at[k]].id = t[k].id /\ heap'[at[k]].val = t[k].val
        /\ DOMAIN heap'[at[k]].subnodes = 1..count(k)
        /\ \A i \in 1..count(k) : heap'[at[k]].subnodes[i] = at[kid(k, i)]
    BY <1>4 DEF Cloned
  <2>3. PairOf(heap'[at[k]]) = T[k]
    BY <2>2 DEF PairOf, PairsOf
  <2>4. /\ Len(seg[k]) \in 1..n
        /\ seg[k] = <<T[k]>> \o FlattenSeq([i \in 1..count(k) |-> seg[kid(k, i)]])
        /\ \A i \in 1..count(k) : kid(k, i) \in 1..n
    <3>1. \A i \in 2..n : i \in 1..n
      BY <1>2
    <3> HIDE DEF n
    <3> QED BY <2>1, <3>1 DEF SegmentFacts, n
  <2> HIDE DEF seg, T, kid, count
  <2>5. Under(heap', new, at[k]) = [i \in 1..count(k) |-> seg[kid(k, i)]]
    BY <1>6, <2>2, <2>4 DEF Under
  <2>6. Len(seg[k]) <= MaxNodes
    BY <1>2, <2>4, Constants
  <2> QED BY <1>6, <2>3, <2>4, <2>5, <2>6
<1>9. IsFlat(heap', new)
  BY <1>5, <1>6, <1>7, <1>8 DEF IsFlat
<1>10. \A a \in Kept : new[a] \in DOMAIN seen /\ seen[new[a]] = a
  BY <1>1, <1>6 DEF Hashed
<1>11. \A h \in DOMAIN seen : new[seen[h]] = h
  <2>1. \A h \in DOMAIN seen : seen[h] \in Live
    BY <1>1 DEF ListsHold
  <2> QED BY <1>6, <2>1 DEF Hashed
<1> QED BY <1>3, <1>9, <1>10, <1>11 DEF Hashed

LEMMA EmptyHashed == Empty => HashInv
<1> SUFFICES ASSUME Empty PROVE HashInv
  OBVIOUS
<1> DEFINE flat == [a \in Live |-> <<>>]
<1>1. Live = {} /\ Kept = {} /\ DOMAIN seen = {}
  BY DEF Empty, Kept, Range, Live
<1>2. flat \in [Live -> Seq(Pairs)] /\ Hashed(flat)
  BY <1>1 DEF Hashed, IsFlat, Live
<1> QED BY <1>2 DEF HashInv

LEMMA NextHashInv ==
  ASSUME OwnInv, HashInv, [Next]_vars
  PROVE  HashInv'
<1>1. PICK flat \in [Live -> Seq(Pairs)] : Hashed(flat)
  BY DEF HashInv
<1>2. \A new : Hashed(new)' => HashInv'
  <2> SUFFICES ASSUME NEW new, Hashed(new)' PROVE HashInv'
    OBVIOUS
  <2>1. new \in [Live' -> Seq(Pairs)]
    BY DEF Hashed, IsFlat, Live
  <2> QED BY <2>1 DEF HashInv
<1>3. ASSUME NEW t \in Inputs, AddTree(t) PROVE HashInv'
  <2>1. Cloned(t, Ascending(Addr \ Live), Clone(t))
    BY <1>3, CloneIs DEF OwnInv, AddTree
  <2>2. PICK new : ClonedFlat(t, flat, Ascending(Addr \ Live), new)
    BY <1>1, <2>1, ClonedFlatExists DEF Hashed
  <2>3. Hashed(new)'
    BY <1>1, <1>3, <2>2, AddHashed
  <2> QED BY <1>2, <2>3
<1>4. CASE TakeDuplicate
  <2>1. PICK new : new = [x \in Live' |-> flat[x]]
    OBVIOUS
  <2>2. Hashed(new)'
    BY <1>1, <1>4, <2>1, DuplicateHashed
  <2> QED BY <1>2, <2>2
<1>5. CASE TakeNew
  <2>1. Hashed(flat)'
    BY <1>1, <1>5, NewHashed
  <2> QED BY <1>2, <2>1
<1>6. ASSUME UNCHANGED <<heap, lists, seen>> PROVE HashInv'
  <2>1. Hashed(flat)'
    BY <1>1, <1>6 DEF Hashed, Kept
  <2> QED BY <1>2, <2>1
<1>7. CASE Return
  BY <1>6, <1>7 DEF Return
<1>8. ASSUME NEW id \in Ids, GetAlternativeNode(id) PROVE HashInv'
  BY <1>6, <1>8 DEF GetAlternativeNode
<1>9. CASE Clear
  <2>1. Live = Kept
    BY <1>9, NothingUntaken DEF Clear
  <2>2. heap' = [a \in {} |-> heap[a]]
    BY <1>9, <2>1 DEF Clear, FreeAll, Live
  <2>3. Empty'
    BY <1>9, <2>2 DEF Clear, Live, Empty
  <2> QED BY <2>3, EmptyHashed, PTL
<1>10. CASE UNCHANGED vars
  BY <1>6, <1>10 DEF vars
<1> QED BY <1>3, <1>4, <1>5, <1>7, <1>8, <1>9, <1>10 DEF Next, TakeNode

LEMMA HashInvariance == Spec => [](OwnInv /\ HashInv)
<1>1. Init => HashInv
  <2> SUFFICES ASSUME Init PROVE HashInv
    OBVIOUS
  <2>1. Empty
    BY DEF Init, Empty, Live
  <2> QED BY <2>1, EmptyHashed
<1>2. OwnInv /\ HashInv /\ [Next]_vars => HashInv'
  BY NextHashInv
<1> QED BY <1>1, <1>2, OwnInvariance, PTL DEF Spec

(* Nothing is stored twice, whatever shapes the hash confuses: two nodes   *)
(* in the lists are different subtrees, so every chunk is as likely to be  *)
(* drawn as any other of its symbol.                                       *)
THEOREM ChunksStayDistinct == Spec => []ChunksAreDistinct
<1>1. OwnInv /\ HashInv => ChunksAreDistinct
  <2> SUFFICES ASSUME OwnInv, HashInv, NEW a \in Kept, NEW b \in Kept,
                      Contents(a) = Contents(b)
               PROVE  a = b
    BY DEF ChunksAreDistinct
  <2>1. PICK flat : Hashed(flat)
    BY DEF HashInv
  <2>2. HeapHolds /\ a \in Live /\ b \in Live
    BY KeptAre DEF OwnInv
  <2>3. flat[a] = Hash(a) /\ flat[b] = Hash(b)
    BY <2>1, <2>2, HashIsFlat DEF Hashed
  <2>4. Hash(a) = Hash(b)
    BY DEF Hash
  <2> QED BY <2>1, <2>3, <2>4 DEF Hashed
<1> QED BY <1>1, HashInvariance, PTL

-----------------------------------------------------------------------------
(* With trees of a fixed arity, the number of subnodes follows from what   *)
(* is hashed, and so does the shape of all below a node.                   *)
Arity(p) ==
  CHOOSE n : \E t \in Inputs : \E k \in 1..Len(t) :
    <<t[k].id, t[k].val>> = p /\ n = Cardinality(Children(t, k))

HasArity(h) == \A b \in DOMAIN h : Len(h[b].subnodes) = Arity(PairOf(h[b]))

Rebuilt == [p \in Pairs |-> [id |-> p[1], val |-> p[2], count |-> Arity(p)]]

LEMMA ArityIs ==
  ASSUME FixedArity(Inputs), NEW t \in Inputs, NEW k \in 1..Len(t)
  PROVE  Arity(<<t[k].id, t[k].val>>) = Cardinality(Children(t, k))
<1> DEFINE p == <<t[k].id, t[k].val>>
           P(n) == \E u \in Inputs : \E j \in 1..Len(u) :
                     <<u[j].id, u[j].val>> = p /\ n = Cardinality(Children(u, j))
<1>1. P(Cardinality(Children(t, k)))
  OBVIOUS
<1>2. Arity(p) = CHOOSE n : P(n)
  BY DEF Arity
<1>3. P(CHOOSE n : P(n))
  <2> HIDE DEF P
  <2> QED BY <1>1
<1>4. \A u \in Inputs : DOMAIN u = 1..Len(u)
  BY InputNodes
<1>5. PICK u \in Inputs :
        \E j \in 1..Len(u) : <<u[j].id, u[j].val>> = p /\ Arity(p) = Cardinality(Children(u, j))
  BY <1>2, <1>3
<1>6. PICK j \in 1..Len(u) : <<u[j].id, u[j].val>> = p /\ Arity(p) = Cardinality(Children(u, j))
  BY <1>5
<1>7. u[j].id = t[k].id /\ u[j].val = t[k].val /\ j \in DOMAIN u /\ k \in DOMAIN t
  BY <1>4, <1>6
<1>8. Cardinality(Children(u, j)) = Cardinality(Children(t, k))
  BY <1>7 DEF FixedArity
<1> QED BY <1>6, <1>8

LEMMA ContentsFromHash ==
  ASSUME NEW h, HeapIs(h), HasArity(h), NEW flat, IsFlat(h, flat)
  PROVE  \A a \in DOMAIN h : ContentsIn(h, a) = Mapped(Rebuilt, flat[a])
<1> SUFFICES ASSUME NEW a \in DOMAIN h PROVE ContentsIn(h, a) = Mapped(Rebuilt, flat[a])
  OBVIOUS
<1> DEFINE c == ContentsIn(h, a)
<1>1. c \in Seq(NodesOf(h)) /\ HashIn(h, a) = flat[a]
  BY HashUnique
<1>2. flat[a] = [k \in DOMAIN c |-> <<c[k].id, c[k].val>>]
  BY <1>1 DEF HashIn
<1> HIDE DEF c
<1>3. DOMAIN c = 1..Len(c) /\ c = [k \in DOMAIN c |-> c[k]]
  BY <1>1, LenProperties
<1>4. ASSUME NEW k \in DOMAIN c
      PROVE  Rebuilt[<<c[k].id, c[k].val>>] = c[k]
  <2>1. c[k] \in NodesOf(h)
    BY <1>1, <1>3, ElementOfSeq
  <2>2. PICK b \in DOMAIN h : c[k] = NodeOf(h[b])
    BY <2>1 DEF NodesOf
  <2>3. <<c[k].id, c[k].val>> = PairOf(h[b]) /\ PairOf(h[b]) \in Pairs
    BY <2>2 DEF NodeOf, PairOf, HeapIs, Pairs
  <2>4. c[k] = [id |-> h[b].id, val |-> h[b].val, count |-> Arity(PairOf(h[b]))]
    BY <2>2 DEF NodeOf, HasArity
  <2> QED BY <2>3, <2>4 DEF Rebuilt, PairOf
<1>5. Mapped(Rebuilt, flat[a]) = [k \in DOMAIN c |-> c[k]]
  BY <1>2, <1>4 DEF Mapped
<1> QED BY <1>3, <1>5 DEF c

Arities == HasArity(heap)

LEMMA NextArities ==
  ASSUME FixedArity(Inputs), OwnInv, HashInv, Arities, [Next]_vars
  PROVE  Arities'
<1>1. ASSUME UNCHANGED heap PROVE Arities'
  BY <1>1 DEF Arities
<1>2. ASSUME NEW t \in Inputs, AddTree(t) PROVE Arities'
  <2> DEFINE at == Ascending(Addr \ Live)
  <2>1. Cloned(t, at, heap')
    BY <1>2, CloneIs DEF OwnInv, AddTree
  <2> HIDE DEF at
  <2>2. ASSUME NEW b \in DOMAIN heap' PROVE Len(heap'[b].subnodes) = Arity(PairOf(heap'[b]))
    <3>1. CASE b \in Live
      <4>1. heap'[b] = heap[b] /\ b \in DOMAIN heap
        BY <2>1, <3>1 DEF Cloned, Live
      <4> QED BY <4>1 DEF Arities, HasArity
    <3>2. CASE b \notin Live
      <4>1. PICK k \in 1..Len(t) : b = at[k]
        BY <2>1, <2>2, <3>2 DEF Cloned
      <4>2. /\ PairOf(heap'[b]) = <<t[k].id, t[k].val>>
            /\ Len(heap'[b].subnodes) = Cardinality(Children(t, k))
        BY <2>1, <4>1 DEF Cloned, PairOf
      <4> QED BY <4>2, ArityIs
    <3> QED BY <3>1, <3>2
  <2> QED BY <2>2 DEF Arities, HasArity
<1>3. CASE TakeDuplicate
  <2>1. PICK b, S : Patched(Pending, b, S)
    BY <1>3, DuplicatePatch DEF DuplicateFacts
  <2>2. ASSUME NEW x \in DOMAIN heap' PROVE Len(heap'[x].subnodes) = Arity(PairOf(heap'[x]))
    <3>1. x \in DOMAIN heap /\ PairOf(heap'[x]) = PairOf(heap[x])
          /\ Len(heap'[x].subnodes) = Len(heap[x].subnodes)
      BY <2>1, <2>2 DEF Patched, Live, PairOf
    <3> QED BY <3>1 DEF Arities, HasArity
  <2> QED BY <2>2 DEF Arities, HasArity
<1>4. CASE TakeNew
  BY <1>1, <1>4 DEF TakeNew
<1>5. CASE Return
  BY <1>1, <1>5 DEF Return
<1>6. ASSUME NEW id \in Ids, GetAlternativeNode(id) PROVE Arities'
  BY <1>1, <1>6 DEF GetAlternativeNode
<1>7. CASE Clear
  <2>1. DOMAIN heap' = {}
    BY <1>7, NothingUntaken DEF Clear, FreeAll, Live
  <2> QED BY <2>1 DEF Arities, HasArity
<1>8. CASE UNCHANGED vars
  BY <1>1, <1>8 DEF vars
<1> QED BY <1>2, <1>3, <1>4, <1>5, <1>6, <1>7, <1>8 DEF Next, TakeNode

LEMMA ArityInvariance ==
  ASSUME FixedArity(Inputs)
  PROVE  Spec => [](OwnInv /\ HashInv /\ Arities)
<1>1. Init => Arities
  BY DEF Init, Arities, HasArity
<1>2. OwnInv /\ HashInv /\ Arities /\ [Next]_vars => Arities'
  BY NextArities
<1> QED BY <1>1, <1>2, HashInvariance, PTL DEF Spec

(* If the rule of a node determines how many subnodes it has, equal hashes *)
(* do mean equal nodes, as the comment above hash_node says.               *)
THEOREM ChunkEqualHashes ==
  ASSUME FixedArity(Inputs)
  PROVE  Spec => []EqualHashesMeanEqualNodes
<1>1. OwnInv /\ HashInv /\ Arities => EqualHashesMeanEqualNodes
  <2> SUFFICES ASSUME OwnInv, HashInv, Arities, NEW a \in Live, NEW b \in Live, Hash(a) = Hash(b)
               PROVE  Contents(a) = Contents(b)
    BY DEF EqualHashesMeanEqualNodes
  <2>1. PICK flat : Hashed(flat)
    BY DEF HashInv
  <2>2. HeapHolds /\ HeapIs(heap) /\ HasArity(heap) /\ IsFlat(heap, flat)
    BY <2>1, HeapTyped DEF OwnInv, Hashed, Arities
  <2>3. flat[a] = flat[b]
    BY <2>2, HashIsFlat
  <2>4. ContentsIn(heap, a) = ContentsIn(heap, b)
    BY <2>2, <2>3, ContentsFromHash DEF Live
  <2> QED BY <2>4, HeapBefore
<1> QED BY <1>1, ArityInvariance, PTL

-----------------------------------------------------------------------------
(* What is hashed can be decoded: no node's is the start of another's, so  *)
(* equal hashes have equal hashes below them, subnode by subnode.          *)
Meet(x, s, y, r) == x \o s = y \o r

PrefixFree(R, x, y) ==
  x \in Seq(R) /\ y \in Seq(R) /\ \A s, r \in Seq(R) : Meet(x, s, y, r) => x = y /\ s = r

EachPrefixFree(R, n, u, v) ==
  /\ n \in Nat /\ u \in [1..n -> Seq(R)] /\ v \in [1..n -> Seq(R)]
  /\ \A i \in 1..n : PrefixFree(R, u[i], v[i])

Regroups(x, y, z) == (x \o y) \o z = x \o (y \o z)

LEMMA Regroup ==
  ASSUME NEW R, NEW x \in Seq(R), NEW y \in Seq(R), NEW z \in Seq(R)
  PROVE  Regroups(x, y, z)
BY ConcatAssociative DEF Regroups

LEMMA FlattenDecodes ==
  ASSUME NEW R, NEW n, NEW u, NEW v, EachPrefixFree(R, n, u, v),
         NEW s \in Seq(R), NEW r \in Seq(R), Meet(FlattenSeq(u), s, FlattenSeq(v), r)
  PROVE  s = r /\ \A i \in 1..n : u[i] = v[i]
<1>1. /\ n \in Nat /\ u \in [1..n -> Seq(R)] /\ v \in [1..n -> Seq(R)]
      /\ \A i \in 1..n : PrefixFree(R, u[i], v[i])
  BY DEF EachPrefixFree
<1>2. PICK f : Joins(f, R, n, u) /\ FlattenSeq(u) = f[n]
  BY <1>1, FlattenIs
<1>3. PICK g : Joins(g, R, n, v) /\ FlattenSeq(v) = g[n]
  BY <1>1, FlattenIs
<1> DEFINE Same(j, x, y) == x = y /\ \A i \in 1..j : u[i] = v[i]
           Claim(j) == \A x, y \in Seq(R) : Meet(f[j], x, g[j], y) => Same(j, x, y)
<1>4. Claim(0)
  <2> SUFFICES ASSUME NEW x \in Seq(R), NEW y \in Seq(R), Meet(f[0], x, g[0], y) PROVE Same(0, x, y)
    OBVIOUS
  <2>1. f[0] = <<>> /\ g[0] = <<>>
    BY <1>2, <1>3 DEF Joins
  <2>2. <<>> \o x = x /\ <<>> \o y = y
    BY ConcatEmptySeq
  <2> QED BY <2>1, <2>2 DEF Meet
<1>5. ASSUME NEW j \in 1..n, Claim(j-1) PROVE Claim(j)
  <2> SUFFICES ASSUME NEW x \in Seq(R), NEW y \in Seq(R), Meet(f[j], x, g[j], y) PROVE Same(j, x, y)
    OBVIOUS
  <2> DEFINE a == f[j-1]
             b == g[j-1]
             p == u[j]
             q == v[j]
  <2>1. Joint(R, a, p, f[j]) /\ Joint(R, b, q, g[j])
    BY <1>1, <1>2, <1>3, JoinsStep
  <2>2. \A z, w \in Seq(R) : Meet(a, z, b, w) => Same(j-1, z, w)
    BY <1>5
  <2>3. PrefixFree(R, p, q)
    BY <1>1
  <2> HIDE DEF a, b, p, q, Same
  <2>4. a \in Seq(R) /\ b \in Seq(R) /\ p \in Seq(R) /\ q \in Seq(R)
    BY <2>1 DEF Joint
  <2>5. (a \o p) \o x = (b \o q) \o y
    BY <2>1 DEF Joint, Meet
  <2>6. (a \o p) \o x = a \o (p \o x) /\ (b \o q) \o y = b \o (q \o y)
    <3>1. Regroups(a, p, x) /\ Regroups(b, q, y)
      BY <2>4, Regroup
    <3> QED BY <3>1 DEF Regroups
  <2>7. p \o x \in Seq(R) /\ q \o y \in Seq(R)
    BY <2>4, ConcatProperties
  <2>8. Same(j-1, p \o x, q \o y)
    <3>1. Meet(a, p \o x, b, q \o y)
      BY <2>5, <2>6 DEF Meet
    <3> QED BY <2>2, <2>7, <3>1
  <2>9. p = q /\ x = y
    BY <2>3, <2>8 DEF PrefixFree, Same, Meet
  <2>10. \A i \in 1..j : i = j \/ i \in 1..(j-1)
    BY <1>1
  <2> QED BY <2>8, <2>9, <2>10 DEF Same, p, q
<1>6. Claim(n)
  <2> HIDE DEF Claim
  <2> DEFINE G == {j \in 0..n : Claim(j)}
  <2>1. 0 \in G /\ \A j \in 1..n : j-1 \in G => j \in G
    BY <1>1, <1>4, <1>5
  <2>2. 0..n \subseteq G
    <3> HIDE DEF G
    <3> QED BY <1>1, <2>1, NatClosed
  <2> QED BY <1>1, <2>2
<1> QED BY <1>2, <1>3, <1>6

(* The subnodes of x and y have the same hashes.                           *)
AlikeBelow(h, flat, x, y) ==
  /\ Len(h[x].subnodes) = Len(h[y].subnodes)
  /\ \A i \in 1..Len(h[x].subnodes) : flat[h[x].subnodes[i]] = flat[h[y].subnodes[i]]

(* The first of what is hashed, and the rest after it.                     *)
LEMMA FirstAndRest ==
  ASSUME NEW R, NEW p, NEW q, <<p>> \in Seq(R), <<q>> \in Seq(R), NEW x \in Seq(R), NEW y \in Seq(R),
         NEW s \in Seq(R), NEW r \in Seq(R), Meet(<<p>> \o x, s, <<q>> \o y, r)
  PROVE  p = q /\ Meet(x, s, y, r)
<1>1. x \o s \in Seq(R) /\ y \o r \in Seq(R)
  BY ConcatProperties
<1>2. (<<p>> \o x) \o s = <<p>> \o (x \o s) /\ (<<q>> \o y) \o r = <<q>> \o (y \o r)
  <2>1. Regroups(<<p>>, x, s) /\ Regroups(<<q>>, y, r)
    BY Regroup
  <2> QED BY <2>1 DEF Regroups
<1> DEFINE a == x \o s
           b == y \o r
<1> HIDE DEF a, b
<1>3. a \in Seq(R) /\ b \in Seq(R) /\ <<p>> \o a = <<q>> \o b
  BY <1>1, <1>2 DEF a, b, Meet
<1>4. /\ Len(a) \in Nat /\ Len(b) \in Nat
      /\ Len(<<p>>) = 1 /\ Len(<<q>>) = 1 /\ <<p>>[1] = p /\ <<q>>[1] = q
  BY <1>3, LenProperties
<1>5. /\ \A i \in 1..(1 + Len(a)) : (<<p>> \o a)[i] = IF i <= 1 THEN <<p>>[i] ELSE a[i-1]
      /\ \A i \in 1..(1 + Len(b)) : (<<q>> \o b)[i] = IF i <= 1 THEN <<q>>[i] ELSE b[i-1]
  BY <1>3, <1>4, ConcatProperties
<1>6. (<<p>> \o a)[1] = p /\ (<<q>> \o b)[1] = q
  BY <1>4, <1>5
<1>7. p = q
  BY <1>3, <1>6
<1>8. a = b
  BY <1>3, <1>7, ConcatSimplifications
<1> QED BY <1>7, <1>8 DEF a, b, Meet

LEMMA HashDecodes ==
  ASSUME NEW h, HeapIs(h), HasArity(h), NEW flat, IsFlat(h, flat)
  PROVE  \A x, y \in DOMAIN h :
           /\ PrefixFree(Pairs, flat[x], flat[y])
           /\ flat[x] = flat[y] => AlikeBelow(h, flat, x, y)
<1> DEFINE Decodes(x, y) == \A s, r \in Seq(Pairs) :
             Meet(flat[x], s, flat[y], r)
               => flat[x] = flat[y] /\ s = r /\ AlikeBelow(h, flat, x, y)
           Claim(n) == \A x, y \in DOMAIN h : Len(flat[x]) <= n => Decodes(x, y)
<1>0. MaxNodes \in Nat
  BY Constants
<1>1. ASSUME NEW x \in DOMAIN h
      PROVE  /\ FlatFacts(h, flat, x) /\ flat[x] \in Seq(Pairs) /\ Len(flat[x]) \in 1..MaxNodes
             /\ flat[x] = <<PairOf(h[x])>> \o FlattenSeq(Under(h, flat, x))
             /\ Len(h[x].subnodes) = Arity(PairOf(h[x]))
  <2>1. FlatFacts(h, flat, x)
    BY FlatIs
  <2>2. flat[x] \in Seq(Pairs) /\ Len(flat[x]) \in 1..MaxNodes
    BY <2>1 DEF FlatFacts
  <2> QED BY <2>1, <2>2 DEF IsFlat, HasArity
<1>2. Claim(0)
  <2>1. ASSUME NEW x \in DOMAIN h PROVE ~(Len(flat[x]) <= 0)
    <3>1. Len(flat[x]) \in 1..MaxNodes
      BY <1>1
    <3> QED BY <1>0, <3>1
  <2> QED BY <2>1
<1>3. ASSUME NEW n \in 1..MaxNodes, Claim(n-1) PROVE Claim(n)
  <2> SUFFICES ASSUME NEW x \in DOMAIN h, NEW y \in DOMAIN h, Len(flat[x]) <= n,
                      NEW s \in Seq(Pairs), NEW r \in Seq(Pairs), Meet(flat[x], s, flat[y], r)
               PROVE  flat[x] = flat[y] /\ s = r /\ AlikeBelow(h, flat, x, y)
    OBVIOUS
  <2> DEFINE p == PairOf(h[x])
             q == PairOf(h[y])
             u == Under(h, flat, x)
             v == Under(h, flat, y)
             m == Len(h[x].subnodes)
  <2>1. FlatFacts(h, flat, x) /\ FlatFacts(h, flat, y)
    BY <1>1
  <2>2. UnderFacts(h, flat, x, Pairs, m) /\ UnderFacts(h, flat, y, Pairs, Len(h[y].subnodes))
    BY <2>1 DEF FlatFacts
  <2>3. FlattenSeq(u) \in Seq(Pairs) /\ FlattenSeq(v) \in Seq(Pairs)
    BY <2>2 DEF UnderFacts
  <2>4. <<p>> \in Seq(Pairs) /\ <<q>> \in Seq(Pairs)
    BY <2>1 DEF FlatFacts
  <2>5. flat[x] = <<p>> \o FlattenSeq(u) /\ flat[y] = <<q>> \o FlattenSeq(v)
    BY <1>1
  <2>6. p = q /\ Meet(FlattenSeq(u), s, FlattenSeq(v), r)
    <3> HIDE DEF p, q, u, v
    <3>1. Meet(<<p>> \o FlattenSeq(u), s, <<q>> \o FlattenSeq(v), r)
      BY <2>5
    <3> QED BY <2>3, <2>4, <3>1, FirstAndRest
  <2>7. Len(h[y].subnodes) = m
    BY <1>1, <2>6
  <2>8. ASSUME NEW i \in 1..m
        PROVE  /\ u[i] = flat[h[x].subnodes[i]] /\ v[i] = flat[h[y].subnodes[i]]
               /\ PrefixFree(Pairs, u[i], v[i])
    <3> DEFINE a == h[x].subnodes[i]
               b == h[y].subnodes[i]
    <3>1. a \in DOMAIN h /\ b \in DOMAIN h /\ u[i] = flat[a] /\ v[i] = flat[b] /\ Len(flat[a]) \in Nat
      BY <2>2, <2>7 DEF UnderFacts
    <3>2. Len(flat[a]) < Len(flat[x])
      BY <2>1 DEF FlatFacts
    <3> HIDE DEF a, b
    <3>3. Len(flat[a]) <= n-1
      <4>1. Len(flat[x]) \in 1..MaxNodes /\ Len(flat[x]) <= n
        BY <1>1
      <4> QED BY <1>0, <3>1, <3>2, <4>1
    <3>4. Decodes(a, b)
      BY <1>3, <3>1, <3>3
    <3>5. PrefixFree(Pairs, flat[a], flat[b])
      BY <1>1, <3>1, <3>4 DEF PrefixFree
    <3> QED BY <3>1, <3>5 DEF a, b
  <2>9. EachPrefixFree(Pairs, m, u, v)
    BY <2>2, <2>7, <2>8 DEF EachPrefixFree, UnderFacts
  <2> HIDE DEF u, v, m, p, q
  <2>10. s = r /\ \A i \in 1..m : u[i] = v[i]
    BY <2>6, <2>9, FlattenDecodes
  <2>11. u = v
    <3>1. u \in [1..m -> Seq(Pairs)] /\ v \in [1..m -> Seq(Pairs)]
      BY <2>9 DEF EachPrefixFree
    <3>2. \A i \in 1..m : u[i] = v[i]
      BY <2>10
    <3>3. u = [i \in 1..m |-> u[i]] /\ v = [i \in 1..m |-> v[i]]
      BY ONLY <3>1
    <3>4. [i \in 1..m |-> u[i]] = [i \in 1..m |-> v[i]]
      BY ONLY <3>2
    <3> QED BY ONLY <3>3, <3>4
  <2>12. AlikeBelow(h, flat, x, y)
    BY <2>7, <2>8, <2>10 DEF AlikeBelow, m
  <2> QED BY <2>5, <2>6, <2>10, <2>11, <2>12
<1>4. \A x, y \in DOMAIN h : Decodes(x, y)
  <2>1. Claim(MaxNodes)
    <3> HIDE DEF Claim
    <3> DEFINE G == {n \in 0..MaxNodes : Claim(n)}
    <3>1. 0 \in G /\ \A n \in 1..MaxNodes : n-1 \in G => n \in G
      BY <1>0, <1>2, <1>3
    <3>2. 0..MaxNodes \subseteq G
      <4> HIDE DEF G
      <4> QED BY <1>0, <3>1, NatClosed
    <3> QED BY <1>0, <3>2
  <2>2. ASSUME NEW x \in DOMAIN h PROVE Len(flat[x]) <= MaxNodes
    <3>1. Len(flat[x]) \in 1..MaxNodes
      BY <1>1
    <3> QED BY <1>0, <3>1
  <2> HIDE DEF Decodes
  <2> QED BY <2>1, <2>2
<1> SUFFICES ASSUME NEW x \in DOMAIN h, NEW y \in DOMAIN h
             PROVE  /\ PrefixFree(Pairs, flat[x], flat[y])
                    /\ flat[x] = flat[y] => AlikeBelow(h, flat, x, y)
  OBVIOUS
<1>5. PrefixFree(Pairs, flat[x], flat[y])
  BY <1>1, <1>4 DEF PrefixFree
<1>6. <<>> \in Seq(Pairs)
  OBVIOUS
<1>7. flat[x] = flat[y] => AlikeBelow(h, flat, x, y)
  <2> SUFFICES ASSUME flat[x] = flat[y] PROVE AlikeBelow(h, flat, x, y)
    OBVIOUS
  <2>1. Meet(flat[x], <<>>, flat[y], <<>>)
    BY DEF Meet
  <2> QED BY <1>4, <1>6, <2>1
<1> QED BY <1>5, <1>7

-----------------------------------------------------------------------------
(* What holds of an untaken node if it holds of those less deep holds of   *)
(* all.                                                                    *)
LEMMA FromAbove ==
  ASSUME NEW dep \in [Untaken -> 0..MaxNodes], NEW G,
         \A u \in Untaken : (\A v \in Untaken : dep[v] < dep[u] => v \in G) => u \in G
  PROVE  Untaken \subseteq G
<1> SUFFICES ASSUME Untaken \ G # {} PROVE FALSE
  OBVIOUS
<1> DEFINE D == {dep[u] : u \in Untaken \ G}
<1>1. D \in SUBSET Nat /\ D # {}
  BY Constants
<1>2. PICK m \in D : \A n \in D : m <= n
  <2> HIDE DEF D
  <2> QED BY <1>1, LeastNat
<1>3. PICK u \in Untaken \ G : m = dep[u]
  OBVIOUS
<1>4. \A v \in Untaken : dep[v] < dep[u] => v \in G
  <2> SUFFICES ASSUME NEW v \in Untaken, dep[v] < dep[u], v \notin G PROVE FALSE
    OBVIOUS
  <2>1. dep[v] \in D /\ dep[u] \in D
    OBVIOUS
  <2>2. dep[v] \in Nat /\ dep[u] \in Nat /\ dep[u] <= dep[v]
    BY <1>1, <1>2, <1>3, <2>1
  <2> QED BY <2>2
<1> QED BY <1>3, <1>4

(* An untaken node below another is less deep.                             *)
LEMMA ParentAbove ==
  ASSUME NEW dep \in [Untaken -> 0..MaxNodes], IsDepth(dep), NEW u \in Untaken, UnderUntaken(u)
  PROVE  dep[heap[u].parent] < dep[u]
<1>1. heap[u].parent \in Untaken /\ dep[u] = dep[heap[u].parent] + 1
  BY DEF UnderUntaken, IsDepth
<1>2. dep[heap[u].parent] \in Nat
  BY <1>1, Constants
<1> QED BY <1>1, <1>2

(* So all that is live is in a list or below a node still to be taken.     *)
LEMMA LiveReached ==
  ASSUME OwnInv
  PROVE  Kept \cup UNION {Below(p) : p \in PendingNodes} = Live
<1> DEFINE W == UNION {Below(p) : p \in PendingNodes}
<1>1. ListsHold /\ HeapHolds /\ CallsHold /\ AllReached /\ Deep /\ Kept \subseteq Live
  BY KeptAre DEF OwnInv
<1>2. PICK dep \in [Untaken -> 0..MaxNodes] : IsDepth(dep)
  BY <1>1 DEF Deep
<1>3. \A u : u \in PendingNodes <=> AheadOfCall(u)
  <2> DEFINE nodes(k) == IF calls[k].node = NULL THEN {calls[k].next}
                         ELSE {heap[calls[k].node].subnodes[i] :
                                 i \in calls[k].next..Len(heap[calls[k].node].subnodes)}
             ahead(k, u) == IF calls[k].node = NULL THEN calls[k].next = u
                            ELSE \E i \in Ahead(k) : heap[calls[k].node].subnodes[i] = u
  <2>1. \A k \in DOMAIN calls : \A u : u \in nodes(k) <=> ahead(k, u)
    BY DEF Ahead
  <2>2. PendingNodes = UNION {nodes(k) : k \in DOMAIN calls}
    BY DEF PendingNodes
  <2>3. \A u : AheadOfCall(u) <=> \E k \in DOMAIN calls : ahead(k, u)
    BY DEF AheadOfCall
  <2> HIDE DEF nodes, ahead
  <2> QED BY <2>1, <2>2, <2>3
<1>4. PendingNodes \subseteq Untaken
  BY <1>1, <1>3 DEF CallsHold, AheadOfCall
<1>5. \A p \in PendingNodes : OwnSubtree(p, Below(p))
  BY <1>1, <1>4, BelowOwned
<1>6. Untaken \subseteq W
  <2>1. ASSUME NEW u \in Untaken, \A v \in Untaken : dep[v] < dep[u] => v \in W
        PROVE  u \in W
    <3>1. CASE AheadOfCall(u)
      BY <1>3, <1>5, <3>1 DEF OwnSubtree
    <3>2. CASE UnderUntaken(u)
      <4>1. heap[u].parent \in W
        BY <1>2, <2>1, <3>2, ParentAbove DEF UnderUntaken
      <4>2. PICK p \in PendingNodes : heap[u].parent \in Below(p)
        BY <4>1
      <4>3. u \in Below(p)
        BY <1>5, <3>2, <4>2 DEF OwnSubtree, UnderUntaken
      <4> QED BY <4>3
    <3> QED BY <1>1, <3>1, <3>2 DEF AllReached
  <2> HIDE DEF W
  <2> QED BY <2>1, FromAbove
<1>7. W \subseteq Untaken
  BY <1>5 DEF OwnSubtree
<1> QED BY <1>1, <1>6, <1>7 DEF Untaken

(* All that is freed with a duplicate has the hash of something that stays: *)
(* the duplicate has, by the node seen first, and what is below it then    *)
(* has what is below that.                                                 *)
LEMMA SameBelow ==
  ASSUME OwnInv, HashInv, Arities, NEW flat, Hashed(flat), TakeDuplicate
  PROVE  {flat[x] : x \in Live'} = {flat[x] : x \in Live}
<1> DEFINE a == Pending
           S == Below(Pending)
           b == seen[Hash(Pending)]
           Stays(x) == /\ x = a \/ Len(flat[x]) < Len(flat[a])
                       /\ \E y \in Live \ S : flat[y] = flat[x]
           G == {x \in Untaken : x \in S => Stays(x)}
<1>1. /\ ListsHold /\ HeapHolds /\ CallsHold /\ AllReached /\ Deep
      /\ HeapIs(heap) /\ HasArity(heap) /\ IsFlat(heap, flat)
  BY HeapTyped DEF OwnInv, Arities, Hashed
<1>2. a \in Untaken /\ a \in Live /\ OwnSubtree(a, S) /\ b \in Kept /\ b \in Live /\ flat[b] = flat[a]
  BY DuplicatePatch DEF DuplicateFacts
<1>3. Live' = Live \ S
  BY DuplicatePatch DEF DuplicateFacts, Patched
<1> HIDE DEF a, S, b
<1>4. PICK dep \in [Untaken -> 0..MaxNodes] : IsDepth(dep)
  BY <1>1 DEF Deep
<1>5. ASSUME NEW x \in Live
      PROVE  /\ Len(flat[x]) \in Nat /\ Len(heap[x].subnodes) \in Nat
             /\ DOMAIN heap[x].subnodes = 1..Len(heap[x].subnodes)
             /\ \A i \in DOMAIN heap[x].subnodes : Len(flat[heap[x].subnodes[i]]) < Len(flat[x])
  <2>1. FlatFacts(heap, flat, x)
    BY <1>1, FlatIs DEF Live
  <2>2. Len(flat[x]) \in Nat
    BY <2>1, Constants DEF FlatFacts
  <2> QED BY <2>1, <2>2 DEF FlatFacts, UnderFacts
<1>6. ASSUME NEW x \in Untaken, x \in S, \A v \in Untaken : dep[v] < dep[x] => v \in G
      PROVE  Stays(x)
  <2>1. CASE x = a
    BY <1>2, <2>1 DEF OwnSubtree, Untaken
  <2>2. CASE x # a
    <3> DEFINE p == heap[x].parent
    <3>1. p \in S /\ p \in Untaken /\ p \in Live
      BY <1>2, <1>6, <2>2 DEF OwnSubtree, Untaken
    <3>2. UnderUntaken(x)
      <4> SUFFICES ASSUME AheadOfCall(x) PROVE FALSE
        BY <1>1 DEF AllReached
      <4>1. p = NULL \/ p \in Kept
        <5>1. PICK k \in DOMAIN calls :
                IF calls[k].node = NULL THEN calls[k].next = x
                ELSE \E i \in Ahead(k) : heap[calls[k].node].subnodes[i] = x
          BY DEF AheadOfCall
        <5>2. CASE calls[k].node = NULL
          BY <1>1, <5>1, <5>2 DEF CallsHold
        <5>3. CASE calls[k].node # NULL
          <6> DEFINE q == calls[k].node
          <6>1. PICK i \in Ahead(k) : heap[q].subnodes[i] = x
            BY <5>1, <5>3
          <6>2. /\ q \in Kept /\ q \in Live /\ calls[k].next \in 1..(Len(heap[q].subnodes) + 1)
            BY <1>1, <5>3, KeptAre DEF CallsHold
          <6> HIDE DEF q
          <6>3. i \in DOMAIN heap[q].subnodes
            <7>1. i \in calls[k].next..Len(heap[q].subnodes)
              BY <6>1 DEF Ahead, q
            <7>2. DOMAIN heap[q].subnodes = 1..Len(heap[q].subnodes) /\ Len(heap[q].subnodes) \in Nat
              BY <1>5, <6>2
            <7> QED BY <6>2, <7>1, <7>2
          <6>4. heap[x].parent = q
            BY <1>1, <1>6, <6>1, <6>2, <6>3 DEF HeapHolds
          <6> QED BY <6>2, <6>4
        <5> QED BY <5>2, <5>3
      <4> QED BY <1>1, <3>1, <4>1, Constants DEF HeapHolds, Untaken, NULL
    <3>3. PICK i \in DOMAIN heap[p].subnodes : heap[p].subnodes[i] = x
      BY <3>2 DEF UnderUntaken
    <3>4. dep[p] < dep[x]
      BY <1>4, <3>2, ParentAbove
    <3> HIDE DEF p
    <3>5. Stays(p)
      BY <1>6, <3>1, <3>4
    <3>6. PICK y \in Live \ S : flat[y] = flat[p]
      BY <3>5
    <3> DEFINE z == heap[y].subnodes[i]
    <3>7. i \in DOMAIN heap[y].subnodes /\ z \in Live /\ flat[z] = flat[x]
      <4>1. AlikeBelow(heap, flat, p, y)
        BY <1>1, <3>1, <3>6, HashDecodes DEF Live
      <4>2. i \in 1..Len(heap[y].subnodes) /\ flat[z] = flat[x]
        BY <1>5, <3>1, <3>3, <4>1 DEF AlikeBelow
      <4>3. i \in DOMAIN heap[y].subnodes
        BY <1>5, <3>6, <4>2
      <4> QED BY <1>1, <3>6, <4>2, <4>3 DEF HeapHolds
    <3>8. Len(flat[x]) < Len(flat[a])
      <4>1. Len(flat[x]) < Len(flat[p])
        BY <1>5, <3>1, <3>3
      <4>2. p = a \/ Len(flat[p]) < Len(flat[a])
        BY <3>5
      <4>3. Len(flat[x]) \in Nat /\ Len(flat[p]) \in Nat /\ Len(flat[a]) \in Nat
        BY <1>2, <1>5, <3>1 DEF Untaken
      <4> QED BY <4>1, <4>2, <4>3
    <3>9. z \notin S
      <4> SUFFICES ASSUME z \in S PROVE FALSE
        OBVIOUS
      <4>1. z # a
        <5>1. Len(flat[a]) \in Nat
          BY <1>2, <1>5
        <5> QED BY <3>7, <3>8, <5>1
      <4>2. heap[z].parent \in S /\ z \in Untaken
        BY <1>2, <4>1 DEF OwnSubtree
      <4>3. heap[z].parent = y
        BY <1>1, <3>6, <3>7, <4>2 DEF HeapHolds
      <4> QED BY <3>6, <4>2, <4>3
    <3> QED BY <3>7, <3>8, <3>9
  <2> QED BY <2>1, <2>2
<1>7. Untaken \subseteq G
  <2>1. \A u \in Untaken : (\A v \in Untaken : dep[v] < dep[u] => v \in G) => u \in G
    BY <1>6
  <2> HIDE DEF G
  <2> QED BY <2>1, FromAbove
<1>8. \A x \in S : x \in Live /\ \E y \in Live \ S : flat[y] = flat[x]
  BY <1>2, <1>7 DEF OwnSubtree, Untaken
<1> QED BY <1>3, <1>8

-----------------------------------------------------------------------------
(* The subtrees of an input are what the hashes of its clone's nodes are   *)
(* rebuilt to.                                                             *)
LEMMA InputChunks ==
  ASSUME FixedArity(Inputs), NEW t \in Inputs
  PROVE  InputSubtrees(t) = {Mapped(Rebuilt, Segments(t, PairsOf(t))[k]) : k \in 1..Len(t)}
<1> DEFINE T == PairsOf(t)
           seg == Segments(t, T)
           size(k) == NonTermSize(t, k)
           node(j) == [id |-> t[j].id, val |-> t[j].val, count |-> Cardinality(Children(t, j))]
           n == Len(t)
<1>1. /\ IsTree(t) /\ t \in Seq(Nodes) /\ NodeSet(Nodes) /\ n \in Nat /\ DOMAIN t = 1..n
      /\ \A k \in 1..n : t[k].id \in Ids /\ t[k].val \in Vals
  BY InputNodes
<1>2. T \in Seq(Pairs) /\ Len(T) = n
  <2>1. T \in [1..n -> Pairs]
    BY <1>1 DEF PairsOf, Pairs
  <2> HIDE DEF T
  <2> QED BY <1>1, <2>1, LenProperties
<1>3. ASSUME NEW j \in 1..n
      PROVE  Rebuilt[T[j]] = node(j)
  <2>1. T[j] = <<t[j].id, t[j].val>> /\ T[j] \in Pairs
    BY <1>1 DEF PairsOf, Pairs
  <2>2. Rebuilt[T[j]] = [id |-> T[j][1], val |-> T[j][2], count |-> Arity(T[j])]
    BY <2>1 DEF Rebuilt
  <2>3. Arity(T[j]) = Cardinality(Children(t, j))
    BY <2>1, ArityIs
  <2> QED BY <2>1, <2>2, <2>3
<1>4. ASSUME NEW k \in 1..n
      PROVE  Mapped(Rebuilt, seg[k]) = [j \in 1..size(k) |-> node(k+j-1)]
  <2>1. SegmentFacts(t, T, Pairs, k)
    BY <1>1, <1>2, SegmentIs
  <2>2. /\ seg[k] \in Seq(Pairs) /\ Len(seg[k]) = size(k)
        /\ \A j \in 1..size(k) : seg[k][j] = T[k+j-1]
    BY <2>1 DEF SegmentFacts
  <2>3. DOMAIN seg[k] = 1..size(k)
    BY <2>2, LenProperties
  <2>4. ASSUME NEW j \in 1..size(k) PROVE k+j-1 \in 1..n
    <3>1. SubtreeEnd(t, k) \in k..n
      BY <1>1, SubtreeEndExists
    <3>2. j \in 1..(SubtreeEnd(t, k) - k + 1)
      BY DEF NonTermSize
    <3> HIDE DEF n
    <3> QED BY <1>1, <3>1, <3>2
  <2> HIDE DEF seg, T, node, size, n
  <2>5. \A j \in 1..size(k) : Rebuilt[seg[k][j]] = node(k+j-1)
    BY <1>3, <2>2, <2>4
  <2> QED BY <2>3, <2>5 DEF Mapped
<1>5. InputSubtrees(t) = {[j \in 1..size(k) |-> node(k+j-1)] : k \in 1..n}
  BY <1>1 DEF InputSubtrees
<1> HIDE DEF seg, size, node, n
<1>6. {[j \in 1..size(k) |-> node(k+j-1)] : k \in 1..n} = {Mapped(Rebuilt, seg[k]) : k \in 1..n}
  BY <1>4
<1> QED BY <1>5, <1>6 DEF seg, n

(* What the store holds for the specification that it implements, by the   *)
(* hashes of the live nodes.                                               *)
Stored == {Contents(a) : a \in Kept \cup UNION {Below(p) : p \in PendingNodes}}

StoredIs ==
  \A flat : Hashed(flat) => Stored = {Mapped(Rebuilt, flat[a]) : a \in Live}

LEMMA StoredInvariance == OwnInv /\ Arities => StoredIs
<1> SUFFICES ASSUME OwnInv, Arities, NEW flat, Hashed(flat)
             PROVE  Stored = {Mapped(Rebuilt, flat[a]) : a \in Live}
  BY DEF StoredIs
<1>1. HeapIs(heap) /\ HasArity(heap) /\ IsFlat(heap, flat)
  BY HeapTyped DEF OwnInv, Arities, Hashed
<1>2. \A a \in Live : Contents(a) = Mapped(Rebuilt, flat[a])
  BY <1>1, HeapBefore, ContentsFromHash DEF Live
<1>3. Stored = {Contents(a) : a \in Live}
  BY LiveReached DEF Stored
<1> QED BY <1>2, <1>3

(* One step of the store is one of the set, or none.                       *)
LEMMA AddStores ==
  ASSUME FixedArity(Inputs), OwnInv, HashInv, StoredIs, StoredIs', NEW t \in Inputs, AddTree(t)
  PROVE  Stored' = Stored \cup InputSubtrees(t)
<1> DEFINE at == Ascending(Addr \ Live)
           seg == Segments(t, PairsOf(t))
           n == Len(t)
<1>1. PICK flat : Hashed(flat)
  BY DEF HashInv
<1>2. Cloned(t, at, Clone(t)) /\ heap' = Clone(t)
  BY CloneIs DEF OwnInv, AddTree
<1>3. PICK new : ClonedFlat(t, flat, at, new)
  BY <1>1, <1>2, ClonedFlatExists DEF Hashed
<1>4. Hashed(new)'
  BY <1>1, <1>3, AddHashed
<1>5. Live' = Live \cup {at[k] : k \in 1..n}
  BY <1>2 DEF Cloned, Live
<1>6. (\A a \in Live : new[a] = flat[a]) /\ \A k \in 1..n : new[at[k]] = seg[k]
  BY <1>3 DEF ClonedFlat
<1>7. InputSubtrees(t) = {Mapped(Rebuilt, seg[k]) : k \in 1..n}
  BY InputChunks
<1>8. Stored = {Mapped(Rebuilt, flat[a]) : a \in Live}
  BY <1>1 DEF StoredIs
<1>9. Stored' = {Mapped(Rebuilt, new[a]) : a \in Live'}
  BY <1>4 DEF StoredIs
<1> HIDE DEF at, seg, n
<1>10. {Mapped(Rebuilt, new[a]) : a \in Live'}
         = {Mapped(Rebuilt, flat[a]) : a \in Live} \cup {Mapped(Rebuilt, seg[k]) : k \in 1..n}
  <2>1. \A x : x \in {Mapped(Rebuilt, new[a]) : a \in Live'}
                 <=> \/ \E a \in Live : x = Mapped(Rebuilt, new[a])
                     \/ \E k \in 1..n : x = Mapped(Rebuilt, new[at[k]])
    BY <1>5
  <2> QED BY <1>6, <2>1
<1> QED BY <1>7, <1>8, <1>9, <1>10

LEMMA StoreUnchanged ==
  ASSUME NEW flat, Hashed(flat), NEW new, Hashed(new)', StoredIs, StoredIs',
         {flat[a] : a \in Live} = {new[a] : a \in Live'}
  PROVE  Stored' = Stored
<1>1. Stored = {Mapped(Rebuilt, flat[a]) : a \in Live}
  BY DEF StoredIs
<1>2. Stored' = {Mapped(Rebuilt, new[a]) : a \in Live'}
  BY DEF StoredIs
<1> DEFINE H == {flat[a] : a \in Live}
           K == {new[a] : a \in Live'}
<1>3. Stored = {Mapped(Rebuilt, p) : p \in H}
  BY <1>1
<1>4. Stored' = {Mapped(Rebuilt, p) : p \in K}
  BY <1>2
<1>5. H = K
  OBVIOUS
<1> HIDE DEF H, K
<1> QED BY <1>3, <1>4, <1>5

LEMMA DuplicateStores ==
  ASSUME OwnInv, HashInv, Arities, StoredIs, StoredIs', TakeDuplicate
  PROVE  Stored' = Stored
<1>1. PICK flat : Hashed(flat)
  BY DEF HashInv
<1>2. PICK new : new = [x \in Live' |-> flat[x]]
  OBVIOUS
<1>3. Hashed(new)'
  BY <1>1, <1>2, DuplicateHashed
<1>4. {flat[x] : x \in Live'} = {flat[x] : x \in Live}
  BY <1>1, SameBelow
<1>5. {new[x] : x \in Live'} = {flat[x] : x \in Live'}
  BY <1>2
<1>6. {flat[x] : x \in Live} = {new[x] : x \in Live'}
  BY ONLY <1>4, <1>5
<1> QED BY <1>1, <1>3, <1>6, StoreUnchanged

LEMMA NewStores ==
  ASSUME OwnInv, HashInv, StoredIs, StoredIs', TakeNew
  PROVE  Stored' = Stored
<1>1. PICK flat : Hashed(flat)
  BY DEF HashInv
<1>2. Hashed(flat)' /\ Live' = Live
  BY <1>1, NewHashed
<1>3. {flat[x] : x \in Live} = {flat[x] : x \in Live'}
  BY <1>2
<1> QED BY <1>1, <1>2, <1>3, StoreUnchanged

LEMMA IdleStores ==
  ASSUME HashInv, StoredIs, StoredIs', UNCHANGED <<heap, lists, seen>>
  PROVE  Stored' = Stored
<1>1. PICK flat : Hashed(flat)
  BY DEF HashInv
<1>2. Hashed(flat)' /\ Live' = Live
  BY <1>1 DEF Hashed, Kept, Live
<1>3. {flat[x] : x \in Live} = {flat[x] : x \in Live'}
  BY <1>2
<1> QED BY <1>1, <1>2, <1>3, StoreUnchanged

LEMMA ClearStores ==
  ASSUME OwnInv, Clear
  PROVE  Stored' = {}
<1>1. Live = Kept
  BY NothingUntaken DEF Clear
<1>2. Kept' = {} /\ calls' = <<>>
  BY DEF Clear, Kept, Range
<1>3. PendingNodes' = {}
  BY <1>2 DEF PendingNodes
<1> QED BY <1>2, <1>3 DEF Stored

LEMMA FirstIs ==
  ASSUME NEW R, NEW p, <<p>> \in Seq(R), NEW x \in Seq(R)
  PROVE  1 \in DOMAIN (<<p>> \o x) /\ (<<p>> \o x)[1] = p
<1>1. Len(x) \in Nat /\ Len(<<p>>) = 1 /\ <<p>>[1] = p
  BY LenProperties
<1>2. /\ DOMAIN (<<p>> \o x) = 1..(1 + Len(x))
      /\ \A i \in 1..(1 + Len(x)) : (<<p>> \o x)[i] = IF i <= 1 THEN <<p>>[i] ELSE x[i-1]
  <2>1. /\ <<p>> \o x \in Seq(R) /\ Len(<<p>> \o x) = 1 + Len(x)
        /\ \A i \in 1..(1 + Len(x)) : (<<p>> \o x)[i] = IF i <= 1 THEN <<p>>[i] ELSE x[i-1]
    BY <1>1, ConcatProperties
  <2> QED BY <2>1, LenProperties
<1> QED BY <1>1, <1>2

LEMMA DrawnFromStore ==
  ASSUME OwnInv, HashInv, Arities, NEW id \in Ids, GetAlternativeNode(id)
  PROVE  \E c \in Stored : drawn' = <<ChunkSymbol(c), c>>
<1>1. PICK i \in DOMAIN lists[id] : drawn' = <<id, Contents(lists[id][i])>>
  BY DEF GetAlternativeNode
<1> DEFINE a == lists[id][i]
           c == Contents(a)
<1>2. ListsHold /\ a \in Kept /\ a \in Live /\ heap[a].id = id
  BY KeptAre DEF OwnInv, ListsHold
<1>3. c \in Stored
  BY <1>2 DEF Stored
<1>4. PICK flat : Hashed(flat)
  BY DEF HashInv
<1>5. HeapIs(heap) /\ HasArity(heap) /\ IsFlat(heap, flat)
  BY <1>4, HeapTyped DEF OwnInv, Arities, Hashed
<1> HIDE DEF a
<1>6. c = Mapped(Rebuilt, flat[a])
  BY <1>2, <1>5, HeapBefore, ContentsFromHash DEF Live
<1>7. FlatFacts(heap, flat, a) /\ flat[a] = <<PairOf(heap[a])>> \o FlattenSeq(Under(heap, flat, a))
  BY <1>2, <1>5, FlatIs DEF IsFlat, Live
<1>8. 1 \in DOMAIN flat[a] /\ flat[a][1] = PairOf(heap[a])
  BY <1>7, FirstIs DEF FlatFacts, UnderFacts
<1>9. PairOf(heap[a]) \in Pairs /\ PairOf(heap[a])[1] = heap[a].id
  BY <1>2, <1>5 DEF HeapIs, PairOf, Pairs, Live
<1>10. c[1] = Rebuilt[PairOf(heap[a])]
  BY <1>6, <1>8 DEF Mapped
<1>11. c[1].id = id
  BY <1>2, <1>9, <1>10 DEF Rebuilt
<1> HIDE DEF c
<1>12. drawn' = <<ChunkSymbol(c), c>>
  BY <1>1, <1>11 DEF ChunkSymbol, a, c
<1> QED BY <1>3, <1>12

LEMMA StoreStep ==
  ASSUME FixedArity(Inputs), OwnInv, HashInv, Arities, StoredIs, StoredIs', [Next]_vars
  PROVE  \/ \E t \in Inputs : Stored' = Stored \cup InputSubtrees(t) /\ UNCHANGED drawn
         \/ \E c \in Stored : drawn' = <<ChunkSymbol(c), c>> /\ UNCHANGED Stored
         \/ Stored' = {} /\ UNCHANGED drawn
         \/ UNCHANGED <<Stored, drawn>>
<1>1. ASSUME NEW t \in Inputs, AddTree(t)
      PROVE  Stored' = Stored \cup InputSubtrees(t) /\ UNCHANGED drawn
  BY <1>1, AddStores DEF AddTree
<1>2. CASE TakeDuplicate
  BY <1>2, DuplicateStores DEF TakeDuplicate
<1>3. CASE TakeNew
  BY <1>3, NewStores DEF TakeNew
<1>4. CASE Return
  BY <1>4, IdleStores DEF Return
<1>5. ASSUME NEW id \in Ids, GetAlternativeNode(id)
      PROVE  \E c \in Stored : drawn' = <<ChunkSymbol(c), c>> /\ UNCHANGED Stored
  BY <1>5, IdleStores, DrawnFromStore DEF GetAlternativeNode
<1>6. CASE Clear
  BY <1>6, ClearStores DEF Clear
<1>7. CASE UNCHANGED vars
  BY <1>7, IdleStores DEF vars
<1> QED BY <1>1, <1>2, <1>3, <1>4, <1>5, <1>6, <1>7 DEF Next, TakeNode

(* The chunk store implements a set of subtrees, if the rule of a node     *)
(* determines how many subnodes it has: adding a tree adds all its         *)
(* subtrees, at once as it were, freeing duplicates and patching the       *)
(* pointers to them never loses one, and what is drawn is always a copy of *)
(* a subtree in the set with the symbol asked for.                         *)
THEOREM ChunkStoreIsASetOfSubtrees ==
  ASSUME FixedArity(Inputs)
  PROVE  Spec => IsASetOfSubtrees
<1>1. Init => Chunks!Init
  <2> SUFFICES ASSUME Init PROVE Chunks!Init
    OBVIOUS
  <2>1. Kept = {} /\ PendingNodes = {} /\ drawn = <<>>
    BY DEF Init, Kept, Range, PendingNodes
  <2> QED BY <2>1 DEF Chunks!Init
<1>2. OwnInv /\ HashInv /\ Arities /\ StoredIs /\ StoredIs' /\ [Next]_vars => [Chunks!Next]_(Chunks!set)
  <2> SUFFICES ASSUME OwnInv, HashInv, Arities, StoredIs, StoredIs', [Next]_vars
               PROVE  [Chunks!Next]_(Chunks!set)
    OBVIOUS
  <2>1. \/ \E t \in Inputs : Stored' = Stored \cup InputSubtrees(t) /\ UNCHANGED drawn
        \/ \E c \in Stored : drawn' = <<ChunkSymbol(c), c>> /\ UNCHANGED Stored
        \/ Stored' = {} /\ UNCHANGED drawn
        \/ UNCHANGED <<Stored, drawn>>
    BY StoreStep
  <2>2. ASSUME NEW t \in Inputs, Stored' = Stored \cup InputSubtrees(t), UNCHANGED drawn
        PROVE  Chunks!AddTree(t)
    BY <2>2 DEF Stored, Chunks!AddTree
  <2>3. ASSUME NEW c \in Stored, drawn' = <<ChunkSymbol(c), c>>, UNCHANGED Stored
        PROVE  Chunks!Next
    BY <2>3 DEF Stored, Chunks!Next, Chunks!GetAlternative
  <2>4. ASSUME Stored' = {}, UNCHANGED drawn PROVE Chunks!Clear
    BY <2>4 DEF Stored, Chunks!Clear
  <2>5. ASSUME UNCHANGED <<Stored, drawn>> PROVE UNCHANGED Chunks!set
    BY <2>5 DEF Stored, Chunks!set
  <2> QED BY <2>1, <2>2, <2>3, <2>4, <2>5 DEF Chunks!Next
<1> QED BY <1>1, <1>2, ArityInvariance, StoredInvariance, PTL DEF Spec, IsASetOfSubtrees, Chunks!Spec
=============================================================================
