-------------------------- MODULE ValueTreesProofs --------------------------
(***************************************************************************)
(* Proofs about trees of values: where a path leads, which paths a tree    *)
(* has, and what a merged tree has at each of them.                        *)
(***************************************************************************)
EXTENDS ValueTrees, SequenceTheorems, WellFoundedInduction, TLAPS

-----------------------------------------------------------------------------
(* Induction, over numbers and over paths, for sets: the library's         *)
(* theorems state it for operators.                                        *)

LEMMA Induction ==
  ASSUME NEW S, 0 \in S, \A n \in Nat : n \in S => n + 1 \in S
  PROVE  Nat \subseteq S
<1> SUFFICES ASSUME Nat \ S # {} PROVE FALSE
  OBVIOUS
<1> DEFINE T == Nat \ S
<1>1. PICK least \in T : \A n \in T : ~(<<n, least>> \in OpToRel(<, Nat))
  <2>1. T \subseteq Nat /\ T # {}
    OBVIOUS
  <2> HIDE DEF T
  <2> QED BY <2>1, NatLessThanWellFounded, WFMin
<1>2. least \in Nat /\ least # 0 /\ least - 1 \in Nat
  OBVIOUS
<1>3. least - 1 \in T
  <2>1. (least - 1) + 1 = least
    BY <1>2
  <2> QED BY <1>2, <2>1
<1>4. <<least - 1, least>> \in OpToRel(<, Nat)
  BY <1>2 DEF OpToRel
<1> QED BY <1>1, <1>3, <1>4

Key  == STRING
Path == Seq(Key)

LEMMA Extended ==
  ASSUME NEW p \in Path, NEW k \in Key
  PROVE  /\ Append(p, k) \in Path
         /\ Len(p) \in Nat /\ Len(Append(p, k)) = Len(p) + 1
         /\ \A n \in 1 .. Len(p) : Append(p, k)[n] = p[n]
         /\ Append(p, k)[Len(p) + 1] = k
BY AppendProperties, LenProperties DEF Path

LEMMA OneKey ==
  ASSUME NEW k \in Key
  PROVE  <<k>> \in Path /\ <<k>> = Append(<<>>, k) /\ <<>> \in Path
<1>1. <<>> \in Path
  BY EmptySeq DEF Path
<1>2. <<k>> = Append(<<>>, k)
  OBVIOUS
<1> QED BY <1>1, <1>2, Extended

(* A path that is not empty extends another one.                           *)
LEMMA Extends ==
  ASSUME NEW p \in Path, p # <<>>
  PROVE  \E q \in Path, k \in Key : p = Append(q, k) /\ Len(p) = Len(q) + 1
<1>1. PICK q \in Path, k \in Key : p = Append(q, k)
  BY SequenceEmptyOrAppend DEF Path
<1> QED BY <1>1, Extended

LEMMA PathInduction ==
  ASSUME NEW S, <<>> \in S, \A p \in Path, k \in Key : p \in S => Append(p, k) \in S
  PROVE  Path \subseteq S
<1> DEFINE Lengths == {n \in Nat : \A p \in Path : Len(p) = n => p \in S}
<1>1. 0 \in Lengths
  <2>1. ASSUME NEW p \in Path, Len(p) = 0 PROVE p \in S
    BY <2>1, EmptySeq DEF Path
  <2> QED BY <2>1
<1>2. ASSUME NEW n \in Nat, n \in Lengths PROVE n + 1 \in Lengths
  <2>1. ASSUME NEW p \in Path, Len(p) = n + 1 PROVE p \in S
    <3>1. p # <<>>
      BY <2>1, EmptySeq
    <3>2. PICK q \in Path, k \in Key : p = Append(q, k) /\ Len(p) = Len(q) + 1
      BY <3>1, Extends
    <3>3. Len(q) = n
      BY <2>1, <3>2, LenProperties DEF Path
    <3> QED BY <1>2, <3>2, <3>3
  <2> QED BY <2>1
<1>3. Nat \subseteq Lengths
  <2> HIDE DEF Lengths
  <2> QED BY <1>1, <1>2, Induction
<1>4. ASSUME NEW p \in Path PROVE p \in S
  BY <1>3, LenProperties DEF Path
<1> QED BY <1>4

-----------------------------------------------------------------------------
(* Where a path leads.                                                     *)

(* Follow keeps the equation it is defined by, for the places of one path. *)
LEMMA FollowSteps ==
  ASSUME NEW tree, NEW path, Len(path) \in Nat
  PROVE  \E at : /\ at = [n \in 0 .. Len(path) |->
                            IF n = 0 THEN tree ELSE Child(at[n - 1], path[n])]
                 /\ Follow(tree, path) = at[Len(path)]
<1> DEFINE Step(at, n) == IF n = 0 THEN tree ELSE Child(at[n - 1], path[n])
           Known == {m \in Nat : \E at : at = [n \in 0 .. m |-> Step(at, n)]}
<1>1. 0 \in Known
  <2> DEFINE at == [n \in 0 .. 0 |-> tree]
  <2>1. at = [n \in 0 .. 0 |-> Step(at, n)]
    OBVIOUS
  <2> QED BY <2>1
<1>2. ASSUME NEW m \in Nat, m \in Known PROVE m + 1 \in Known
  <2>1. PICK at : at = [n \in 0 .. m |-> Step(at, n)]
    BY <1>2
  <2> DEFINE new == [n \in 0 .. m + 1 |-> IF n = m + 1 THEN Child(at[m], path[m + 1]) ELSE at[n]]
  <2>2. ASSUME NEW n \in 0 .. m + 1 PROVE new[n] = Step(new, n)
    <3>1. CASE n = m + 1
      BY <3>1
    <3>2. CASE n = 0
      BY <2>1, <3>2
    <3>3. CASE n # 0 /\ n # m + 1
      <4>1. n \in 0 .. m /\ n - 1 \in 0 .. m
        BY <3>3
      <4>2. new[n] = at[n] /\ new[n - 1] = at[n - 1]
        BY <4>1
      <4>3. at[n] = Child(at[n - 1], path[n])
        BY <2>1, <3>3, <4>1
      <4> QED BY <3>3, <4>2, <4>3
    <3> QED BY <3>1, <3>2, <3>3
  <2>3. new = [n \in 0 .. m + 1 |-> Step(new, n)]
    BY <2>2
  <2> HIDE DEF new
  <2> QED BY <2>3
<1>3. Len(path) \in Known
  <2> HIDE DEF Known
  <2> QED BY <1>1, <1>2, Induction
<1> DEFINE it == CHOOSE at : at = [n \in 0 .. Len(path) |-> Step(at, n)]
<1>4. it = [n \in 0 .. Len(path) |-> Step(it, n)]
  BY <1>3
<1>5. Follow(tree, path) = it[Len(path)]
  BY DEF Follow
<1> QED BY <1>4, <1>5

LEMMA FollowEmpty ==
  ASSUME NEW tree
  PROVE  Follow(tree, <<>>) = tree
<1>1. Len(<<>>) = 0
  BY EmptySeq
<1>2. PICK at : /\ at = [n \in 0 .. 0 |-> IF n = 0 THEN tree ELSE Child(at[n - 1], <<>>[n])]
                /\ Follow(tree, <<>>) = at[0]
  BY <1>1, FollowSteps
<1> QED BY <1>2

LEMMA FollowAppend ==
  ASSUME NEW tree, NEW p \in Path, NEW k \in Key
  PROVE  Follow(tree, Append(p, k)) = Child(Follow(tree, p), k)
<1> DEFINE q == Append(p, k)
<1>1. /\ Len(p) \in Nat /\ Len(q) = Len(p) + 1
      /\ \A n \in 1 .. Len(p) : q[n] = p[n]
      /\ q[Len(p) + 1] = k
  BY Extended
<1>2. PICK at : /\ at = [n \in 0 .. Len(p) |-> IF n = 0 THEN tree ELSE Child(at[n - 1], p[n])]
                /\ Follow(tree, p) = at[Len(p)]
  BY <1>1, FollowSteps
<1>3. PICK to : /\ to = [n \in 0 .. Len(q) |-> IF n = 0 THEN tree ELSE Child(to[n - 1], q[n])]
                /\ Follow(tree, q) = to[Len(q)]
  <2> HIDE DEF q
  <2>1. Len(q) \in Nat
    BY <1>1
  <2> QED BY <2>1, FollowSteps
<1> HIDE DEF q
<1> DEFINE Same == {n \in Nat : n <= Len(p) => at[n] = to[n]}
<1>4. 0 \in Same
  BY <1>1, <1>2, <1>3
<1>5. ASSUME NEW n \in Nat, n \in Same PROVE n + 1 \in Same
  <2>1. SUFFICES ASSUME n + 1 <= Len(p) PROVE at[n + 1] = to[n + 1]
    OBVIOUS
  <2>2. at[n] = to[n] /\ n + 1 \in 1 .. Len(p) /\ n + 1 \in 0 .. Len(q) /\ n + 1 # 0
    BY <1>1, <1>5, <2>1
  <2>3. at[n + 1] = Child(at[n], p[n + 1])
    BY <1>2, <2>2
  <2>4. to[n + 1] = Child(to[n], q[n + 1])
    BY <1>3, <2>2
  <2> QED BY <1>1, <2>2, <2>3, <2>4
<1>6. at[Len(p)] = to[Len(p)]
  <2>1. Len(p) \in Same
    <3> HIDE DEF Same
    <3> QED BY <1>1, <1>4, <1>5, Induction
  <2> QED BY <1>1, <2>1
<1>7. to[Len(q)] = Child(to[Len(p)], k)
  <2>1. Len(q) \in 0 .. Len(q) /\ Len(q) # 0 /\ Len(q) - 1 = Len(p)
    BY <1>1
  <2>2. to[Len(q)] = Child(to[Len(q) - 1], q[Len(q)])
    BY <1>3, <2>1
  <2> QED BY <1>1, <2>1, <2>2
<1>8. Follow(tree, q) = Child(Follow(tree, p), k)
  BY <1>2, <1>3, <1>6, <1>7
<1> QED BY <1>8 DEF q

LEMMA FollowConcat ==
  ASSUME NEW tree, NEW p \in Path, NEW q \in Path
  PROVE  Follow(tree, p \o q) = Follow(Follow(tree, p), q)
<1> DEFINE S == {r \in Path : Follow(tree, p \o r) = Follow(Follow(tree, p), r)}
<1>1. <<>> \in S
  BY FollowEmpty, ConcatEmptySeq, EmptySeq DEF Path
<1>2. ASSUME NEW r \in Path, NEW k \in Key, r \in S PROVE Append(r, k) \in S
  <2>1. p \o r \in Path /\ Append(r, k) \in Path
    BY ConcatProperties, Extended DEF Path
  <2>2. p \o Append(r, k) = Append(p \o r, k)
    <3>1. <<k>> \in Path
      BY OneKey
    <3>2. p \o Append(r, k) = p \o (r \o <<k>>)
      BY AppendIsConcat DEF Path
    <3>3. Append(p \o r, k) = (p \o r) \o <<k>>
      BY <2>1, AppendIsConcat DEF Path
    <3> QED BY <3>1, <3>2, <3>3, ConcatAssociative DEF Path
  <2>3. Follow(tree, Append(p \o r, k)) = Child(Follow(tree, p \o r), k)
    BY <2>1, FollowAppend
  <2>4. Follow(Follow(tree, p), Append(r, k)) = Child(Follow(Follow(tree, p), r), k)
    BY FollowAppend
  <2> QED BY <1>2, <2>1, <2>2, <2>3, <2>4
<1>3. Path \subseteq S
  <2> HIDE DEF S
  <2> QED BY <1>1, <1>2, PathInduction
<1> QED BY <1>3

(* The first key, and the way from there.                                  *)
LEMMA FollowFirst ==
  ASSUME NEW tree, NEW k \in Key, NEW p \in Path
  PROVE  <<k>> \in Path /\ <<k>> # <<>> /\ <<k>> \o p \in Path
         /\ Follow(tree, <<k>>) = Child(tree, k)
         /\ Follow(tree, <<k>> \o p) = Follow(Child(tree, k), p)
<1> DEFINE none == <<>>
           one  == <<k>>
<1>1. one = Append(none, k) /\ one \in Path /\ none \in Path /\ one # none
  BY OneKey
<1>2. Follow(tree, none) = tree
  BY FollowEmpty
<1>3. one \o p \in Path
  BY <1>1, ConcatProperties DEF Path
<1> HIDE DEF none, one
<1>4. Follow(tree, one) = Child(tree, k)
  BY <1>1, <1>2, FollowAppend
<1>5. Follow(tree, one \o p) = Follow(Follow(tree, one), p)
  BY <1>1, FollowConcat
<1> QED BY <1>1, <1>3, <1>4, <1>5 DEF one, none

(* Nothing comes after a leaf, or after nothing.                           *)
LEMMA FollowNothing ==
  ASSUME NEW tree, ~IsNode(tree), NEW p \in Path, p # <<>>
  PROVE  Follow(tree, p) = Nothing
<1> DEFINE S == {r \in Path : r # <<>> => Follow(tree, r) = Nothing}
<1>1. <<>> \in S
  BY EmptySeq DEF Path
<1>2. ASSUME NEW r \in Path, NEW k \in Key, r \in S PROVE Append(r, k) \in S
  <2>1. ~IsNode(Follow(tree, r))
    BY <1>2, FollowEmpty DEF Nothing, IsNode
  <2>2. Child(Follow(tree, r), k) = Nothing
    BY <2>1 DEF Child, Fields, NoFields
  <2> QED BY <2>2, FollowAppend, Extended
<1>3. Path \subseteq S
  <2> HIDE DEF S
  <2> QED BY <1>1, <1>2, PathInduction
<1> QED BY <1>3

-----------------------------------------------------------------------------
(* The paths of a tree.                                                    *)

LEMMA KeyLeads ==
  ASSUME NEW fields, NEW p \in Path, NEW k \in Key
  PROVE  /\ At(fields, <<>>) = Node(fields)
         /\ At(fields, Append(p, k)) = Child(At(fields, p), k)
         /\ At(fields, Append(p, k)) # Nothing =>
              At(fields, p) # Nothing /\ k \in DOMAIN Fields(At(fields, p))
<1>1. At(fields, <<>>) = Node(fields)
  BY FollowEmpty DEF At
<1>2. At(fields, Append(p, k)) = Child(At(fields, p), k)
  BY FollowAppend DEF At
<1>3. k \notin DOMAIN Fields(At(fields, p)) => Child(At(fields, p), k) = Nothing
  BY DEF Child
<1>4. k \notin DOMAIN Fields(Nothing)
  BY DEF Fields, IsNode, Nothing, NoFields
<1> QED BY <1>1, <1>2, <1>3, <1>4

LEMMA NodeIsNode ==
  ASSUME NEW fields
  PROVE  /\ IsNode(Node(fields)) /\ ~IsLeaf(Node(fields)) /\ Node(fields) # Nothing
         /\ Fields(Node(fields)) = fields /\ Node(fields).fields = fields
BY DEF Node, IsNode, IsLeaf, Nothing, Fields

LEMMA NothingThere ==
  ~IsLeaf(Nothing) /\ ~IsNode(Nothing) /\ DOMAIN Fields(Nothing) = {}
BY DEF Nothing, IsLeaf, IsNode, Fields, NoFields

Longer(fields, paths) == UNION {{Append(p, k) : k \in DOMAIN Fields(At(fields, p))} : p \in paths}

AreLevels(level, fields) ==
  /\ level = [n \in 0 .. MaxDepth |->
                IF n = 0 THEN {<<>>}
                ELSE UNION {{Append(p, k) : k \in DOMAIN Fields(At(fields, p))} : p \in level[n - 1]}]
  /\ Paths(fields) = UNION {level[n] : n \in 1 .. MaxDepth}

LEMMA LevelSteps ==
  ASSUME NEW fields
  PROVE  \E level : AreLevels(level, fields)
<1> DEFINE Step(level, n) == IF n = 0 THEN {<<>>} ELSE Longer(fields, level[n - 1])
           Known == {m \in Nat : \E level : level = [n \in 0 .. m |-> Step(level, n)]}
<1>1. 0 \in Known
  <2> DEFINE level == [n \in 0 .. 0 |-> {<<>>}]
  <2>1. level = [n \in 0 .. 0 |-> Step(level, n)]
    OBVIOUS
  <2> QED BY <2>1
<1>2. ASSUME NEW m \in Nat, m \in Known PROVE m + 1 \in Known
  <2>1. PICK level : level = [n \in 0 .. m |-> Step(level, n)]
    BY <1>2
  <2> DEFINE new == [n \in 0 .. m + 1 |-> IF n = m + 1 THEN Longer(fields, level[m]) ELSE level[n]]
  <2>2. ASSUME NEW n \in 0 .. m + 1 PROVE new[n] = Step(new, n)
    <3>1. CASE n = m + 1
      BY <3>1
    <3>2. CASE n = 0
      BY <2>1, <3>2
    <3>3. CASE n # 0 /\ n # m + 1
      <4>1. n \in 0 .. m /\ n - 1 \in 0 .. m
        BY <3>3
      <4>2. new[n] = level[n] /\ new[n - 1] = level[n - 1]
        BY <4>1
      <4>3. level[n] = Longer(fields, level[n - 1])
        BY <2>1, <3>3, <4>1
      <4> QED BY <3>3, <4>2, <4>3
    <3> QED BY <3>1, <3>2, <3>3
  <2>3. new = [n \in 0 .. m + 1 |-> Step(new, n)]
    BY <2>2
  <2> HIDE DEF new
  <2> QED BY <2>3
<1>3. MaxDepth \in Known
  <2> HIDE DEF Known
  <2> QED BY <1>1, <1>2, Induction, DepthAssumption
<1> DEFINE it == CHOOSE level : level = [n \in 0 .. MaxDepth |-> Step(level, n)]
<1>4. it = [n \in 0 .. MaxDepth |-> Step(it, n)]
  BY <1>3
<1>5. Paths(fields) = UNION {it[n] : n \in 1 .. MaxDepth}
  BY DEF Paths, Longer
<1> HIDE DEF it
<1>6. AreLevels(it, fields)
  BY <1>4, <1>5, Zenon DEF AreLevels, Longer
<1> QED BY <1>6

LEMMA LevelFacts ==
  ASSUME NEW fields, NEW level, AreLevels(level, fields)
  PROVE  /\ level[0] = {<<>>}
         /\ \A n \in 1 .. MaxDepth : level[n] \subseteq Paths(fields)
         /\ \A n \in 0 .. MaxDepth : level[n] \subseteq {<<>>} \cup Paths(fields)
         /\ \A n \in Nat : n + 1 <= MaxDepth => level[n + 1] = Longer(fields, level[n])
<1>1. level[0] = {<<>>}
  BY DepthAssumption DEF AreLevels
<1>2. \A n \in 1 .. MaxDepth : level[n] \subseteq Paths(fields)
  BY DEF AreLevels
<1>3. ASSUME NEW n \in 0 .. MaxDepth PROVE level[n] \subseteq {<<>>} \cup Paths(fields)
  <2>1. n = 0 \/ n \in 1 .. MaxDepth
    BY DepthAssumption
  <2> QED BY <1>1, <1>2, <2>1
<1>4. ASSUME NEW n \in Nat, n + 1 <= MaxDepth PROVE level[n + 1] = Longer(fields, level[n])
  <2>1. n + 1 \in 0 .. MaxDepth /\ n + 1 # 0 /\ (n + 1) - 1 = n
    BY <1>4, DepthAssumption
  <2> QED BY <2>1 DEF AreLevels, Longer
<1> QED BY <1>1, <1>2, <1>3, <1>4

(* What IsTree says, of every path instead of the computed ones.           *)
Sound(tree, depth) ==
  \A p \in Path : Follow(tree, p) # Nothing =>
    LET here == Follow(tree, p) IN
    /\ IsLeaf(here) \/ IsNode(here)
    /\ \A k \in DOMAIN Fields(here) : k \in Key /\ Len(p) < depth /\ Child(here, k) # Nothing

LEMMA LevelsOf ==
  ASSUME NEW fields, IsTree(fields) \/ Sound(Node(fields), MaxDepth),
         NEW level, AreLevels(level, fields)
  PROVE  \A n \in 0 .. MaxDepth : level[n] = {p \in Path : Len(p) = n /\ Has(fields, p)}
<1> DEFINE Level(n) == {p \in Path : Len(p) = n /\ Has(fields, p)}
           Right == {n \in Nat : n <= MaxDepth => level[n] = Level(n)}
<1>1. 0 \in Right
  <2>1. level[0] = {<<>>}
    BY LevelFacts
  <2>2. \A p \in Path : Len(p) = 0 <=> p = <<>>
    BY EmptySeq DEF Path
  <2>3. <<>> \in Path /\ Has(fields, <<>>)
    BY EmptySeq, FollowEmpty, NodeIsNode DEF Path, Has, At
  <2> QED BY <2>1, <2>2, <2>3
<1>2. ASSUME NEW n \in Nat, n \in Right PROVE n + 1 \in Right
  <2>1. SUFFICES ASSUME n + 1 <= MaxDepth PROVE level[n + 1] = Level(n + 1)
    <3> HIDE DEF Level
    <3> QED OBVIOUS
  <2>2. n \in 0 .. MaxDepth /\ n + 1 \in 1 .. MaxDepth
    BY <2>1, DepthAssumption
  <2>3. level[n] = Level(n)
    BY <1>2, <2>2
  <2>4. level[n + 1] = Longer(fields, level[n])
    BY <2>1, LevelFacts
  <2>5. level[n] \subseteq {<<>>} \cup Paths(fields) /\ level[n + 1] \subseteq Paths(fields)
    BY <2>2, LevelFacts
  <2>6. ASSUME NEW q \in level[n + 1] PROVE q \in Level(n + 1)
    <3>0. PICK p \in level[n] : \E k \in DOMAIN Fields(At(fields, p)) : q = Append(p, k)
      BY <2>4 DEF Longer
    <3>1. PICK k \in DOMAIN Fields(At(fields, p)) : q = Append(p, k)
      BY <3>0
    <3>2. p \in Path /\ Len(p) = n /\ Has(fields, p)
      BY <2>3
    <3>3. k \in Key
      BY <2>5, <3>1, <3>2 DEF IsTree, Sound, Has, At, Key
    <3>4. q \in Path /\ Len(q) = n + 1
      BY <3>1, <3>2, <3>3, Extended
    <3>5. Has(fields, q)
      <4>1. CASE IsTree(fields)
        BY <2>5, <4>1, NothingThere DEF IsTree, Has
      <4>2. CASE Sound(Node(fields), MaxDepth)
        <5>1. Child(At(fields, p), k) # Nothing
          BY <3>1, <3>2, <4>2 DEF Sound, Has, At
        <5> QED BY <3>1, <3>2, <3>3, <5>1, KeyLeads DEF Has
      <4> QED BY <4>1, <4>2
    <3> QED BY <3>4, <3>5
  <2>7. ASSUME NEW q \in Level(n + 1) PROVE q \in level[n + 1]
    <3>1. q # <<>>
      BY EmptySeq
    <3>2. PICK p \in Path, k \in Key : q = Append(p, k) /\ Len(q) = Len(p) + 1
      BY <3>1, Extends
    <3>3. Len(p) = n
      BY <3>2, LenProperties DEF Path
    <3>4. Has(fields, p) /\ k \in DOMAIN Fields(At(fields, p))
      BY <3>2, KeyLeads DEF Has
    <3>5. p \in level[n] /\ q \in {Append(p, key) : key \in DOMAIN Fields(At(fields, p))}
      BY <2>3, <3>2, <3>3, <3>4
    <3> QED BY <2>4, <3>5 DEF Longer
  <2> QED BY <2>6, <2>7
<1>3. Nat \subseteq Right
  <2> HIDE DEF Right
  <2> QED BY <1>1, <1>2, Induction
<1>4. \A n \in 0 .. MaxDepth : n \in Nat /\ n <= MaxDepth
  BY DepthAssumption
<1> QED BY <1>3, <1>4

LEMMA PathsOfTree ==
  ASSUME NEW fields, IsTree(fields) \/ Sound(Node(fields), MaxDepth)
  PROVE  Paths(fields) = {p \in Path : p # <<>> /\ Has(fields, p)}
<1>1. PICK level : AreLevels(level, fields)
  BY LevelSteps
<1>2. \A n \in 0 .. MaxDepth : level[n] = {p \in Path : Len(p) = n /\ Has(fields, p)}
  BY <1>1, LevelsOf
<1>3. Paths(fields) = UNION {level[n] : n \in 1 .. MaxDepth}
  BY <1>1 DEF AreLevels
<1>4. ASSUME NEW p \in Paths(fields) PROVE p \in Path /\ p # <<>> /\ Has(fields, p)
  <2>1. PICK n \in 1 .. MaxDepth : p \in level[n]
    BY <1>3
  <2>2. n \in 0 .. MaxDepth /\ n # 0
    BY DepthAssumption
  <2>3. p \in Path /\ Len(p) = n /\ Has(fields, p)
    BY <1>2, <2>1, <2>2
  <2> QED BY <2>2, <2>3, EmptySeq
<1> DEFINE S == {p \in Path : Has(fields, p) => Len(p) <= MaxDepth}
<1>5. <<>> \in S
  BY EmptySeq, DepthAssumption DEF Path
<1>6. ASSUME NEW p \in Path, NEW k \in Key, p \in S PROVE Append(p, k) \in S
  <2>1. SUFFICES ASSUME Has(fields, Append(p, k)) PROVE Len(p) < MaxDepth
    BY Extended, DepthAssumption
  <2>2. Has(fields, p) /\ k \in DOMAIN Fields(At(fields, p))
    BY <2>1, KeyLeads DEF Has
  <2>3. Len(p) \in 0 .. MaxDepth
    BY <1>6, <2>2, Extended
  <2>4. p \in level[Len(p)]
    BY <1>2, <2>2, <2>3
  <2>5. p \in {<<>>} \cup Paths(fields)
    BY <1>1, <2>3, <2>4, LevelFacts
  <2> QED BY <2>2, <2>5 DEF IsTree, Sound, Has, At
<1>7. Path \subseteq S
  <2> HIDE DEF S
  <2> QED BY <1>5, <1>6, PathInduction
<1>8. ASSUME NEW p \in Path, p # <<>>, Has(fields, p) PROVE p \in Paths(fields)
  <2>1. Len(p) \in 1 .. MaxDepth
    BY <1>7, <1>8, EmptySeq, DepthAssumption DEF Path
  <2>2. p \in level[Len(p)]
    BY <1>2, <1>8, <2>1
  <2> QED BY <1>3, <2>1, <2>2
<1> QED BY <1>4, <1>8

LEMMA TreeIsSound ==
  ASSUME NEW fields
  PROVE  IsTree(fields) <=> Sound(Node(fields), MaxDepth)
<1>1. ASSUME IsTree(fields), NEW p \in Path, Has(fields, p),
             NEW k \in DOMAIN Fields(At(fields, p))
      PROVE  k \in Key /\ Len(p) < MaxDepth /\ Child(At(fields, p), k) # Nothing
  <2>1. p \in {<<>>} \cup Paths(fields)
    BY <1>1, PathsOfTree
  <2>2. k \in Key /\ Len(p) < MaxDepth
    BY <1>1, <2>1 DEF IsTree, Key
  <2>3. PICK level : AreLevels(level, fields)
    BY LevelSteps
  <2>4. Len(p) \in Nat /\ Len(p) + 1 \in 0 .. MaxDepth /\ Len(p) \in 0 .. MaxDepth
    BY <2>2, Extended, DepthAssumption
  <2>5. p \in level[Len(p)]
    BY <1>1, <2>3, <2>4, LevelsOf
  <2>6. Append(p, k) \in level[Len(p) + 1]
    <3>1. level[Len(p) + 1] = Longer(fields, level[Len(p)])
      BY <2>3, <2>4, LevelFacts
    <3>2. Append(p, k) \in {Append(p, key) : key \in DOMAIN Fields(At(fields, p))}
      BY <1>1
    <3> QED BY <2>5, <3>1, <3>2 DEF Longer
  <2>7. Has(fields, Append(p, k))
    BY <1>1, <2>3, <2>4, <2>6, LevelsOf
  <2> QED BY <2>2, <2>7, KeyLeads DEF Has
<1>2. ASSUME IsTree(fields), NEW p \in Path, Has(fields, p)
      PROVE  IsLeaf(At(fields, p)) \/ IsNode(At(fields, p))
  <2>1. p \in {<<>>} \cup Paths(fields)
    BY <1>2, PathsOfTree
  <2> QED BY <1>2, <2>1 DEF IsTree
<1>3. ASSUME Sound(Node(fields), MaxDepth), NEW p \in {<<>>} \cup Paths(fields)
      PROVE  /\ IsLeaf(At(fields, p)) \/ IsNode(At(fields, p))
             /\ \A k \in DOMAIN Fields(At(fields, p)) : k \in STRING /\ Len(p) < MaxDepth
  <2>1. p \in Path /\ Has(fields, p)
    <3>1. <<>> \in Path /\ Has(fields, <<>>)
      BY EmptySeq, FollowEmpty, NodeIsNode DEF Path, Has, At
    <3> QED BY <1>3, <3>1, PathsOfTree
  <2> QED BY <1>3, <2>1 DEF Sound, Has, At, Key
<1>4. IsTree(fields) => Sound(Node(fields), MaxDepth)
  BY <1>1, <1>2 DEF Sound, Has, At
<1>5. Sound(Node(fields), MaxDepth) => IsTree(fields)
  BY <1>3 DEF IsTree
<1> QED BY <1>4, <1>5

-----------------------------------------------------------------------------
(* Merged trees.                                                           *)

Gives(a, giveWay) == IsLeaf(a) /\ a.scalar \in giveWay

(* The fields at one place, given those at the places below it.            *)
MergedAt(below, above, giveWay, merged, p) ==
  LET b == Fields(At(below, p))
      a == Fields(At(above, p))
      Below(k) == k \in DOMAIN b
                  /\ (k \in DOMAIN a => IsLeaf(a[k]) /\ a[k].scalar \in giveWay)
      Both(k) == k \in DOMAIN a \cap DOMAIN b /\ IsNode(a[k]) /\ IsNode(b[k])
  IN [k \in DOMAIN a \cup DOMAIN b |->
        IF Both(k) THEN Node(merged[Append(p, k)]) ELSE IF Below(k) THEN b[k] ELSE a[k]]

LEMMA MergedAgrees ==
  ASSUME NEW below, NEW above, NEW giveWay, NEW p, NEW f, NEW g,
         \A k \in DOMAIN Fields(At(above, p)) : f[Append(p, k)] = g[Append(p, k)]
  PROVE  MergedAt(below, above, giveWay, f, p) = MergedAt(below, above, giveWay, g, p)
BY DEF MergedAt

LEMMA ChildIs ==
  ASSUME NEW tree, NEW k
  PROVE  Child(tree, k) = IF k \in DOMAIN Fields(tree) THEN Fields(tree)[k] ELSE Nothing
<1>1. CASE IsNode(tree)
  BY <1>1 DEF Child, Fields
<1>2. CASE ~IsNode(tree)
  BY <1>2 DEF Child, Fields, NoFields
<1> QED BY <1>1, <1>2

LEMMA KeysOfTree ==
  ASSUME NEW fields, IsTree(fields), NEW p \in Path
  PROVE  \A k \in DOMAIN Fields(At(fields, p)) :
           /\ k \in Key /\ Len(p) < MaxDepth
           /\ Child(At(fields, p), k) # Nothing
           /\ IsLeaf(Child(At(fields, p), k)) \/ IsNode(Child(At(fields, p), k))
<1>1. CASE Has(fields, p)
  <2> SUFFICES ASSUME NEW k \in DOMAIN Fields(At(fields, p))
               PROVE  /\ k \in Key /\ Len(p) < MaxDepth
                      /\ Child(At(fields, p), k) # Nothing
                      /\ IsLeaf(Child(At(fields, p), k)) \/ IsNode(Child(At(fields, p), k))
    OBVIOUS
  <2>1. k \in Key /\ Len(p) < MaxDepth /\ Child(At(fields, p), k) # Nothing
    BY <1>1, TreeIsSound DEF Sound, Has, At
  <2>2. Append(p, k) \in Path /\ At(fields, Append(p, k)) = Child(At(fields, p), k)
    BY <2>1, Extended, KeyLeads
  <2>3. IsLeaf(At(fields, Append(p, k))) \/ IsNode(At(fields, Append(p, k)))
    BY <2>1, <2>2, TreeIsSound DEF Sound, At
  <2> QED BY <2>1, <2>2, <2>3
<1>2. CASE ~Has(fields, p)
  BY <1>2, NothingThere DEF Has
<1> QED BY <1>1, <1>2

(* Overlay keeps its own equation, since trees end.                        *)
LEMMA OverlaySteps ==
  ASSUME NEW below, NEW above, NEW giveWay, IsTree(above)
  PROVE  \E merged : /\ merged = [p \in Path |-> MergedAt(below, above, giveWay, merged, p)]
                     /\ Overlay(below, above, giveWay) = merged[<<>>]
<1> DEFINE Step(f, p) == MergedAt(below, above, giveWay, f, p)
           Right(f, m) == \A p \in Path : Len(p) + m >= MaxDepth => f[p] = Step(f, p)
           Known == {m \in Nat : \E f : f = [p \in Path |-> f[p]] /\ Right(f, m)}
<1>1. 0 \in Known
  <2> DEFINE f == [p \in Path |-> Step(<<>>, p)]
  <2>1. ASSUME NEW p \in Path, Len(p) + 0 >= MaxDepth PROVE f[p] = Step(f, p)
    <3>1. DOMAIN Fields(At(above, p)) = {}
      <4>1. Len(p) \in Nat /\ ~(Len(p) < MaxDepth)
        BY <2>1, LenProperties, DepthAssumption DEF Path
      <4> QED BY <4>1, KeysOfTree
    <3> HIDE DEF f
    <3>2. Step(f, p) = Step(<<>>, p)
      BY <3>1, MergedAgrees
    <3> QED BY <3>2 DEF f
  <2>2. f = [p \in Path |-> f[p]]
    OBVIOUS
  <2> HIDE DEF f
  <2>3. Right(f, 0)
    BY <2>1
  <2> QED BY <2>2, <2>3
<1>2. ASSUME NEW m \in Nat, m \in Known PROVE m + 1 \in Known
  <2>1. PICK f : Right(f, m)
    BY <1>2
  <2> DEFINE g == [p \in Path |-> IF Len(p) + m >= MaxDepth THEN f[p] ELSE Step(f, p)]
  <2>2. ASSUME NEW p \in Path, Len(p) + (m + 1) >= MaxDepth PROVE g[p] = Step(g, p)
    <3>1. g[p] = Step(f, p)
      BY <2>1
    <3>2. ASSUME NEW k \in DOMAIN Fields(At(above, p)) PROVE f[Append(p, k)] = g[Append(p, k)]
      <4>1. k \in Key
        BY KeysOfTree
      <4>2. /\ Append(p, k) \in Path /\ Len(p) \in Nat
            /\ Len(Append(p, k)) = Len(p) + 1
        BY <4>1, Extended
      <4>3. Len(Append(p, k)) + m >= MaxDepth
        BY <2>2, <4>2, DepthAssumption
      <4> HIDE DEF Step
      <4> QED BY <4>2, <4>3
    <3> HIDE DEF g
    <3>3. Step(g, p) = Step(f, p)
      BY <3>2, MergedAgrees
    <3> QED BY <3>1, <3>3
  <2>3. g = [p \in Path |-> g[p]]
    OBVIOUS
  <2> HIDE DEF g
  <2>4. Right(g, m + 1)
    BY <2>2
  <2> QED BY <2>3, <2>4
<1>3. MaxDepth \in Known
  <2> HIDE DEF Known
  <2> QED BY <1>1, <1>2, Induction, DepthAssumption
<1>4. PICK f : f = [p \in Path |-> f[p]] /\ Right(f, MaxDepth)
  BY <1>3
<1>5. ASSUME NEW p \in Path PROVE f[p] = Step(f, p)
  <2>1. Len(p) + MaxDepth >= MaxDepth
    BY DepthAssumption, LenProperties DEF Path
  <2> QED BY <1>4, <2>1
<1>6. f = [p \in Path |-> Step(f, p)]
  <2> HIDE DEF Step
  <2> QED BY <1>4, <1>5
<1> DEFINE it == CHOOSE g : g = [p \in Path |-> Step(g, p)]
<1>7. it = [p \in Path |-> Step(it, p)]
  <2> HIDE DEF Step
  <2> QED BY <1>6
<1>8. Overlay(below, above, giveWay) = it[<<>>]
  BY DEF Overlay, MergedAt, Path, Key
<1> HIDE DEF it
<1> QED BY <1>7, <1>8

(* What is under a key, unless both have nodes there.                      *)
Chosen(b, a, giveWay) == IF b # Nothing /\ (a # Nothing => Gives(a, giveWay)) THEN b ELSE a

ChildrenAreChosen(below, above, giveWay, p) ==
  \A k \in Key :
    \/ IsNode(At(above, Append(p, k))) /\ IsNode(At(below, Append(p, k)))
    \/ Child(At(Overlay(below, above, giveWay), p), k) =
         Chosen(At(below, Append(p, k)), At(above, Append(p, k)), giveWay)

(* Step by step down the merged tree: as long as both trees have nodes, it *)
(* has a node with the keys of both; the children are those of one tree or *)
(* of the other, or merged again.                                          *)
LEMMA OverlayChildren ==
  ASSUME NEW below, NEW above, NEW giveWay, IsTree(above), IsTree(below), NEW p \in Path,
         IsNode(At(above, p)), IsNode(At(below, p))
  PROVE  /\ IsNode(At(Overlay(below, above, giveWay), p))
         /\ DOMAIN Fields(At(Overlay(below, above, giveWay), p)) =
              DOMAIN Fields(At(above, p)) \cup DOMAIN Fields(At(below, p))
         /\ ChildrenAreChosen(below, above, giveWay, p)
<1>1. PICK merged : /\ merged = [q \in Path |-> MergedAt(below, above, giveWay, merged, q)]
                    /\ Overlay(below, above, giveWay) = merged[<<>>]
  BY OverlaySteps
<1> DEFINE O == Overlay(below, above, giveWay)
           Both(q) == IsNode(At(above, q)) /\ IsNode(At(below, q))
           S == {q \in Path : Both(q) => At(O, q) = Node(merged[q])}
<1>2. <<>> \in S
  BY <1>1, FollowEmpty, EmptySeq DEF At, Path
<1>3. ASSUME NEW q \in Path, NEW k \in Key, q \in S PROVE Append(q, k) \in S
  <2> DEFINE a == Fields(At(above, q))
             b == Fields(At(below, q))
  <2>1. SUFFICES ASSUME Both(Append(q, k)) PROVE At(O, Append(q, k)) = Node(merged[Append(q, k)])
    BY Extended
  <2>2. At(above, Append(q, k)) = Child(At(above, q), k) /\ At(below, Append(q, k)) = Child(At(below, q), k)
    BY KeyLeads
  <2>3. k \in DOMAIN a /\ k \in DOMAIN b
    BY <2>1, <2>2, ChildIs, NothingThere
  <2>4. Both(q)
    BY <2>3 DEF Fields, NoFields
  <2>5. IsNode(a[k]) /\ IsNode(b[k])
    BY <2>1, <2>2, <2>3, ChildIs
  <2>6. At(O, q) = Node(merged[q])
    BY <1>3, <2>4
  <2>7. merged[q] = MergedAt(below, above, giveWay, merged, q)
    BY <1>1
  <2>8. k \in DOMAIN merged[q] /\ merged[q][k] = Node(merged[Append(q, k)])
    BY <2>3, <2>5, <2>7 DEF MergedAt
  <2> HIDE DEF O
  <2>9. At(O, Append(q, k)) = Child(At(O, q), k)
    BY KeyLeads
  <2> QED BY <2>6, <2>8, <2>9, ChildIs, NodeIsNode
<1>4. Path \subseteq S
  <2> HIDE DEF S
  <2> QED BY <1>2, <1>3, PathInduction
<1>5. At(O, p) = Node(merged[p])
  BY <1>4
<1>6. merged[p] = MergedAt(below, above, giveWay, merged, p)
  BY <1>1
<1> DEFINE a == Fields(At(above, p))
           b == Fields(At(below, p))
<1>7. IsNode(At(O, p)) /\ Fields(At(O, p)) = merged[p] /\ DOMAIN merged[p] = DOMAIN a \cup DOMAIN b
  BY <1>5, <1>6, NodeIsNode DEF MergedAt
<1>8. ASSUME NEW k \in Key,
             ~(IsNode(At(above, Append(p, k))) /\ IsNode(At(below, Append(p, k))))
      PROVE  Child(At(O, p), k) = Chosen(At(below, Append(p, k)), At(above, Append(p, k)), giveWay)
  <2>1. At(above, Append(p, k)) = Child(At(above, p), k) /\ At(below, Append(p, k)) = Child(At(below, p), k)
    BY KeyLeads
  <2>2. /\ k \in DOMAIN a <=> At(above, Append(p, k)) # Nothing
        /\ k \in DOMAIN b <=> At(below, Append(p, k)) # Nothing
    BY <2>1, ChildIs, KeysOfTree
  <2>3. /\ k \in DOMAIN a => At(above, Append(p, k)) = a[k]
        /\ k \in DOMAIN b => At(below, Append(p, k)) = b[k]
    BY <2>1, ChildIs
  <2>4. CASE k \notin DOMAIN a \cup DOMAIN b
    <3>1. Child(At(O, p), k) = Nothing
      BY <1>7, <2>4, ChildIs
    <3> QED BY <2>2, <2>4, <3>1 DEF Chosen
  <2>5. CASE k \in DOMAIN a \cup DOMAIN b
    <3>1. Child(At(O, p), k) = merged[p][k]
      BY <1>7, <2>5, ChildIs
    <3>2. merged[p][k] = IF k \in DOMAIN b /\ (k \in DOMAIN a => Gives(a[k], giveWay)) THEN b[k] ELSE a[k]
      BY <1>6, <1>8, <2>3, <2>5 DEF MergedAt, Gives
    <3> HIDE DEF a, b
    <3> QED BY <2>2, <2>3, <2>5, <3>1, <3>2 DEF Chosen
  <2> QED BY <2>4, <2>5
<1>9. ChildrenAreChosen(below, above, giveWay, p)
  BY <1>8 DEF ChildrenAreChosen
<1> QED BY <1>7, <1>9

(* A leaf on the way hides everything behind it.                           *)
UnderLeaf(fields, p) == \E n \in 1 .. Len(p) - 1 : IsLeaf(At(fields, SubSeq(p, 1, n)))

LEMMA UnderLeafExtended ==
  ASSUME NEW fields, NEW p \in Path, NEW k \in Key
  PROVE  UnderLeaf(fields, Append(p, k)) <=> UnderLeaf(fields, p) \/ IsLeaf(At(fields, p))
<1> DEFINE q == Append(p, k)
<1>1. Len(p) \in Nat /\ Len(q) - 1 = Len(p) /\ q = p \o <<k>> /\ <<k>> \in Path
  <2>1. Len(p) \in Nat /\ Len(q) = Len(p) + 1
    BY Extended
  <2>2. q = p \o <<k>>
    BY AppendIsConcat DEF Path
  <2> QED BY <2>1, <2>2, OneKey
<1>2. ASSUME NEW n \in 1 .. Len(p) PROVE SubSeq(q, 1, n) = SubSeq(p, 1, n)
  <2>1. 1 \in 1 .. Len(p)
    BY <1>1
  <2> DEFINE one == <<k>>
  <2>2. one \in Seq(Key)
    BY <1>1 DEF Path
  <2> HIDE DEF one
  <2>3. SubSeq(p \o one, 1, n) = SubSeq(p, 1, n)
    BY <2>1, <2>2, SubSeqOfConcat1 DEF Path
  <2> QED BY <1>1, <2>3 DEF one
<1>3. SubSeq(p, 1, Len(p)) = p
  BY SubSeqFull DEF Path
<1>4. p = <<>> => ~IsLeaf(At(fields, p))
  BY KeyLeads, NodeIsNode
<1>5. p # <<>> => Len(p) \in 1 .. Len(p)
  BY <1>1, EmptySeq DEF Path
<1>6. UnderLeaf(fields, q) <=> \E n \in 1 .. Len(p) : IsLeaf(At(fields, SubSeq(p, 1, n)))
  <2> HIDE DEF q
  <2> QED BY <1>1, <1>2 DEF UnderLeaf
<1>7. \A n \in 1 .. Len(p) : n = Len(p) \/ n \in 1 .. Len(p) - 1
  BY <1>1
<1>8. \A n \in 1 .. Len(p) - 1 : n \in 1 .. Len(p)
  BY <1>1
<1> HIDE DEF q
<1>9. UnderLeaf(fields, q) <=> UnderLeaf(fields, p) \/ IsLeaf(At(fields, p))
  BY <1>3, <1>4, <1>5, <1>6, <1>7, <1>8 DEF UnderLeaf
<1> QED BY <1>9 DEF q

(* Where two trees are nodes at the same places.                           *)
SameShape(below, above) ==
  \A p \in Path : Has(above, p) /\ Has(below, p) => IsNode(At(above, p)) = IsNode(At(below, p))

(* What can be at a path of a merged tree.                                 *)
BothNodes(b, a, m) ==
  /\ IsNode(a) /\ IsNode(b) /\ IsNode(m)
  /\ DOMAIN Fields(m) = DOMAIN Fields(a) \cup DOMAIN Fields(b)

IsAbove(b, a, m, giveWay) ==
  /\ a # Nothing /\ m = a
  /\ ~(IsNode(a) /\ IsNode(b))
  /\ ~(Gives(a, giveWay) /\ b # Nothing)

GaveWay(b, a, m, giveWay) == Gives(a, giveWay) /\ b # Nothing /\ ~IsNode(b) /\ m = b

IsBelow(b, a, m) == a = Nothing /\ m = b

IsHidden(b, a, m, same) == a = Nothing /\ m = Nothing /\ (same => b = Nothing)

Fate(below, above, giveWay, p) ==
  LET b == At(below, p)
      a == At(above, p)
      m == At(Overlay(below, above, giveWay), p)
  IN IF UnderLeaf(above, p) THEN IsHidden(b, a, m, SameShape(below, above))
     ELSE BothNodes(b, a, m) \/ IsAbove(b, a, m, giveWay) \/ GaveWay(b, a, m, giveWay) \/ IsBelow(b, a, m)

LEMMA OverlayFate ==
  ASSUME NEW below, NEW above, NEW giveWay, IsTree(above), IsTree(below),
         giveWay = {} \/ SameShape(below, above)
  PROVE  \A p \in Path : Fate(below, above, giveWay, p)
<1> DEFINE O == Overlay(below, above, giveWay)
           S == {p \in Path : Fate(below, above, giveWay, p)}
<1>0. ASSUME NEW q \in Path, IsNode(At(above, q)), IsNode(At(below, q))
        PROVE  BothNodes(At(below, q), At(above, q), At(O, q))
  BY <1>0, OverlayChildren DEF BothNodes
<1>1. <<>> \in S
  <2>1. ~UnderLeaf(above, <<>>)
    BY EmptySeq DEF UnderLeaf
  <2> DEFINE root == <<>>
  <2>2. root \in Path /\ At(above, root) = Node(above) /\ At(below, root) = Node(below)
    BY EmptySeq, FollowEmpty DEF At, Path
  <2>3. IsNode(At(above, root)) /\ IsNode(At(below, root))
    BY <2>2, NodeIsNode
  <2> HIDE DEF root
  <2>4. BothNodes(At(below, root), At(above, root), At(O, root))
    BY <2>2, <2>3, OverlayChildren DEF BothNodes
  <2> QED BY <2>1, <2>2, <2>4 DEF Fate, root
<1>2. ASSUME NEW p \in Path, NEW k \in Key, p \in S PROVE Append(p, k) \in S
  <2> DEFINE q  == Append(p, k)
             a  == At(above, p)
             b  == At(below, p)
             m  == At(O, p)
             aa == At(above, q)
             bb == At(below, q)
             mm == At(O, q)
  <2>1. q \in Path
    BY Extended
  <2>2. aa = Child(a, k) /\ bb = Child(b, k) /\ mm = Child(m, k)
    <3> HIDE DEF O
    <3> QED BY KeyLeads
  <2>3. UnderLeaf(above, q) <=> UnderLeaf(above, p) \/ IsLeaf(a)
    BY UnderLeafExtended
  <2>4. \A t : /\ ~IsNode(t) => Child(t, k) = Nothing
               /\ IsLeaf(t) => ~IsNode(t)
               /\ t = Nothing => ~IsNode(t) /\ ~IsLeaf(t)
    BY ChildIs, NothingThere DEF Fields, NoFields, IsLeaf, IsNode
  <2>5. (a # Nothing => IsLeaf(a) \/ IsNode(a)) /\ (b # Nothing => IsLeaf(b) \/ IsNode(b))
    BY TreeIsSound DEF Sound, At
  <2>6. SameShape(below, above) /\ aa # Nothing /\ bb # Nothing => IsNode(aa) = IsNode(bb)
    BY <2>1 DEF SameShape, Has
  <2>7. SameShape(below, above) /\ a # Nothing /\ b # Nothing => IsNode(a) = IsNode(b)
    BY DEF SameShape, Has
  <2>8. IF UnderLeaf(above, p) THEN IsHidden(b, a, m, SameShape(below, above))
        ELSE BothNodes(b, a, m) \/ IsAbove(b, a, m, giveWay) \/ GaveWay(b, a, m, giveWay) \/ IsBelow(b, a, m)
    BY <1>2 DEF Fate
  <2>9. SUFFICES IF UnderLeaf(above, q) THEN IsHidden(bb, aa, mm, SameShape(below, above))
                 ELSE \/ BothNodes(bb, aa, mm) \/ IsAbove(bb, aa, mm, giveWay)
                      \/ GaveWay(bb, aa, mm, giveWay) \/ IsBelow(bb, aa, mm)
    BY <2>1 DEF Fate
  <2>10. IsNode(a) /\ IsNode(b) /\ ~(IsNode(aa) /\ IsNode(bb)) => mm = Chosen(bb, aa, giveWay)
    <3> HIDE DEF O
    <3>1. ASSUME IsNode(a), IsNode(b), ~(IsNode(aa) /\ IsNode(bb))
          PROVE  Child(m, k) = Chosen(bb, aa, giveWay)
      <4>1. ChildrenAreChosen(below, above, giveWay, p)
        BY <3>1, OverlayChildren
      <4> QED BY <3>1, <4>1 DEF ChildrenAreChosen, O
    <3> QED BY <2>2, <3>1
  <2>11. IsNode(aa) /\ IsNode(bb) => BothNodes(bb, aa, mm)
    <3> HIDE DEF q, O
    <3> QED BY <1>0, <2>1
  <2> HIDE DEF q, a, b, m, aa, bb, mm, O
  <2>12. CASE UnderLeaf(above, p)
    BY <2>2, <2>3, <2>4, <2>8, <2>12 DEF IsHidden
  <2>13. CASE ~UnderLeaf(above, p) /\ BothNodes(b, a, m)
    <3>1. ~UnderLeaf(above, q) /\ IsNode(a) /\ IsNode(b)
      BY <2>3, <2>4, <2>13 DEF BothNodes
    <3>2. CASE IsNode(aa) /\ IsNode(bb)
      BY <2>11, <3>1, <3>2
    <3>3. CASE ~(IsNode(aa) /\ IsNode(bb))
      <4>1. mm = Chosen(bb, aa, giveWay)
        BY <2>10, <3>1, <3>3
      <4>2. Gives(aa, giveWay) => IsLeaf(aa) /\ SameShape(below, above)
        BY DEF Gives
      <4> QED BY <2>4, <2>6, <3>1, <3>3, <4>1, <4>2 DEF Chosen, IsAbove, GaveWay, IsBelow
    <3> QED BY <3>2, <3>3
  <2>14. CASE ~UnderLeaf(above, p) /\ IsAbove(b, a, m, giveWay)
    <3>1. CASE IsLeaf(a)
      <4>1. aa = Nothing /\ mm = Nothing /\ UnderLeaf(above, q)
        BY <2>2, <2>3, <2>4, <2>14, <3>1 DEF IsAbove
      <4>2. SameShape(below, above) => bb = Nothing
        BY <2>2, <2>4, <2>7, <2>14, <3>1 DEF IsAbove
      <4> QED BY <4>1, <4>2 DEF IsHidden
    <3>2. CASE IsNode(a)
      <4>1. bb = Nothing /\ mm = aa /\ ~UnderLeaf(above, q)
        BY <2>2, <2>3, <2>4, <2>14, <3>2 DEF IsAbove
      <4> QED BY <2>4, <4>1 DEF IsAbove, IsBelow
    <3> QED BY <2>5, <2>14, <3>1, <3>2 DEF IsAbove
  <2>15. CASE ~UnderLeaf(above, p) /\ GaveWay(b, a, m, giveWay)
    <3>1. IsLeaf(a) /\ ~IsNode(b) /\ m = b
      BY <2>15 DEF GaveWay, Gives
    <3> QED BY <2>2, <2>3, <2>4, <3>1 DEF IsHidden
  <2>16. CASE ~UnderLeaf(above, p) /\ IsBelow(b, a, m)
    BY <2>2, <2>3, <2>4, <2>16 DEF IsBelow
  <2> QED BY <2>8, <2>12, <2>13, <2>14, <2>15, <2>16
<1>3. Path \subseteq S
  <2> HIDE DEF S
  <2> QED BY <1>1, <1>2, PathInduction
<1> QED BY <1>3

(* A merged tree is a tree.                                                *)
LEMMA OverlayIsTree ==
  ASSUME NEW below, NEW above, NEW giveWay, IsTree(above), IsTree(below),
         giveWay = {} \/ SameShape(below, above)
  PROVE  IsTree(Overlay(below, above, giveWay))
<1> DEFINE O == Overlay(below, above, giveWay)
<1> SUFFICES ASSUME NEW p \in Path, Has(O, p)
             PROVE  /\ IsLeaf(At(O, p)) \/ IsNode(At(O, p))
                    /\ \A k \in DOMAIN Fields(At(O, p)) :
                         k \in Key /\ Len(p) < MaxDepth /\ Child(At(O, p), k) # Nothing
  <2> HIDE DEF O
  <2> QED BY TreeIsSound DEF Sound, Has, At, O
<1> DEFINE a == At(above, p)
           b == At(below, p)
           m == At(O, p)
<1>1. BothNodes(b, a, m) \/ m = a \/ m = b
  <2>1. Fate(below, above, giveWay, p)
    BY OverlayFate
  <2>2. m # Nothing
    BY DEF Has
  <2> HIDE DEF a, b, m
  <2> QED BY <2>1, <2>2 DEF Fate, IsHidden, IsAbove, GaveWay, IsBelow, a, b, m
<1>2. CASE m = a \/ m = b
  <2>1. ASSUME NEW fields, IsTree(fields), m = At(fields, p)
        PROVE  /\ IsLeaf(m) \/ IsNode(m)
               /\ \A k \in DOMAIN Fields(m) : k \in Key /\ Len(p) < MaxDepth /\ Child(m, k) # Nothing
    BY <2>1, TreeIsSound DEF Sound, Has, At
  <2> QED BY <1>2, <2>1
<1>3. CASE BothNodes(b, a, m)
  <2>1. ASSUME NEW k \in DOMAIN Fields(m) PROVE k \in Key /\ Len(p) < MaxDepth
    <3>1. k \in DOMAIN Fields(a) \/ k \in DOMAIN Fields(b)
      BY <1>3, <2>1 DEF BothNodes
    <3> QED BY <3>1, KeysOfTree
  <2>2. ASSUME NEW k \in DOMAIN Fields(m) PROVE Child(m, k) # Nothing
    <3> DEFINE aa == At(above, Append(p, k))
               bb == At(below, Append(p, k))
               mm == At(O, Append(p, k))
    <3>1. k \in Key /\ Append(p, k) \in Path
      BY <2>1, Extended
    <3>2. aa = Child(a, k) /\ bb = Child(b, k) /\ mm = Child(m, k)
      <4> HIDE DEF O
      <4> QED BY <3>1, KeyLeads
    <3>3. aa # Nothing \/ bb # Nothing
      <4>1. k \in DOMAIN Fields(a) \/ k \in DOMAIN Fields(b)
        BY <1>3, <2>2 DEF BothNodes
      <4> HIDE DEF aa, bb
      <4> QED BY <3>2, <4>1, KeysOfTree
    <3>4. CASE IsNode(aa) /\ IsNode(bb)
      <4>1. IsNode(mm)
        <5> DEFINE q == Append(p, k)
        <5>1. q \in Path
          BY <3>1
        <5> HIDE DEF q
        <5>2. IsNode(At(above, q)) /\ IsNode(At(below, q)) => IsNode(At(O, q))
          BY <5>1, OverlayChildren
        <5> QED BY <3>4, <5>2 DEF q
      <4> QED BY <3>2, <4>1, NothingThere
    <3>5. CASE ~(IsNode(aa) /\ IsNode(bb))
      <4>1. Child(m, k) = Chosen(bb, aa, giveWay)
        <5>1. IsNode(a) /\ IsNode(b)
          BY <1>3 DEF BothNodes
        <5>2. ChildrenAreChosen(below, above, giveWay, p)
          BY <5>1, OverlayChildren
        <5> QED BY <3>1, <3>5, <5>2 DEF ChildrenAreChosen
      <4> HIDE DEF aa, bb, m
      <4> QED BY <3>3, <4>1 DEF Chosen
    <3> QED BY <3>4, <3>5
  <2> QED BY <1>3, <2>1, <2>2 DEF BothNodes
<1> QED BY <1>1, <1>2, <1>3

(* Without leaves that give way, what above has wins, and hides what is    *)
(* under its leaves.                                                       *)
LEMMA AboveWins ==
  ASSUME NEW below, NEW above, IsTree(above), IsTree(below), NEW p \in Path
  PROVE  LET m == At(Overlay(below, above, {}), p)
             a == At(above, p)
             b == At(below, p)
         IN /\ IF a # Nothing THEN m = a \/ (IsNode(m) /\ IsNode(a))
               ELSE IF UnderLeaf(above, p) THEN m = Nothing
               ELSE m = b
<1> DEFINE m == At(Overlay(below, above, {}), p)
           a == At(above, p)
           b == At(below, p)
<1>1. Fate(below, above, {}, p)
  BY OverlayFate
<1>2. IsNode(a) => a # Nothing
  BY NothingThere
<1>3. ~Gives(a, {})
  BY DEF Gives
<1> HIDE DEF m, a, b
<1>4. IF a # Nothing THEN m = a \/ (IsNode(m) /\ IsNode(a))
      ELSE IF UnderLeaf(above, p) THEN m = Nothing
      ELSE m = b
  BY <1>1, <1>2, <1>3 DEF Fate, BothNodes, IsAbove, GaveWay, IsBelow, IsHidden, m, a, b
<1> QED BY <1>4 DEF m, a, b

(* Between trees of one shape, below fills what is not given above.        *)
LEMMA BelowFills ==
  ASSUME NEW below, NEW above, IsTree(above), IsTree(below), SameShape(below, above),
         NEW p \in Path
  PROVE  LET m == At(Overlay(below, above, Empty), p)
             a == At(above, p)
             b == At(below, p)
             wanted == IF Given(above, p) \/ ~Has(below, p) THEN a ELSE b
         IN /\ m = wanted \/ (IsNode(m) /\ IsNode(wanted))
            /\ m = Nothing <=> a = Nothing /\ b = Nothing
<1> DEFINE m == At(Overlay(below, above, Empty), p)
           a == At(above, p)
           b == At(below, p)
           wanted == IF Given(above, p) \/ ~Has(below, p) THEN a ELSE b
<1>1. Fate(below, above, Empty, p)
  BY OverlayFate
<1>2. /\ \A t : IsNode(t) => t # Nothing /\ ~IsLeaf(t)
      /\ \A t : IsLeaf(t) => t # Nothing
  BY NothingThere DEF IsNode, IsLeaf
<1>3. wanted = IF (a # Nothing /\ ~Gives(a, Empty)) \/ b = Nothing THEN a ELSE b
  BY DEF Given, Has, Gives
<1> HIDE DEF m, a, b, wanted
<1>4. m = wanted \/ (IsNode(m) /\ IsNode(wanted))
  <2>1. CASE UnderLeaf(above, p)
    BY <1>1, <1>3, <2>1 DEF Fate, IsHidden, m, a, b
  <2>2. CASE ~UnderLeaf(above, p)
    <3>1. BothNodes(b, a, m) \/ IsAbove(b, a, m, Empty) \/ GaveWay(b, a, m, Empty) \/ IsBelow(b, a, m)
      BY <1>1, <2>2 DEF Fate, m, a, b
    <3> QED BY <1>2, <1>3, <3>1 DEF BothNodes, IsAbove, GaveWay, IsBelow, Gives
  <2> QED BY <2>1, <2>2
<1>5. m = Nothing <=> a = Nothing /\ b = Nothing
  <2>1. CASE UnderLeaf(above, p)
    BY <1>1, <1>3, <2>1 DEF Fate, IsHidden, m, a, b
  <2>2. CASE ~UnderLeaf(above, p)
    <3>1. BothNodes(b, a, m) \/ IsAbove(b, a, m, Empty) \/ GaveWay(b, a, m, Empty) \/ IsBelow(b, a, m)
      BY <1>1, <2>2 DEF Fate, m, a, b
    <3> QED BY <1>2, <3>1 DEF BothNodes, IsAbove, GaveWay, IsBelow, Gives
  <2> QED BY <2>1, <2>2
<1> QED BY <1>4, <1>5 DEF m, a, b, wanted

-----------------------------------------------------------------------------
(* Trees that are put together from parts of others.                       *)

LEMMA FirstKey ==
  ASSUME NEW p \in Path, p # <<>>
  PROVE  \E k \in Key, q \in Path : p = <<k>> \o q /\ Head(p) = k /\ Len(p) = Len(q) + 1
<1> DEFINE S == {r \in Path : r = <<>> \/ \E k \in Key, q \in Path : r = <<k>> \o q}
<1>1. <<>> \in S
  BY EmptySeq DEF Path
<1>2. ASSUME NEW r \in Path, NEW k \in Key, r \in S PROVE Append(r, k) \in S
  <2> DEFINE one == <<k>>
             none == <<>>
  <2>1. one \in Path /\ none \in Path /\ one = Append(none, k) /\ one \o none = one
    BY OneKey, ConcatEmptySeq DEF Path
  <2>2. Append(r, k) \in Path
    BY Extended
  <2>3. CASE r = none
    <3>1. Append(r, k) = one \o none
      BY <2>1, <2>3
    <3> QED BY <2>1, <2>2, <3>1
  <2>4. CASE r # none
    <3>1. PICK j \in Key, q \in Path : r = <<j>> \o q
      BY <1>2, <2>4
    <3> DEFINE first == <<j>>
    <3>2. first \in Path
      BY OneKey
    <3> HIDE DEF first, one
    <3>3. Append(r, k) = r \o one /\ Append(q, k) = q \o one
      BY AppendIsConcat DEF Path, one
    <3>4. r = first \o q
      BY <3>1 DEF first
    <3>5. (first \o q) \o one = first \o (q \o one)
      BY <2>1, <3>2, ConcatAssociative DEF Path
    <3>6. Append(q, k) \in Path /\ Append(r, k) = first \o Append(q, k)
      BY <3>3, <3>4, <3>5, Extended
    <3> QED BY <2>2, <3>6 DEF first
  <2> QED BY <2>3, <2>4
<1>3. Path \subseteq S
  <2> HIDE DEF S
  <2> QED BY <1>1, <1>2, PathInduction
<1>4. PICK k \in Key, q \in Path : p = <<k>> \o q
  BY <1>3
<1>5. Head(p) = k /\ Len(p) = Len(q) + 1
  <2> DEFINE one == <<k>>
  <2>1. one \in Seq(Key) /\ Len(one) = 1 /\ one[1] = k
    OBVIOUS
  <2> HIDE DEF one
  <2>2. Len(q) \in Nat
    BY LenProperties DEF Path
  <2>3. Len(one \o q) = 1 + Len(q) /\ (one \o q)[1] = one[1]
    <3>1. q \in Seq(Key)
      BY DEF Path
    <3>2. 1 \in 1 .. Len(one) + Len(q) /\ 1 <= Len(one)
      BY <2>1, <2>2
    <3>3. /\ Len(one \o q) = Len(one) + Len(q)
          /\ (one \o q)[1] = IF 1 <= Len(one) THEN one[1] ELSE q[1 - Len(one)]
      BY <2>1, <3>1, <3>2, ConcatProperties
    <3> QED BY <2>1, <3>2, <3>3
  <2>4. p = one \o q
    BY <1>4 DEF one
  <2> QED BY <2>1, <2>2, <2>3, <2>4
<1> QED BY <1>4, <1>5

LEMMA SameChildren ==
  ASSUME NEW tree, NEW other, \A k \in Key : Child(tree, k) = Child(other, k),
         NEW p \in Path, p # <<>>
  PROVE  Follow(tree, p) = Follow(other, p)
<1>1. PICK k \in Key, q \in Path : p = <<k>> \o q
  BY FirstKey
<1>2. /\ Follow(tree, <<k>> \o q) = Follow(Child(tree, k), q)
      /\ Follow(other, <<k>> \o q) = Follow(Child(other, k), q)
  BY FollowFirst
<1> QED BY <1>1, <1>2

LEMMA DeeperIsSound ==
  ASSUME NEW tree, NEW depth \in Int, NEW more \in Int, depth <= more, Sound(tree, depth)
  PROVE  Sound(tree, more)
<1>1. \A p \in Path : Len(p) < depth => Len(p) < more
  BY LenProperties DEF Path
<1> QED BY <1>1 DEF Sound

(* A subtree is less deep.                                                 *)
LEMMA SubtreeIsSound ==
  ASSUME NEW tree, NEW depth \in Nat, Sound(tree, depth), NEW p \in Path, p # <<>>
  PROVE  Sound(Follow(tree, p), depth - Len(p)) /\ Sound(Follow(tree, p), depth - 1)
<1>1. ASSUME NEW q \in Path, Follow(Follow(tree, p), q) # Nothing
      PROVE  /\ IsLeaf(Follow(Follow(tree, p), q)) \/ IsNode(Follow(Follow(tree, p), q))
             /\ \A k \in DOMAIN Fields(Follow(Follow(tree, p), q)) :
                  /\ k \in Key /\ Len(q) < depth - Len(p)
                  /\ Child(Follow(Follow(tree, p), q), k) # Nothing
  <2>1. Follow(tree, p \o q) = Follow(Follow(tree, p), q)
    BY FollowConcat
  <2>2. p \o q \in Path /\ Len(p \o q) = Len(p) + Len(q) /\ Len(p) \in Nat /\ Len(q) \in Nat
    BY ConcatProperties, LenProperties DEF Path
  <2>3. Len(p \o q) < depth => Len(q) < depth - Len(p)
    BY <2>2
  <2> QED BY <1>1, <2>1, <2>2, <2>3 DEF Sound
<1>2. Sound(Follow(tree, p), depth - Len(p))
  BY <1>1 DEF Sound
<1>3. Len(p) \in Nat /\ Len(p) # 0
  BY LenProperties, EmptySeq DEF Path
<1>4. depth - Len(p) \in Int /\ depth - 1 \in Int /\ depth - Len(p) <= depth - 1
  BY <1>3
<1>5. Sound(Follow(tree, p), depth - 1)
  BY <1>2, <1>4, DeeperIsSound
<1> QED BY <1>2, <1>5

(* A map of trees is a tree that is deeper by one.                         *)
LEMMA NodeIsSound ==
  ASSUME NEW fields, NEW depth \in Nat
  PROVE  Sound(Node(fields), depth) <=>
           \A k \in DOMAIN fields :
             k \in Key /\ 0 < depth /\ fields[k] # Nothing /\ Sound(fields[k], depth - 1)
<1> DEFINE root == <<>>
           node == Node(fields)
           Fits(k) == k \in Key /\ 0 < depth /\ fields[k] # Nothing /\ Sound(fields[k], depth - 1)
<1>1. root \in Path /\ Follow(node, root) = node /\ Len(root) = 0
  BY EmptySeq, FollowEmpty DEF Path
<1>2. IsNode(node) /\ Fields(node) = fields /\ node # Nothing
  BY NodeIsNode
<1>3. \A k \in DOMAIN fields : Child(node, k) = fields[k]
  BY <1>2, ChildIs
<1> HIDE DEF root, node
<1>4. ASSUME Sound(node, depth), NEW k \in DOMAIN fields PROVE Fits(k)
  <2>1. k \in Key /\ 0 < depth /\ Child(node, k) # Nothing
    BY <1>1, <1>2, <1>4 DEF Sound
  <2> DEFINE one == <<k>>
  <2>2. one \in Path /\ one # root /\ Follow(node, one) = Child(node, k)
    BY <1>1, <2>1, FollowFirst DEF root
  <2> HIDE DEF one
  <2>3. Sound(Follow(node, one), depth - 1)
    BY <1>4, <2>2, SubtreeIsSound DEF root
  <2> QED BY <1>3, <2>1, <2>2, <2>3
<1>5. ASSUME \A k \in DOMAIN fields : Fits(k), NEW p \in Path, Follow(node, p) # Nothing
      PROVE  /\ IsLeaf(Follow(node, p)) \/ IsNode(Follow(node, p))
             /\ \A key \in DOMAIN Fields(Follow(node, p)) :
                  key \in Key /\ Len(p) < depth /\ Child(Follow(node, p), key) # Nothing
  <2>1. CASE p = root
    BY <1>1, <1>2, <1>3, <1>5, <2>1
  <2>2. CASE p # root
    <3>1. PICK k \in Key, q \in Path : p = <<k>> \o q /\ Len(p) = Len(q) + 1
      BY <2>2, FirstKey DEF root
    <3>2. Follow(node, <<k>> \o q) = Follow(Child(node, k), q)
      BY FollowFirst
    <3>3. k \in DOMAIN fields
      <4>1. Child(node, k) # Nothing
        <5>1. CASE q = root
          BY <1>5, <3>1, <3>2, <5>1, FollowEmpty DEF root
        <5>2. CASE q # root
          BY <1>5, <3>1, <3>2, <5>2, FollowNothing, NothingThere DEF root
        <5> QED BY <5>1, <5>2
      <4> QED BY <1>2, <4>1, ChildIs
    <3>4. Follow(node, p) = Follow(fields[k], q) /\ Sound(fields[k], depth - 1)
      BY <1>3, <1>5, <3>1, <3>2, <3>3
    <3>5. Len(q) < depth - 1 => Len(p) < depth
      BY <3>1, LenProperties DEF Path
    <3> QED BY <1>5, <3>4, <3>5 DEF Sound
  <2> QED BY <2>1, <2>2
<1>6. (\A k \in DOMAIN fields : Fits(k)) => Sound(node, depth)
  BY <1>5 DEF Sound
<1> QED BY <1>4, <1>6 DEF node

LEMMA FieldsAreSound ==
  ASSUME NEW tree, NEW depth \in Nat, Sound(tree, depth)
  PROVE  Sound(Node(Fields(tree)), depth)
<1> DEFINE root == <<>>
<1>1. root \in Path /\ Follow(tree, root) = tree /\ Len(root) = 0
  BY EmptySeq, FollowEmpty DEF Path
<1> HIDE DEF root
<1>2. ASSUME NEW k \in DOMAIN Fields(tree)
      PROVE  k \in Key /\ 0 < depth /\ Fields(tree)[k] # Nothing /\ Sound(Fields(tree)[k], depth - 1)
  <2>1. tree # Nothing
    BY NothingThere
  <2>2. k \in Key /\ 0 < depth /\ Child(tree, k) # Nothing
    BY <1>1, <2>1 DEF Sound
  <2> DEFINE one == <<k>>
  <2>3. one \in Path /\ one # root /\ Follow(tree, one) = Child(tree, k)
    BY <1>1, <2>2, FollowFirst DEF root
  <2> HIDE DEF one
  <2>4. Sound(Follow(tree, one), depth - 1)
    BY <2>3, SubtreeIsSound DEF root
  <2> QED BY <2>2, <2>3, <2>4, ChildIs
<1> DEFINE fields == Fields(tree)
<1>3. \A k \in DOMAIN fields :
        k \in Key /\ 0 < depth /\ fields[k] # Nothing /\ Sound(fields[k], depth - 1)
  BY <1>2
<1> HIDE DEF fields
<1>4. Sound(Node(fields), depth)
  BY <1>3, NodeIsSound
<1> QED BY <1>4 DEF fields

LEMMA OverIsSound ==
  ASSUME NEW fields, NEW others, NEW depth \in Nat,
         Sound(Node(fields), depth), Sound(Node(others), depth)
  PROVE  Sound(Node(Over(fields, others)), depth)
<1> DEFINE over == Over(fields, others)
<1>1. DOMAIN over = DOMAIN fields \cup DOMAIN others
  BY DEF Over
<1>2. \A k \in DOMAIN over : over[k] = IF k \in DOMAIN fields THEN fields[k] ELSE others[k]
  BY DEF Over
<1>3. /\ \A k \in DOMAIN fields :
           k \in Key /\ 0 < depth /\ fields[k] # Nothing /\ Sound(fields[k], depth - 1)
      /\ \A k \in DOMAIN others :
           k \in Key /\ 0 < depth /\ others[k] # Nothing /\ Sound(others[k], depth - 1)
  BY NodeIsSound
<1> HIDE DEF over
<1>4. \A k \in DOMAIN over :
        k \in Key /\ 0 < depth /\ over[k] # Nothing /\ Sound(over[k], depth - 1)
  BY <1>1, <1>2, <1>3
<1>5. Sound(Node(over), depth)
  BY <1>4, NodeIsSound
<1> QED BY <1>5 DEF over

LEMMA EntryIsSound ==
  ASSUME NEW key \in Key, NEW tree, tree # Nothing, NEW depth \in Nat, 0 < depth,
         Sound(tree, depth - 1)
  PROVE  Sound(Node(Entry(key, tree)), depth)
<1> DEFINE entry == Entry(key, tree)
<1>1. \A k \in DOMAIN entry : k = key /\ entry[k] = tree
  BY DEF Entry
<1> HIDE DEF entry
<1>2. Sound(Node(entry), depth)
  BY <1>1, NodeIsSound
<1> QED BY <1>2 DEF entry

LEMMA NoFieldsAreSound ==
  ASSUME NEW depth \in Nat
  PROVE  Sound(Node(NoFields), depth)
<1>1. DOMAIN NoFields = {}
  BY DEF NoFields
<1> QED BY <1>1, NodeIsSound

LEMMA LeafIsSound ==
  ASSUME NEW tree, IsLeaf(tree), NEW depth \in Nat
  PROVE  Sound(tree, depth)
<1>1. ~IsNode(tree) /\ DOMAIN Fields(tree) = {}
  BY DEF IsLeaf, IsNode, Fields, NoFields
<1>2. \A p \in Path : Follow(tree, p) # Nothing => Follow(tree, p) = tree
  BY <1>1, FollowEmpty, FollowNothing
<1> QED BY <1>1, <1>2 DEF Sound

(* Where paths lead in what is put together.                               *)

LEMMA EntryLeads ==
  ASSUME NEW key \in Key, NEW tree, NEW p \in Path
  PROVE  /\ At(Entry(key, tree), <<key>> \o p) = Follow(tree, p)
         /\ <<key>> \o p \in Path /\ <<key>> \o p # <<>> /\ Head(<<key>> \o p) = key
<1> DEFINE one == <<key>>
           all == one \o p
<1>1. one \in Path /\ all \in Path
  BY FollowFirst
<1>2. Len(one) = 1 /\ one[1] = key /\ Len(p) \in Nat
  BY LenProperties DEF Path
<1>3. Len(all) = 1 + Len(p) /\ all[1] = key
  <2>1. one \in Seq(Key) /\ p \in Seq(Key)
    BY <1>1 DEF Path
  <2> HIDE DEF one
  <2>2. 1 \in 1 .. Len(one) + Len(p) /\ 1 <= Len(one)
    BY <1>2
  <2>3. /\ Len(one \o p) = Len(one) + Len(p)
        /\ (one \o p)[1] = IF 1 <= Len(one) THEN one[1] ELSE p[1 - Len(one)]
    BY <2>1, <2>2, ConcatProperties
  <2> QED BY <1>2, <2>2, <2>3
<1>4. Child(Node(Entry(key, tree)), key) = tree
  <2>1. key \in DOMAIN Entry(key, tree) /\ Entry(key, tree)[key] = tree
    BY DEF Entry
  <2> QED BY <2>1, ChildIs, NodeIsNode
<1>5. At(Entry(key, tree), all) = Follow(tree, p)
  BY <1>4, FollowFirst DEF At
<1> HIDE DEF all
<1>6. all # <<>> /\ Head(all) = key
  BY <1>1, <1>2, <1>3, EmptySeq DEF Path
<1> QED BY <1>1, <1>5, <1>6 DEF all

LEMMA HeadLeads ==
  ASSUME NEW tree, NEW p \in Path, p # <<>>
  PROVE  /\ Head(p) \in Key
         /\ At(Fields(tree), p) = Follow(tree, p)
         /\ Head(p) \notin DOMAIN Fields(tree) => Follow(tree, p) = Nothing
<1>1. PICK k \in Key, q \in Path : p = <<k>> \o q /\ Head(p) = k
  BY FirstKey
<1>2. \A key \in Key : Child(Node(Fields(tree)), key) = Child(tree, key)
  BY ChildIs, NodeIsNode
<1>3. At(Fields(tree), p) = Follow(tree, p)
  BY <1>2, SameChildren DEF At
<1>4. k \notin DOMAIN Fields(tree) => Follow(tree, p) = Nothing
  <2>1. SUFFICES ASSUME k \notin DOMAIN Fields(tree) PROVE Follow(tree, <<k>> \o q) = Nothing
    BY <1>1
  <2>2. Child(tree, k) = Nothing
    BY <2>1, ChildIs
  <2>3. Follow(tree, <<k>> \o q) = Follow(Nothing, q)
    BY <2>2, FollowFirst
  <2>4. Follow(Nothing, q) = Nothing
    BY FollowEmpty, FollowNothing, NothingThere
  <2> QED BY <2>3, <2>4
<1> QED BY <1>1, <1>3, <1>4

LEMMA OverLeads ==
  ASSUME NEW fields, NEW others, NEW p \in Path, p # <<>>
  PROVE  /\ Head(p) \in DOMAIN fields => At(Over(fields, others), p) = At(fields, p)
         /\ Head(p) \notin DOMAIN fields => At(Over(fields, others), p) = At(others, p)
         /\ Head(p) \notin DOMAIN others => At(Over(fields, others), p) = At(fields, p)
<1>1. PICK k \in Key, q \in Path : p = <<k>> \o q /\ Head(p) = k
  BY FirstKey
<1>2. \A f : Child(Node(f), k) = IF k \in DOMAIN f THEN f[k] ELSE Nothing
  BY ChildIs, NodeIsNode
<1>3. \A f : At(f, p) = Follow(IF k \in DOMAIN f THEN f[k] ELSE Nothing, q)
  BY <1>1, <1>2, FollowFirst DEF At
<1>4. /\ DOMAIN Over(fields, others) = DOMAIN fields \cup DOMAIN others
      /\ k \in DOMAIN fields \cup DOMAIN others =>
           Over(fields, others)[k] = IF k \in DOMAIN fields THEN fields[k] ELSE others[k]
  BY DEF Over
<1> QED BY <1>1, <1>3, <1>4
=============================================================================
