--------------------------- MODULE HeaderTreeProof ---------------------------
(***************************************************************************)
(* What the other proofs need to know of the tree of blocks.  The functions *)
(* of HeaderTree are defined by recursion towards Genesis; that they are    *)
(* what their definitions say, and how ancestors, heights and work are      *)
(* related, follows from TreeAssumption by looking at a lowest              *)
(* counterexample.                                                          *)
(***************************************************************************)
EXTENDS HeaderTree, FunctionTheorems, FiniteSetTheorems, TLAPS

\* The sets of blocks that lead back to Genesis, and the least one with b in it.
Rooted(S) == \A x \in S \ {Genesis} : Parent[x] \in S
Line(b) == {x \in Block : \A S \in SUBSET Block : b \in S /\ Rooted(S) => x \in S}

\* The line of a block is the block and the line of its parent.
LEMMA LineStep ==
  ASSUME NEW b \in Block
  PROVE  /\ b \in Line(b)
         /\ b = Genesis => Line(b) = {b}
         /\ b # Genesis => Line(b) = {b} \cup Line(Parent[b])
<1>1. b \in Line(b)
  BY DEF Line
<1>2. ASSUME b = Genesis PROVE Line(b) = {b}
  <2>1. Rooted({b}) /\ {b} \in SUBSET Block
    BY <1>2 DEF Rooted
  <2>2. QED
    BY <1>1, <2>1 DEF Line
<1>3. ASSUME b # Genesis PROVE Line(b) = {b} \cup Line(Parent[b])
  <2>1. Parent[b] \in Block
    BY <1>3, HeaderTreeAssumption
  <2>2. {b} \cup Line(Parent[b]) \subseteq Line(b)
    BY <1>1, <1>3, <2>1 DEF Line, Rooted
  <2>3. Rooted({b} \cup Line(Parent[b]))
    <3>1. SUFFICES ASSUME NEW x \in ({b} \cup Line(Parent[b])) \ {Genesis}
                   PROVE  Parent[x] \in Line(Parent[b])
      BY DEF Rooted
    <3>2. CASE x = b
      BY <2>1, <3>2 DEF Line
    <3>3. CASE x \in Line(Parent[b])
      BY <3>1, <3>3, HeaderTreeAssumption DEF Line, Rooted
    <3>4. QED
      BY <3>1, <3>2, <3>3
  <2>4. {b} \cup Line(Parent[b]) \in SUBSET Block
    BY DEF Line
  <2>5. Line(b) \subseteq {b} \cup Line(Parent[b])
    BY <2>3, <2>4 DEF Line
  <2>6. QED
    BY <2>2, <2>5
<1>4. QED
  BY <1>1, <1>2, <1>3

\* Lines lead back, within themselves, to Genesis.
LEMMA LineRooted ==
  ASSUME NEW b \in Block
  PROVE  Line(b) \subseteq Block /\ Rooted(Line(b)) /\ Genesis \in Line(b)
<1>1. Line(b) \subseteq Block
  BY DEF Line
<1>2. Rooted(Line(b))
  BY HeaderTreeAssumption DEF Line, Rooted
<1>3. PICK x \in Line(b) : x = Genesis \/ Parent[x] \notin Line(b)
  BY <1>1, LineStep, TreeAssumption
<1>4. QED
  BY <1>1, <1>2, <1>3 DEF Rooted

\* No block is on the line of its parent.
LEMMA LineAcyclic ==
  ASSUME NEW b \in Block \ {Genesis}
  PROVE  b \notin Line(Parent[b])
<1> DEFINE S == {x \in Line(b) : b \in Line(x)}
<1>1. b \in S /\ S \subseteq Block
  BY LineStep, LineRooted
<1>2. PICK x \in S : x = Genesis \/ Parent[x] \notin S
  BY <1>1, TreeAssumption
<1>3. x # Genesis
  BY <1>1, LineStep
<1>4. Parent[x] \in Line(b) /\ Parent[x] \in Block /\ x \in Block
  BY <1>1, <1>3, LineRooted, HeaderTreeAssumption DEF Rooted
<1>5. b \notin Line(Parent[x])
  BY <1>2, <1>3, <1>4
<1>6. x = b
  BY <1>3, <1>4, <1>5, LineStep
<1>7. QED
  BY <1>5, <1>6
(***************************************************************************)
(* A definition by recursion towards Genesis, with values in V, defines a   *)
(* function.  Fits(f, b, ...) says that f does what the definition asks on  *)
(* the line of b.                                                           *)
(***************************************************************************)
Fits(f, b, base, G) ==
  \A x \in Line(b) : f[x] = IF x = Genesis THEN base ELSE G[x][f[Parent[x]]]

\* There is such a function for every block.
LEMMA FitsExists ==
  ASSUME NEW V, NEW base \in V, NEW G \in [Block -> [V -> V]], NEW b \in Block
  PROVE  \E f \in [Line(b) -> V] : Fits(f, b, base, G)
<1> DEFINE S == {x \in Block : ~ \E f \in [Line(x) -> V] : Fits(f, x, base, G)}
<1> SUFFICES ASSUME S # {} PROVE FALSE
  OBVIOUS
<1>1. PICK x \in S : x = Genesis \/ Parent[x] \notin S
  BY TreeAssumption
<1>2. CASE x = Genesis
  <2>1. Line(x) = {Genesis}
    BY <1>2, LineStep
  <2>2. [y \in Line(x) |-> base] \in [Line(x) -> V]
    OBVIOUS
  <2>3. Fits([y \in Line(x) |-> base], x, base, G)
    BY <2>1 DEF Fits
  <2>4. QED
    BY <2>2, <2>3
<1>3. CASE x # Genesis
  <2> DEFINE p == Parent[x]
  <2>1. p \in Block /\ p \notin S /\ Line(x) = {x} \cup Line(p) /\ x \notin Line(p)
    BY <1>1, <1>3, HeaderTreeAssumption, LineStep, LineAcyclic
  <2>2. PICK f \in [Line(p) -> V] : Fits(f, p, base, G)
    BY <2>1
  <2> DEFINE h == [y \in Line(x) |-> IF y = x THEN G[x][f[p]] ELSE f[y]]
  <2>3. p \in Line(p) /\ f[p] \in V
    BY <2>1, LineStep
  <2>4. h \in [Line(x) -> V]
    <3>1. G[x][f[p]] \in V
      BY <2>3
    <3>2. QED
      BY <2>1, <3>1
  <2>5. ASSUME NEW y \in Line(x)
        PROVE  h[y] = IF y = Genesis THEN base ELSE G[y][h[Parent[y]]]
    <3>1. CASE y = x
      BY <1>3, <2>1, <2>3, <3>1
    <3>2. CASE y # x
      <4>1. y \in Line(p) /\ h[y] = f[y]
        BY <2>1, <3>2
      <4>2. f[y] = IF y = Genesis THEN base ELSE G[y][f[Parent[y]]]
        BY <2>2, <4>1 DEF Fits
      <4>3. y # Genesis => Parent[y] \in Line(p)
        BY <2>1, <4>1, LineRooted DEF Rooted
      <4>4. y # Genesis => h[Parent[y]] = f[Parent[y]]
        BY <2>1, <4>3
      <4>5. QED
        BY <4>1, <4>2, <4>4
    <3>3. QED
      BY <3>1, <3>2
  <2>6. Fits(h, x, base, G)
    BY <2>5 DEF Fits
  <2>7. QED
    BY <2>4, <2>6
<1>4. QED
  BY <1>2, <1>3

\* Two such functions agree where both are defined.
LEMMA FitsUnique ==
  ASSUME NEW base, NEW G, NEW b \in Block, NEW c \in Block,
         NEW f, NEW g, Fits(f, b, base, G), Fits(g, c, base, G)
  PROVE  \A x \in Line(b) \cap Line(c) : f[x] = g[x]
<1> DEFINE S == {x \in Line(b) \cap Line(c) : f[x] # g[x]}
<1> SUFFICES ASSUME S # {} PROVE FALSE
  OBVIOUS
<1>1. S \subseteq Block
  BY LineRooted
<1>2. PICK x \in S : x = Genesis \/ Parent[x] \notin S
  BY <1>1, TreeAssumption
<1>3. x # Genesis => Parent[x] \in Line(b) \cap Line(c)
  BY LineRooted DEF Rooted
<1>4. x # Genesis => f[Parent[x]] = g[Parent[x]]
  BY <1>2, <1>3
<1>5. /\ f[x] = IF x = Genesis THEN base ELSE G[x][f[Parent[x]]]
      /\ g[x] = IF x = Genesis THEN base ELSE G[x][g[Parent[x]]]
  BY DEF Fits
<1>6. QED
  BY <1>4, <1>5

\* Hence there is one on all blocks.
LEMMA TreeRecursion ==
  ASSUME NEW V, NEW base \in V, NEW G \in [Block -> [V -> V]]
  PROVE  \E f \in [Block -> V] :
           \A b \in Block : f[b] = IF b = Genesis THEN base ELSE G[b][f[Parent[b]]]
<1> DEFINE g(b) == CHOOSE h \in [Line(b) -> V] : Fits(h, b, base, G)
           f == [b \in Block |-> g(b)[b]]
<1>1. ASSUME NEW b \in Block PROVE g(b) \in [Line(b) -> V] /\ Fits(g(b), b, base, G)
  BY FitsExists
<1> HIDE DEF g
<1>2. f \in [Block -> V]
  BY <1>1, LineStep
<1>3. ASSUME NEW b \in Block
      PROVE  f[b] = IF b = Genesis THEN base ELSE G[b][f[Parent[b]]]
  <2>1. f[b] = IF b = Genesis THEN base ELSE G[b][g(b)[Parent[b]]]
    BY <1>1, LineStep DEF Fits
  <2>2. ASSUME b # Genesis PROVE g(b)[Parent[b]] = f[Parent[b]]
    <3>1. Parent[b] \in Block /\ Parent[b] \in Line(b) \cap Line(Parent[b])
      BY <2>2, HeaderTreeAssumption, LineStep
    <3>2. g(b)[Parent[b]] = g(Parent[b])[Parent[b]]
      BY <1>1, <3>1, FitsUnique
    <3>3. QED
      BY <3>1, <3>2
  <2>3. QED
    BY <2>1, <2>2
<1>4. QED
  BY <1>2, <1>3
-----------------------------------------------------------------------------
\* The recursive definitions have solutions: the ancestors,
LEMMA AncestorsDef ==
  /\ Ancestors \in [Block -> SUBSET Block]
  /\ \A b \in Block :
       Ancestors[b] = {b} \cup (IF b = Genesis THEN {} ELSE Ancestors[Parent[b]])
<1> DEFINE V == SUBSET Block
           base == {Genesis}
           G == [b \in Block |-> [S \in V |-> {b} \cup S]]
           Def(f) == [b \in Block |-> {b} \cup (IF b = Genesis THEN {} ELSE f[Parent[b]])]
<1>1. base \in V /\ G \in [Block -> [V -> V]]
  BY HeaderTreeAssumption
<1>2. PICK f \in [Block -> V] :
        \A b \in Block : f[b] = IF b = Genesis THEN base ELSE G[b][f[Parent[b]]]
  <2> HIDE DEF V, base, G
  <2> QED BY <1>1, TreeRecursion
<1>3. ASSUME NEW b \in Block
      PROVE  f[b] = {b} \cup (IF b = Genesis THEN {} ELSE f[Parent[b]])
  <2>1. b # Genesis => Parent[b] \in Block
    BY HeaderTreeAssumption
  <2>2. QED
    BY <1>2, <2>1
<1>4. f = Def(f)
  BY <1>2, <1>3
<1>5. Ancestors = Def(Ancestors)
  BY <1>4 DEF Ancestors
<1>6. \A b \in Block : 
        Ancestors[b] = {b} \cup (IF b = Genesis THEN {} ELSE Ancestors[Parent[b]])
  BY <1>5
<1>7. ASSUME NEW b \in Block PROVE Ancestors[b] \in SUBSET Block
  <2> DEFINE S == {x \in Block : Ancestors[x] \notin SUBSET Block}
  <2> SUFFICES ASSUME S # {} PROVE FALSE
    OBVIOUS
  <2>1. PICK x \in S : x = Genesis \/ Parent[x] \notin S
    BY TreeAssumption
  <2>2. x # Genesis => Parent[x] \in Block
    BY HeaderTreeAssumption
  <2>3. QED
    BY <1>6, <2>1, <2>2
<1>8. QED
  BY <1>5, <1>6, <1>7
\* the heights,
LEMMA HeightDef ==
  /\ Height \in [Block -> Nat]
  /\ \A b \in Block : Height[b] = IF b = Genesis THEN 0 ELSE Height[Parent[b]] + 1
<1> DEFINE V == Nat
           base == 0
           G == [b \in Block |-> [n \in V |-> n + 1]]
           Def(f) == [b \in Block |-> IF b = Genesis THEN 0 ELSE f[Parent[b]] + 1]
<1>1. base \in V /\ G \in [Block -> [V -> V]]
  BY HeaderTreeAssumption
<1>2. PICK f \in [Block -> V] :
        \A b \in Block : f[b] = IF b = Genesis THEN base ELSE G[b][f[Parent[b]]]
  <2> HIDE DEF V, base, G
  <2> QED BY <1>1, TreeRecursion
<1>3. ASSUME NEW b \in Block
      PROVE  f[b] = IF b = Genesis THEN 0 ELSE f[Parent[b]] + 1
  <2>1. b # Genesis => Parent[b] \in Block
    BY HeaderTreeAssumption
  <2>2. b # Genesis => f[Parent[b]] \in Nat
    BY <2>1
  <2>3. b # Genesis => f[b] = G[b][f[Parent[b]]]
    BY <1>2
  <2>4. b = Genesis => f[b] = base
    BY <1>2
  <2>5. QED
    BY <2>2, <2>3, <2>4, HeaderTreeAssumption
<1>4. f = Def(f)
  BY <1>2, <1>3
<1>5. Height = Def(Height)
  BY <1>4 DEF Height
<1>6. \A b \in Block : Height[b] = IF b = Genesis THEN 0 ELSE Height[Parent[b]] + 1
  BY <1>5
<1>7. ASSUME NEW b \in Block PROVE Height[b] \in Nat
  <2> DEFINE S == {x \in Block : Height[x] \notin Nat}
  <2> SUFFICES ASSUME S # {} PROVE FALSE
    OBVIOUS
  <2>1. PICK x \in S : x = Genesis \/ Parent[x] \notin S
    BY TreeAssumption
  <2>2. x # Genesis => Parent[x] \in Block
    BY HeaderTreeAssumption
  <2>3. QED
    BY <1>6, <2>1, <2>2, HeaderTreeAssumption
<1>8. QED
  BY <1>5, <1>6, <1>7

\* and the work of the chains.
LEMMA ChainWorkDef ==
  /\ ChainWork \in [Block -> Nat]
  /\ \A b \in Block : ChainWork[b] = Proof[b] + (IF b = Genesis THEN 0 ELSE ChainWork[Parent[b]])
<1> DEFINE V == Nat
           base == Proof[Genesis]
           G == [b \in Block |-> [n \in V |-> Proof[b] + n]]
           Def(f) == [b \in Block |-> Proof[b] + (IF b = Genesis THEN 0 ELSE f[Parent[b]])]
<1>1. base \in V /\ G \in [Block -> [V -> V]]
  BY HeaderTreeAssumption
<1>2. PICK f \in [Block -> V] :
        \A b \in Block : f[b] = IF b = Genesis THEN base ELSE G[b][f[Parent[b]]]
  <2> HIDE DEF V, base, G
  <2> QED BY <1>1, TreeRecursion
<1>3. ASSUME NEW b \in Block
      PROVE  f[b] = Proof[b] + (IF b = Genesis THEN 0 ELSE f[Parent[b]])
  <2>1. b # Genesis => Parent[b] \in Block
    BY HeaderTreeAssumption
  <2>2. b # Genesis => f[Parent[b]] \in Nat
    BY <2>1
  <2>3. b # Genesis => f[b] = G[b][f[Parent[b]]]
    BY <1>2
  <2>4. b = Genesis => f[b] = base
    BY <1>2
  <2>5. QED
    BY <2>2, <2>3, <2>4, HeaderTreeAssumption
<1>4. f = Def(f)
  BY <1>2, <1>3
<1>5. ChainWork = Def(ChainWork)
  BY <1>4 DEF ChainWork
<1>6. \A b \in Block : ChainWork[b] = Proof[b] + (IF b = Genesis THEN 0 ELSE ChainWork[Parent[b]])
  BY <1>5
<1>7. ASSUME NEW b \in Block PROVE ChainWork[b] \in Nat
  <2> DEFINE S == {x \in Block : ChainWork[x] \notin Nat}
  <2> SUFFICES ASSUME S # {} PROVE FALSE
    OBVIOUS
  <2>1. PICK x \in S : x = Genesis \/ Parent[x] \notin S
    BY TreeAssumption
  <2>2. x # Genesis => Parent[x] \in Block
    BY HeaderTreeAssumption
  <2>3. QED
    BY <1>6, <2>1, <2>2, HeaderTreeAssumption
<1>8. QED
  BY <1>5, <1>6, <1>7

\* The ancestors of a block are its line.
LEMMA AncestorsLine == \A b \in Block : Ancestors[b] = Line(b)
<1> DEFINE S == {x \in Block : Ancestors[x] # Line(x)}
<1> SUFFICES ASSUME S # {} PROVE FALSE
  OBVIOUS
<1>1. PICK x \in S : x = Genesis \/ Parent[x] \notin S
  BY TreeAssumption
<1>2. x # Genesis => Parent[x] \in Block
  BY HeaderTreeAssumption
<1>3. QED
  BY <1>1, <1>2, AncestorsDef, LineStep

\* Ancestry: a block is its own ancestor, every chain starts at Genesis, what is
\* below an ancestor is an ancestor, and no block is below itself.
LEMMA Ancestry ==
  ASSUME NEW b \in Block
  PROVE  /\ Ancestors[b] \subseteq Block
         /\ b \in Ancestors[b] /\ Genesis \in Ancestors[b]
         /\ \A x \in Ancestors[b] : Ancestors[x] \subseteq Ancestors[b]
         /\ Ancestors[Genesis] = {Genesis}
         /\ b # Genesis => /\ Parent[b] \in Block
                           /\ Ancestors[b] = {b} \cup Ancestors[Parent[b]]
                           /\ b \notin Ancestors[Parent[b]]
<1>1. Ancestors[b] = Line(b) /\ Genesis \in Block
  BY AncestorsLine, HeaderTreeAssumption
<1>2. Ancestors[b] \subseteq Block /\ b \in Ancestors[b] /\ Genesis \in Ancestors[b]
  BY <1>1, LineStep, LineRooted
<1>3. ASSUME NEW x \in Ancestors[b] PROVE Ancestors[x] \subseteq Ancestors[b]
  <2>1. x \in Block /\ Ancestors[x] = Line(x)
    BY <1>2, AncestorsLine
  <2>2. Rooted(Line(b)) /\ Line(b) \in SUBSET Block
    BY LineRooted
  <2>3. QED
    BY <1>1, <2>1, <2>2 DEF Line
<1>4. b # Genesis => /\ Parent[b] \in Block
                     /\ Ancestors[b] = {b} \cup Ancestors[Parent[b]]
                     /\ b \notin Ancestors[Parent[b]]
  BY <1>1, HeaderTreeAssumption, AncestorsLine, LineStep, LineAcyclic
<1>5. QED
  BY <1>1, <1>2, <1>3, <1>4, AncestorsDef

\* Height and work grow strictly along a chain.
LEMMA Growth ==
  ASSUME NEW b \in Block, NEW x \in Ancestors[b], x # b
  PROVE  Height[x] < Height[b] /\ ChainWork[x] < ChainWork[b]
<1> DEFINE S == {y \in Block : /\ x \in Ancestors[y] /\ x # y
                               /\ ~(Height[x] < Height[y] /\ ChainWork[x] < ChainWork[y])}
<1> SUFFICES ASSUME S # {} PROVE FALSE
  OBVIOUS
<1>1. PICK y \in S : y = Genesis \/ Parent[y] \notin S
  BY TreeAssumption
<1>2. y # Genesis /\ Parent[y] \in Block /\ x \in Ancestors[Parent[y]] /\ x \in Block
  BY <1>1, Ancestry
<1>3. /\ Height[y] = Height[Parent[y]] + 1
      /\ ChainWork[y] = Proof[y] + ChainWork[Parent[y]]
      /\ Proof[y] \in Nat \ {0}
      /\ {Height[x], Height[y], Height[Parent[y]]} \subseteq Nat
      /\ {ChainWork[x], ChainWork[y], ChainWork[Parent[y]]} \subseteq Nat
  BY <1>1, <1>2, HeightDef, ChainWorkDef, HeaderTreeAssumption
<1>4. x = Parent[y] \/ (Height[x] < Height[Parent[y]] /\ ChainWork[x] < ChainWork[Parent[y]])
  BY <1>1, <1>2
<1>5. QED
  BY <1>1, <1>3, <1>4
\* Two ancestors of a block are on one chain.
LEMMA Comparable ==
  ASSUME NEW c \in Block, NEW x \in Ancestors[c], NEW y \in Ancestors[c]
  PROVE  x \in Ancestors[y] \/ y \in Ancestors[x]
<1> DEFINE S == {d \in Block : /\ x \in Ancestors[d] /\ y \in Ancestors[d]
                               /\ ~(x \in Ancestors[y] \/ y \in Ancestors[x])}
<1> SUFFICES ASSUME S # {} PROVE FALSE
  OBVIOUS
<1>1. PICK d \in S : d = Genesis \/ Parent[d] \notin S
  BY TreeAssumption
<1>2. CASE d = Genesis
  BY <1>1, <1>2, Ancestry
<1>3. CASE d # Genesis
  <2>1. Parent[d] \in Block /\ Ancestors[d] = {d} \cup Ancestors[Parent[d]]
    BY <1>1, <1>3, Ancestry
  <2>2. QED
    BY <1>1, <1>3, <2>1
<1>4. QED
  BY <1>2, <1>3

\* No two blocks are above each other.
LEMMA Antisymmetry ==
  ASSUME NEW b \in Block, NEW c \in Ancestors[b], b \in Ancestors[c]
  PROVE  b = c
<1>1. c \in Block /\ Height[b] \in Nat /\ Height[c] \in Nat
  BY Ancestry, HeightDef
<1>2. QED
  BY <1>1, Growth

\* Among finite sets there is one that includes no other.
LEMMA SmallestSet ==
  ASSUME NEW U, U # {}, \A X \in U : IsFiniteSet(X)
  PROVE  \E X \in U : \A Y \in U : Y \subseteq X => Y = X
<1> DEFINE A == UNION U
<1>1. U \subseteq FiniteSubsetsOf(A)
  BY DEF FiniteSubsetsOf
<1>2. IsWellFoundedOn(StrictSubsetOrdering(A), FiniteSubsetsOf(A))
  BY FS_StrictSubsetOrderingWellFounded
<1>3. PICK X \in U : \A Y \in U : ~(<<Y, X>> \in StrictSubsetOrdering(A))
  BY <1>1, <1>2, WFMin
<1>4. QED
  BY <1>3 DEF StrictSubsetOrdering

\* Among natural numbers there is a least one.
LEMMA LeastNat ==
  ASSUME NEW T \in SUBSET Nat, T # {}
  PROVE  \E x \in T : \A y \in T : x <= y
<1> DEFINE R == OpToRel(<, Nat)
<1>1. IsWellFoundedOn(R, Nat)
  BY NatLessThanWellFounded
<1>2. PICK x \in T : \A y \in T : ~(<<y, x>> \in R)
  <2> HIDE DEF R
  <2> QED BY <1>1, WFMin
<1>3. \A y \in T : ~(y < x)
  <2>1. \A y \in T : y < x => <<y, x>> \in R
    BY DEF OpToRel
  <2> HIDE DEF R
  <2>2. QED
    BY <1>2, <2>1, Zenon
<1>4. QED
  BY <1>3

\* A finite set of blocks has a highest one.
LEMMA HighestIn ==
  ASSUME NEW T \in SUBSET Block, IsFiniteSet(T), T # {}
  PROVE  Highest(T) \in T /\ \A y \in T : Height[y] <= Height[Highest(T)]
<1> DEFINE Top(X) == \E x \in X : \A y \in X : Height[y] <= Height[x]
           U == {X \in SUBSET T : X # {} /\ ~Top(X)}
<1>1. Top(T)
  <2> SUFFICES ASSUME U # {} PROVE FALSE
    OBVIOUS
  <2>1. \A X \in U : IsFiniteSet(X)
    BY FS_Subset
  <2>2. PICK X \in U : \A Y \in U : Y \subseteq X => Y = X
    <3> HIDE DEF U
    <3> QED BY <2>1, SmallestSet
  <2>3. PICK x \in X : TRUE
    OBVIOUS
  <2>4. X \ {x} # {}
    BY <2>3, HeightDef
  <2>5. Top(X \ {x})
    <3>1. X \ {x} \notin U
      <4> HIDE DEF U
      <4> QED BY <2>2, <2>3
    <3>2. X \ {x} \in SUBSET T
      BY <2>2
    <3>3. QED
      BY <2>4, <3>1, <3>2
  <2>6. PICK m \in X \ {x} : \A y \in X \ {x} : Height[y] <= Height[m]
    BY <2>5
  <2>7. Height[x] \in Nat /\ Height[m] \in Nat /\ \A y \in X : Height[y] \in Nat
    BY <2>3, <2>6, HeightDef
  <2>8. CASE Height[x] <= Height[m]
    BY <2>6, <2>8
  <2>9. CASE Height[m] <= Height[x]
    BY <2>3, <2>6, <2>7, <2>9
  <2>10. QED
    BY <2>7, <2>8, <2>9
<1>2. QED
  BY <1>1 DEF Highest

\* A set of blocks has a lowest one.
LEMMA LowestIn ==
  ASSUME NEW T \in SUBSET Block, T # {}
  PROVE  Lowest(T) \in T /\ \A y \in T : Height[Lowest(T)] <= Height[y]
<1> DEFINE H == {Height[x] : x \in T}
<1>1. H \in SUBSET Nat /\ H # {}
  BY HeightDef
<1>2. PICK h \in H : \A k \in H : h <= k
  <2> HIDE DEF H
  <2> QED BY <1>1, LeastNat
<1>3. \E x \in T : \A y \in T : Height[x] <= Height[y]
  BY <1>2
<1>4. QED
  BY <1>3 DEF Lowest

\* A chain is finite.
LEMMA AncestorsFinite == \A b \in Block : IsFiniteSet(Ancestors[b])
<1> DEFINE S == {x \in Block : ~IsFiniteSet(Ancestors[x])}
<1> SUFFICES ASSUME S # {} PROVE FALSE
  OBVIOUS
<1>1. PICK b \in S : b = Genesis \/ Parent[b] \notin S
  BY TreeAssumption
<1>2. CASE b = Genesis
  <2>1. Ancestors[b] = {b}
    BY <1>1, <1>2, Ancestry
  <2>2. QED
    BY <1>1, <2>1, FS_Singleton
<1>3. CASE b # Genesis
  <2>1. Ancestors[b] = Ancestors[Parent[b]] \cup {b} /\ IsFiniteSet(Ancestors[Parent[b]])
    BY <1>1, <1>3, Ancestry
  <2>2. QED
    BY <1>1, <2>1, FS_AddElement
<1>4. QED
  BY <1>2, <1>3

\* The blocks of a chain have different heights.
LEMMA DifferentHeights ==
  ASSUME NEW b \in Block, NEW x \in Ancestors[b], NEW y \in Ancestors[b],
         Height[x] = Height[y]
  PROVE  x = y
<1>1. x \in Block /\ y \in Block /\ Height[x] \in Nat
  BY Ancestry, HeightDef
<1>2. x \in Ancestors[y] \/ y \in Ancestors[x]
  BY Comparable
<1>3. QED
  BY <1>1, <1>2, Growth

\* A chain has a block at each height up to its own.
LEMMA AncestorAt ==
  ASSUME NEW b \in Block, NEW h \in 0 .. Height[b]
  PROVE  \E x \in Ancestors[b] : Height[x] = h
<1> DEFINE S == {c \in Ancestors[b] : h <= Height[c]}
<1>1. S \in SUBSET Block /\ b \in S /\ Height[b] \in Nat /\ h \in Nat
  BY Ancestry, HeightDef
<1>2. PICK c \in S : \A y \in S : Height[c] <= Height[y]
  <2> HIDE DEF S
  <2> QED BY <1>1, LowestIn
<1>3. /\ c \in Block /\ Height[c] \in Nat /\ h <= Height[c]
      /\ Height[c] = IF c = Genesis THEN 0 ELSE Height[Parent[c]] + 1
  BY <1>1, HeightDef
<1>4. CASE c = Genesis
  BY <1>1, <1>3, <1>4
<1>5. CASE c # Genesis
  <2>1. Parent[c] \in Ancestors[b] /\ Height[Parent[c]] \in Nat
    BY <1>3, <1>5, Ancestry, HeightDef
  <2>2. Parent[c] \notin S
    BY <1>2, <1>3, <1>5, <2>1
  <2>3. QED
    BY <1>1, <1>3, <1>5, <2>1, <2>2
<1>6. QED
  BY <1>4, <1>5

\* Blocks of a chain are numbered by how many of them are lower.
LEMMA Ranks ==
  ASSUME NEW b \in Block, NEW S \in SUBSET Ancestors[b]
  PROVE  /\ IsFiniteSet(S) /\ Cardinality(S) \in Nat
         /\ \A x \in S : Cardinality({y \in S : Height[y] < Height[x]}) \in 0 .. Cardinality(S) - 1
         /\ \A x, z \in S :
              Cardinality({y \in S : Height[y] < Height[x]}) = Cardinality({y \in S : Height[y] < Height[z]})
              => x = z
         /\ \A i \in 1 .. Cardinality(S) :
              \E x \in S : Cardinality({y \in S : Height[y] < Height[x]}) = i - 1
<1> DEFINE Below(x) == {y \in S : Height[y] < Height[x]}
           k == Cardinality(S)
           rank == [x \in S |-> Cardinality(Below(x))]
<1>1. IsFiniteSet(S) /\ k \in Nat /\ S \subseteq Block
  BY AncestorsFinite, FS_Subset, FS_CardinalityType, Ancestry
<1>2. \A x \in S : Height[x] \in Nat
  BY <1>1, HeightDef
<1>3. ASSUME NEW x \in S
      PROVE  IsFiniteSet(Below(x)) /\ Cardinality(Below(x)) \in 0 .. k - 1
  <2>1. Below(x) \in SUBSET (S \ {x})
    BY <1>2
  <2>2. IsFiniteSet(S \ {x}) /\ Cardinality(S \ {x}) = k - 1
    BY <1>1, FS_RemoveElement
  <2> HIDE DEF Below
  <2>3. IsFiniteSet(Below(x)) /\ Cardinality(Below(x)) <= k - 1
    BY <2>1, <2>2, FS_Subset
  <2>4. QED
    BY <1>1, <2>3, FS_CardinalityType
<1>4. ASSUME NEW x \in S, NEW z \in S, Height[x] < Height[z]
      PROVE  Cardinality(Below(x)) < Cardinality(Below(z))
  <2>1. Below(x) \in SUBSET Below(z) /\ Below(x) # Below(z)
    BY <1>2, <1>4
  <2>2. IsFiniteSet(Below(x)) /\ IsFiniteSet(Below(z))
    BY <1>3
  <2> HIDE DEF Below
  <2>3. /\ Cardinality(Below(x)) <= Cardinality(Below(z))
        /\ Cardinality(Below(x)) # Cardinality(Below(z))
    BY <2>1, <2>2, FS_Subset
  <2>4. Cardinality(Below(x)) \in Nat /\ Cardinality(Below(z)) \in Nat
    BY <2>2, FS_CardinalityType
  <2>5. QED
    BY <2>3, <2>4
<1>5. ASSUME NEW x \in S, NEW z \in S, Cardinality(Below(x)) = Cardinality(Below(z))
      PROVE  x = z
  <2>1. Cardinality(Below(x)) \in Nat /\ Cardinality(Below(z)) \in Nat
    <3> HIDE DEF Below, k
    <3> QED BY <1>1, <1>3
  <2>2. Height[x] \in Nat /\ Height[z] \in Nat
    BY <1>2
  <2>3. ~(Height[x] < Height[z]) /\ ~(Height[z] < Height[x])
    <3> HIDE DEF Below
    <3> QED BY <1>4, <1>5, <2>1
  <2>4. QED
    BY <2>2, <2>3, DifferentHeights
<1> HIDE DEF Below
<1>6. rank \in Injection(S, 0 .. k - 1)
  <2> HIDE DEF k
  <2>1. rank \in [S -> 0 .. k - 1]
    BY <1>3
  <2>2. \A x, z \in S : rank[x] = rank[z] => x = z
    BY <1>5
  <2> HIDE DEF rank
  <2>3. QED
    BY <2>1, <2>2, Fun_IsInj
<1>7. IsFiniteSet(0 .. k - 1) /\ Cardinality(0 .. k - 1) = k
  <2>1. k - 1 \in Int
    BY <1>1
  <2>2. QED
    BY <1>1, <2>1, FS_Interval
<1>8. rank \in Surjection(S, 0 .. k - 1)
  <2> HIDE DEF rank
  <2> QED BY <1>6, <1>7, FS_Injection
<1>9. ASSUME NEW i \in 1 .. k PROVE \E x \in S : Cardinality(Below(x)) = i - 1
  <2>1. i - 1 \in 0 .. k - 1
    BY <1>1
  <2>2. QED
    BY <1>8, <2>1 DEF Surjection
<1>10. QED
  BY <1>1, <1>3, <1>5, <1>9 DEF Below
=============================================================================
