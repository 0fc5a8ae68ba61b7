-------------------------- MODULE DagValidatorProofs --------------------------
(***************************************************************************)
(* What the verdict of the DAG validator says of every execution, for      *)
(* every description.  Reach is shown to be the least closed set; a graph  *)
(* without cycles has no endless way, forth or back; and the executions    *)
(* are tied to the graph by what the validator has checked (Judged), by    *)
(* the states of the for-each walks (LevelSound) and by what has been      *)
(* given so far (Progress).                                                *)
(***************************************************************************)
EXTENDS DagValidator, FiniteSetTheorems, FunctionTheorems, NaturalsInduction, SequenceTheorems, TLAPS

-----------------------------------------------------------------------------
(* Reachability.                                                             *)

FiniteGraph(G) == IsDirectedGraph(G) /\ IsFiniteSet(G.node)

\* The edges do not leave T.
Closed(G, T) == \A l \in G.edge : l[1] \in T => l[2] \in T

(* The order of the numbers as a relation.                                   *)
LEMMA LessThanRelation ==
    \A x, y : <<x, y>> \in OpToRel(<, Nat) <=> x \in Nat /\ y \in Nat /\ x < y
  BY Zenon DEF OpToRel

(* A member of B has the least measure.                                      *)
LEMMA HasLeast ==
    ASSUME NEW B, B # {}, NEW f \in [B -> Nat]
    PROVE  \E n \in B : \A m \in B : f[n] <= f[m]
<1> DEFINE N == {f[n] : n \in B}
<1>1. N \subseteq Nat /\ N # {}
  OBVIOUS
<1>2. PICK k \in N : \A j \in N : ~(<<j, k>> \in OpToRel(<, Nat))
  BY Zenon, <1>1, NatLessThanWellFounded, WFMin
<1>3. \A j \in N : ~(j < k)
  BY Zenon, <1>1, <1>2, LessThanRelation
<1>4. \A j \in N : k <= j
  BY <1>1, <1>3
<1>5. QED
  BY <1>4

(* Every set of a family of subsets has fewer members than those that        *)
(* properly contain it.                                                      *)
LEMMA SmallerSubset ==
    ASSUME NEW S, IsFiniteSet(S), NEW T, NEW U, U \subseteq S, T \subseteq U, T # U
    PROVE  Cardinality(T) \in Nat /\ Cardinality(U) \in Nat /\ Cardinality(T) < Cardinality(U)
<1>1. IsFiniteSet(U)
  BY FS_Subset
<1>2. IsFiniteSet(T) /\ Cardinality(T) <= Cardinality(U) /\ Cardinality(T) # Cardinality(U)
  BY <1>1, FS_Subset, Zenon
<1>3. QED
  BY <1>1, <1>2, FS_CardinalityType

-----------------------------------------------------------------------------
Closure(G, N, c) ==
    c = [T \in SUBSET N |->
            LET U == T \cup AllSuccessors(G, T) IN IF U = T THEN T ELSE c[U]]

(* A set is closed if its successors are in it.                              *)
LEMMA ClosedFacts ==
    ASSUME NEW G, IsDirectedGraph(G), NEW N, G.node \subseteq N, NEW T \in SUBSET N
    PROVE  /\ T \cup AllSuccessors(G, T) \in SUBSET N
           /\ Closed(G, T) <=> T \cup AllSuccessors(G, T) = T
           /\ \A C \in SUBSET N : Closed(G, C) /\ T \subseteq C => AllSuccessors(G, T) \subseteq C
<1>1. \A l \in G.edge : l = <<l[1], l[2]>> /\ l[1] \in G.node /\ l[2] \in G.node
  BY DEF IsDirectedGraph
<1>2. AllSuccessors(G, T) = {m \in G.node : \E n \in T : <<n, m>> \in G.edge}
  <2>1. \A m : m \in AllSuccessors(G, T) <=> \E n \in T : m \in Successors(G, n)
    BY Zenon DEF AllSuccessors
  <2>2. QED
    BY <2>1 DEF Successors
<1>3. T \cup AllSuccessors(G, T) \in SUBSET N
  BY <1>2
<1>4. Closed(G, T) <=> T \cup AllSuccessors(G, T) = T
  BY <1>1, <1>2 DEF Closed
<1>5. ASSUME NEW C \in SUBSET N, Closed(G, C), T \subseteq C PROVE AllSuccessors(G, T) \subseteq C
  BY <1>2, <1>5 DEF Closed
<1>6. QED
  BY <1>3, <1>4, <1>5

(* The recursion of Reach defines a function.                                *)
LEMMA ClosureExists ==
    ASSUME NEW G, IsDirectedGraph(G), NEW N, G.node \subseteq N
    PROVE  \E c : Closure(G, N, c)
<1> DEFINE Supersets(T) == {C \in SUBSET N : Closed(G, C) /\ T \subseteq C}
           c == [T \in SUBSET N |-> {n \in N : \A C \in Supersets(T) : n \in C}]
<1>1. ASSUME NEW T \in SUBSET N
      PROVE  c[T] = LET U == T \cup AllSuccessors(G, T) IN IF U = T THEN T ELSE c[U]
  <2> DEFINE U == T \cup AllSuccessors(G, T)
  <2>1. U \in SUBSET N
    BY ClosedFacts
  <2>2. CASE U = T
    <3>1. T \in Supersets(T)
      BY <2>2, ClosedFacts
    <3>2. QED
      BY <3>1, <2>2
  <2>3. CASE U # T
    <3>1. \A C : C \in Supersets(T) <=> C \in Supersets(U)
      BY ClosedFacts
    <3>2. c[T] = c[U]
      BY <2>1, <3>1
    <3>3. QED
      BY <2>3, <3>2
  <2>4. QED
    BY <2>2, <2>3
<1>2. c = [T \in SUBSET N |->
            LET U == T \cup AllSuccessors(G, T) IN IF U = T THEN T ELSE c[U]]
  BY <1>1
<1>3. QED
  BY <1>2, Zenon DEF Closure

(* What such a function computes.                                            *)
LEMMA ClosureFacts ==
    ASSUME NEW G, IsDirectedGraph(G), NEW N, G.node \subseteq N, IsFiniteSet(N),
           NEW c, Closure(G, N, c)
    PROVE  \A T \in SUBSET N :
              /\ c[T] \in SUBSET N /\ T \subseteq c[T] /\ Closed(G, c[T])
              /\ \A C \in SUBSET N : Closed(G, C) /\ T \subseteq C => c[T] \subseteq C
<1> DEFINE Good(T) == /\ c[T] \in SUBSET N /\ T \subseteq c[T] /\ Closed(G, c[T])
                      /\ \A C \in SUBSET N : Closed(G, C) /\ T \subseteq C => c[T] \subseteq C
           Bad == {T \in SUBSET N : ~Good(T)}
           rest == [T \in Bad |-> Cardinality(N \ T)]
<1> SUFFICES ASSUME Bad # {} PROVE FALSE
  OBVIOUS
<1>1. rest \in [Bad -> Nat]
  <2>1. \A T \in Bad : IsFiniteSet(N \ T)
    BY FS_Subset
  <2>2. QED
    BY <2>1, FS_CardinalityType
<1>2. PICK T \in Bad : \A U \in Bad : Cardinality(N \ T) <= Cardinality(N \ U)
  <2>1. PICK T \in Bad : \A U \in Bad : rest[T] <= rest[U]
    <3> HIDE DEF Bad
    <3>1. QED
      BY <1>1, HasLeast
  <2>2. \A U \in Bad : rest[U] = Cardinality(N \ U)
    BY Zenon
  <2>3. QED
    BY <2>1, <2>2, Zenon
<1> DEFINE U == T \cup AllSuccessors(G, T)
<1>3. U \in SUBSET N
  BY ClosedFacts
<1>4. c[T] = IF U = T THEN T ELSE c[U]
  BY DEF Closure
<1>5. CASE U = T
  BY <1>4, <1>5, ClosedFacts
<1>6. CASE U # T
  <2>1. Cardinality(N \ U) \in Nat /\ Cardinality(N \ T) \in Nat /\ Cardinality(N \ U) < Cardinality(N \ T)
    <3>1. N \ T \subseteq N /\ N \ U \subseteq N \ T /\ N \ U # N \ T
      BY <1>3, <1>6
    <3>2. QED
      BY <3>1, SmallerSubset, Zenon
  <2>2. U \notin Bad
    <3>1. ~(Cardinality(N \ T) <= Cardinality(N \ U))
      BY ONLY <2>1
    <3>2. QED
      BY <1>2, <3>1, Zenon
  <2>3. Good(U)
    BY <1>3, <2>2
  <2>4. c[T] = c[U] /\ T \subseteq U
    BY <1>4, <1>6
  <2>5. \A C \in SUBSET N : Closed(G, C) /\ T \subseteq C => U \subseteq C
    BY ClosedFacts
  <2>6. Good(T)
    BY <2>3, <2>4, <2>5
  <2>7. QED
    BY <2>6
<1>7. QED
  BY <1>5, <1>6

(* What Reach computes: the least set with the nodes of S that no edge       *)
(* leaves.                                                                   *)
LEMMA ReachFacts ==
    ASSUME NEW G, FiniteGraph(G), NEW S, IsFiniteSet(S)
    PROVE  /\ S \subseteq Reach(G, S) /\ Reach(G, S) \subseteq G.node \cup S
           /\ Closed(G, Reach(G, S))
           /\ \A C : Closed(G, C) /\ S \subseteq C => Reach(G, S) \subseteq C
<1> DEFINE N == G.node \cup S
           c == CHOOSE c : Closure(G, N, c)
<1>1. IsDirectedGraph(G) /\ G.node \subseteq N /\ IsFiniteSet(N) /\ S \in SUBSET N
  BY FS_Union DEF FiniteGraph
<1>2. Closure(G, N, c)
  BY <1>1, ClosureExists
<1>3. Reach(G, S) = c[S]
  BY Zenon DEF Reach, Closure
<1> HIDE DEF c
<1>4. /\ c[S] \in SUBSET N /\ S \subseteq c[S] /\ Closed(G, c[S])
      /\ \A C \in SUBSET N : Closed(G, C) /\ S \subseteq C => c[S] \subseteq C
  <2> HIDE DEF N
  <2>1. QED
    BY <1>1, <1>2, ClosureFacts
<1>5. ASSUME NEW C, Closed(G, C), S \subseteq C PROVE c[S] \subseteq C
  <2>1. Closed(G, C \cap N)
    BY <1>5, <1>1 DEF Closed, IsDirectedGraph
  <2>2. C \cap N \in SUBSET N /\ S \subseteq C \cap N
    BY <1>5
  <2>3. QED
    BY <1>4, <2>1, <2>2
<1>6. QED
  BY <1>3, <1>4, <1>5

(* A node that is reached is a start or comes after one that is reached.     *)
LEMMA NoRoad ==
    ASSUME NEW G, FiniteGraph(G), NEW S, IsFiniteSet(S), NEW n \in Reach(G, S), n \notin S
    PROVE  n \in G.node /\ \E m \in Reach(G, S) : <<m, n>> \in G.edge
<1>1. n \in G.node
  BY ReachFacts
<1>2. SUFFICES ASSUME \A m \in Reach(G, S) : <<m, n>> \notin G.edge PROVE FALSE
  BY <1>1
<1> DEFINE C == Reach(G, S) \ {n}
<1>3. \A l \in G.edge : l = <<l[1], l[2]>>
  BY DEF FiniteGraph, IsDirectedGraph
<1>4. Closed(G, C)
  BY <1>2, <1>3, ReachFacts DEF Closed
<1>5. S \subseteq C
  BY ReachFacts
<1>6. QED
  BY <1>4, <1>5, ReachFacts

(* The edges of the transposed graph go the other way.                       *)
LEMMA TransposeFacts ==
    ASSUME NEW G, FiniteGraph(G)
    PROVE  /\ FiniteGraph(Transpose(G)) /\ Transpose(G).node = G.node
           /\ \A m, n : <<m, n>> \in Transpose(G).edge <=> <<n, m>> \in G.edge
           /\ \A T : Closed(Transpose(G), T) <=> \A m, n : <<m, n>> \in G.edge /\ n \in T => m \in T
<1>1. \A l \in G.edge : l = <<l[1], l[2]>> /\ l[1] \in G.node /\ l[2] \in G.node
  BY DEF FiniteGraph, IsDirectedGraph
<1>2. /\ Transpose(G).node = G.node /\ Transpose(G).edge = {<<e[2], e[1]>> : e \in G.edge}
      /\ Transpose(G) = [node |-> Transpose(G).node, edge |-> Transpose(G).edge]
  BY DEF Transpose
<1>3. \A m, n : <<m, n>> \in Transpose(G).edge <=> <<n, m>> \in G.edge
  BY <1>1, <1>2
<1>4. FiniteGraph(Transpose(G))
  BY <1>1, <1>2 DEF FiniteGraph, IsDirectedGraph
<1>5. \A T : Closed(Transpose(G), T) <=> \A m, n : <<m, n>> \in G.edge /\ n \in T => m \in T
  <2>1. \A l \in Transpose(G).edge : l = <<l[1], l[2]>>
    BY <1>2
  <2>2. ASSUME NEW T
        PROVE  Closed(Transpose(G), T) <=>
                  \A m, n : <<n, m>> \in Transpose(G).edge /\ n \in T => m \in T
    BY <2>1 DEF Closed
  <2>3. QED
    BY <1>3, <2>2
<1>6. QED
  BY <1>2, <1>3, <1>4, <1>5

\* The nodes that an edge or more lead to from n.
Beyond(G, n) == Reach(G, Successors(G, n))

(* What is beyond a node is closed, and beyond its members there is no more. *)
LEMMA BeyondFacts ==
    ASSUME NEW G, FiniteGraph(G), NEW n
    PROVE  /\ Beyond(G, n) \subseteq G.node /\ Closed(G, Beyond(G, n))
           /\ \A m : <<n, m>> \in G.edge => m \in Beyond(G, n)
           /\ \A m \in Beyond(G, n) : Beyond(G, m) \subseteq Beyond(G, n)
<1>1. \A l \in G.edge : l = <<l[1], l[2]>> /\ l[1] \in G.node /\ l[2] \in G.node
  BY DEF FiniteGraph, IsDirectedGraph
<1>2. \A m : Successors(G, m) \subseteq G.node /\ IsFiniteSet(Successors(G, m))
  <2>1. \A m : Successors(G, m) \subseteq G.node
    BY DEF Successors
  <2>2. QED
    BY <2>1, FS_Subset DEF FiniteGraph
<1>3. Beyond(G, n) \subseteq G.node /\ Closed(G, Beyond(G, n)) /\ Successors(G, n) \subseteq Beyond(G, n)
  BY <1>2, ReachFacts DEF Beyond
<1>4. \A m : <<n, m>> \in G.edge => m \in Beyond(G, n)
  BY <1>1, <1>3 DEF Successors
<1>5. ASSUME NEW m \in Beyond(G, n) PROVE Beyond(G, m) \subseteq Beyond(G, n)
  <2>1. Successors(G, m) \subseteq Beyond(G, n)
    BY <1>3 DEF Closed, Successors
  <2>2. QED
    BY <1>2, <1>3, <2>1, ReachFacts DEF Beyond
<1>6. QED
  BY <1>3, <1>4, <1>5

(* In a graph without cycles, no nodes lead only to each other...            *)
LEMMA NoEndlessWay ==
    ASSUME NEW G, FiniteGraph(G), ~Cyclic(G), NEW B, B \subseteq G.node,
           \A n \in B : \E m \in B : m \in Beyond(G, n)
    PROVE  B = {}
<1> SUFFICES ASSUME B # {} PROVE FALSE
  OBVIOUS
<1> DEFINE f == [n \in B |-> Cardinality(Beyond(G, n))]
<1>1. f \in [B -> Nat]
  BY BeyondFacts, FS_Subset, FS_CardinalityType DEF FiniteGraph
<1>2. PICK n \in B : \A m \in B : f[n] <= f[m]
  BY <1>1, HasLeast
<1>3. PICK m \in B : m \in Beyond(G, n)
  OBVIOUS
<1>4. Beyond(G, m) \subseteq Beyond(G, n) /\ m \notin Beyond(G, m)
  BY <1>3, BeyondFacts DEF Cyclic, Beyond
<1>5. ~(Cardinality(Beyond(G, n)) <= Cardinality(Beyond(G, m)))
  <2>1. Beyond(G, n) \subseteq G.node /\ Beyond(G, m) # Beyond(G, n)
    BY <1>3, <1>4, BeyondFacts
  <2>2. /\ Cardinality(Beyond(G, m)) \in Nat /\ Cardinality(Beyond(G, n)) \in Nat
        /\ Cardinality(Beyond(G, m)) < Cardinality(Beyond(G, n))
    BY <1>4, <2>1, SmallerSubset, Zenon DEF FiniteGraph
  <2>3. QED
    BY ONLY <2>2
<1>6. f[n] = Cardinality(Beyond(G, n)) /\ f[m] = Cardinality(Beyond(G, m))
  BY Zenon
<1>7. QED
  BY <1>2, <1>5, <1>6, Zenon

(* ... nor from each other.                                                  *)
LEMMA NoEndlessWayBack ==
    ASSUME NEW G, FiniteGraph(G), ~Cyclic(G), NEW B, B \subseteq G.node,
           \A n \in B : \E m \in B : n \in Beyond(G, m)
    PROVE  B = {}
<1> SUFFICES ASSUME B # {} PROVE FALSE
  OBVIOUS
<1> DEFINE f == [n \in B |-> Cardinality(G.node \ Beyond(G, n))]
<1>1. f \in [B -> Nat]
  <2>1. \A n \in B : IsFiniteSet(G.node \ Beyond(G, n))
    BY FS_Subset DEF FiniteGraph
  <2>2. QED
    BY <2>1, FS_CardinalityType
<1>2. PICK n \in B : \A m \in B : f[n] <= f[m]
  BY <1>1, HasLeast
<1>3. PICK m \in B : n \in Beyond(G, m)
  OBVIOUS
<1>4. Beyond(G, n) \subseteq Beyond(G, m) /\ n \notin Beyond(G, n) /\ n \in G.node
  BY <1>3, BeyondFacts DEF Cyclic, Beyond
<1> DEFINE R(k) == G.node \ Beyond(G, k)
<1>5. ~(Cardinality(R(n)) <= Cardinality(R(m)))
  <2>1. R(n) \subseteq G.node /\ R(m) \subseteq R(n) /\ R(m) # R(n)
    BY <1>3, <1>4
  <2>2. /\ Cardinality(R(m)) \in Nat /\ Cardinality(R(n)) \in Nat
        /\ Cardinality(R(m)) < Cardinality(R(n))
    <3> HIDE DEF R
    <3>1. QED
      BY <2>1, SmallerSubset, Zenon DEF FiniteGraph
  <2>3. QED
    <3> HIDE DEF R
    <3>1. QED
      BY ONLY <2>2
<1>6. f[n] = Cardinality(R(n)) /\ f[m] = Cardinality(R(m))
  BY Zenon
<1>7. QED
  BY <1>2, <1>5, <1>6, Zenon

-----------------------------------------------------------------------------
(* The graph of a description.                                               *)

(* The values of a function are as few as its arguments.                     *)
LEMMA ImageFinite ==
    ASSUME NEW S, IsFiniteSet(S), NEW f, DOMAIN f = S
    PROVE  IsFiniteSet({f[x] : x \in S})
<1>1. \E g : g \in Surjection(S, {f[x] : x \in S})
  <2> DEFINE g == [x \in S |-> f[x]]
  <2>1. g \in Surjection(S, {f[x] : x \in S})
    BY DEF Surjection
  <2>2. QED
    BY <2>1
<1>2. QED
  BY <1>1, FS_Surjection

(* A description has finitely many edges.                                    *)
LEMMA EdgesFinite ==
    ASSUME NEW d \in Dags
    PROVE  IsFiniteSet(Edges(d))
<1>1. IsFiniteSet(DOMAIN d.edges)
  <2>1. PICK S : d.edges \in Seq(S)
    BY DagsAssumption
  <2>2. Len(d.edges) \in Nat /\ DOMAIN d.edges = 1..Len(d.edges)
    BY <2>1, LenProperties
  <2>3. QED
    BY <2>2, FS_Interval
<1>2. QED
  BY <1>1, ImageFinite DEF Edges, Range

(* Sets of two and of four members.                                          *)
LEMMA FewFinite ==
    ASSUME NEW a, NEW b, NEW c, NEW x
    PROVE  IsFiniteSet({a, b}) /\ IsFiniteSet({a, b, c, x})
<1>1. IsFiniteSet({a} \cup {b})
  BY FS_AddElement, FS_Singleton, Zenon
<1>2. IsFiniteSet(({a} \cup {b}) \cup {c})
  BY <1>1, FS_AddElement, Zenon
<1>3. IsFiniteSet((({a} \cup {b}) \cup {c}) \cup {x})
  BY <1>2, FS_AddElement, Zenon
<1>4. {a, b} = {a} \cup {b} /\ {a, b, c, x} = (({a} \cup {b}) \cup {c}) \cup {x}
  OBVIOUS
<1>5. QED
  BY <1>1, <1>3, <1>4, Zenon

LinksOf(d) == UNION {Links(e) : e \in Edges(d)}

(* The links of a description are finitely many pairs.                       *)
LEMMA LinksFacts ==
    ASSUME NEW d \in Dags
    PROVE  /\ IsFiniteSet(LinksOf(d))
           /\ \A l \in LinksOf(d) : l = <<l[1], l[2]>> /\ \E e \in Edges(d) : l \in Links(e)
<1>1. \A e : IsFiniteSet(Links(e)) /\ \A l \in Links(e) : l = <<l[1], l[2]>>
  <2>1. ASSUME NEW e PROVE IsFiniteSet(Links(e))
    BY FewFinite, Zenon DEF Links
  <2>2. ASSUME NEW e PROVE \A l \in Links(e) : l = <<l[1], l[2]>>
    BY DEF Links
  <2>3. QED
    BY <2>1, <2>2
<1>2. IsFiniteSet(LinksOf(d))
  <2> DEFINE f == [e \in Edges(d) |-> Links(e)]
  <2>1. IsFiniteSet({f[e] : e \in Edges(d)})
    <3> HIDE DEF f
    <3>1. DOMAIN f = Edges(d)
      BY DEF f
    <3>2. QED
      BY <3>1, EdgesFinite, ImageFinite
  <2>2. \A T \in {f[e] : e \in Edges(d)} : IsFiniteSet(T)
    BY <1>1
  <2>3. LinksOf(d) = UNION {f[e] : e \in Edges(d)}
    BY DEF LinksOf
  <2>4. QED
    BY <2>1, <2>2, <2>3, FS_UNION
<1>3. QED
  BY <1>1, <1>2, Zenon DEF LinksOf

(* The graph is finite, and its edges are the links.                         *)
LEMMA GraphFacts ==
    ASSUME NEW d \in Dags
    PROVE  FiniteGraph(GraphOf(d)) /\ GraphOf(d).edge = LinksOf(d)
<1> DEFINE alone == IF d.edges = <<>> /\ Len(d.vertices) = 1
                    THEN {Vertex(d.vertices[1].name)} ELSE {}
           ends == UNION {{l[1], l[2]} : l \in LinksOf(d)}
<1>1. GraphOf(d) = [node |-> ends \cup alone, edge |-> LinksOf(d)]
  BY DEF GraphOf, LinksOf
<1>2. IsFiniteSet(ends)
  <2> DEFINE f == [l \in LinksOf(d) |-> {l[1], l[2]}]
  <2>1. IsFiniteSet({f[l] : l \in LinksOf(d)})
    <3> HIDE DEF f
    <3>1. DOMAIN f = LinksOf(d)
      BY DEF f
    <3>2. QED
      BY <3>1, LinksFacts, ImageFinite
  <2>2. \A T \in {f[l] : l \in LinksOf(d)} : IsFiniteSet(T)
    <3>1. \A l \in LinksOf(d) : IsFiniteSet({l[1], l[2]})
      BY FewFinite, Zenon
    <3>2. QED
      BY <3>1, Zenon
  <2>3. ends = UNION {f[l] : l \in LinksOf(d)}
    OBVIOUS
  <2>4. QED
    BY <2>1, <2>2, <2>3, FS_UNION
<1>3. IsFiniteSet(alone)
  BY FS_EmptySet, FS_Singleton
<1>4. IsFiniteSet(ends \cup alone)
  <2> HIDE DEF ends, alone
  <2>1. QED
    BY <1>2, <1>3, FS_Union
<1>5. LinksOf(d) \subseteq ends \X ends
  BY LinksFacts
<1>6. /\ GraphOf(d).node = ends \cup alone /\ GraphOf(d).edge = LinksOf(d)
      /\ GraphOf(d) = [node |-> GraphOf(d).node, edge |-> GraphOf(d).edge]
  <2> HIDE DEF ends, alone
  <2>1. QED
    BY <1>1
<1>7. GraphOf(d).edge \subseteq GraphOf(d).node \X GraphOf(d).node
  <2> HIDE DEF ends, alone
  <2>1. QED
    BY <1>5, <1>6
<1>8. IsFiniteSet(GraphOf(d).node)
  BY <1>4, <1>6, Zenon
<1>9. QED
  BY <1>6, <1>7, <1>8, Zenon DEF FiniteGraph, IsDirectedGraph

\* Links between nodes, as the description has them.
VertexLink(d, m, n) ==
    \E e \in Edges(d) : m = Vertex(e.from.vertex) /\ n = OutputVariant(e.from.vertex, e.from.variant)
VariantLink(d, m, n) ==
    \E e \in Edges(d) : m = OutputVariant(e.from.vertex, e.from.variant) /\ n = OutputPort(e.from)
OutputLink(d, m, n) ==
    \E e \in Edges(d) : m = OutputPort(e.from) /\ n = InputPort(Destination(e), e.to.port)
InputLink(d, m, n) ==
    \E e \in Edges(d) : m = InputPort(Destination(e), e.to.port) /\ n = Vertex(Destination(e))

(* The kind of a node says what its links are.                               *)
LEMMA LinkKinds ==
    ASSUME NEW d \in Dags, NEW m, NEW n, <<m, n>> \in GraphOf(d).edge
    PROVE  \/ m[1] = "vertex" /\ n[1] = "variant" /\ VertexLink(d, m, n)
           \/ m[1] = "variant" /\ n[1] = "output" /\ VariantLink(d, m, n)
           \/ m[1] = "output" /\ n[1] = "input" /\ OutputLink(d, m, n)
           \/ m[1] = "input" /\ n[1] = "vertex" /\ InputLink(d, m, n)
<1>1. PICK e \in Edges(d) : <<m, n>> \in Links(e)
  BY GraphFacts, LinksFacts
<1>2. \/ m = Vertex(e.from.vertex) /\ n = OutputVariant(e.from.vertex, e.from.variant)
      \/ m = OutputVariant(e.from.vertex, e.from.variant) /\ n = OutputPort(e.from)
      \/ m = OutputPort(e.from) /\ n = InputPort(Destination(e), e.to.port)
      \/ m = InputPort(Destination(e), e.to.port) /\ n = Vertex(Destination(e))
  BY <1>1 DEF Links
<1>3. /\ \A v : Vertex(v)[1] = "vertex"
      /\ \A v, x : OutputVariant(v, x)[1] = "variant"
      /\ \A f : OutputPort(f)[1] = "output"
      /\ \A v, p : InputPort(v, p)[1] = "input"
  BY DEF Vertex, OutputVariant, OutputPort, InputPort
<1>4. QED
  BY <1>2, <1>3 DEF VertexLink, VariantLink, OutputLink, InputLink

(* A variant has one vertex, and an output port one variant.                 *)
LEMMA OneOwner ==
    ASSUME NEW d \in Dags, NEW k, NEW m, NEW n,
           <<k, n>> \in GraphOf(d).edge, <<m, n>> \in GraphOf(d).edge, n[1] \in {"variant", "output"}
    PROVE  k = m
<1>1. CASE n[1] = "variant"
  <2>1. VertexLink(d, k, n) /\ VertexLink(d, m, n)
    BY <1>1, LinkKinds
  <2>2. PICK e \in Edges(d) : k = Vertex(e.from.vertex) /\ n = OutputVariant(e.from.vertex, e.from.variant)
    BY <2>1 DEF VertexLink
  <2>3. PICK h \in Edges(d) : m = Vertex(h.from.vertex) /\ n = OutputVariant(h.from.vertex, h.from.variant)
    BY <2>1 DEF VertexLink
  <2>4. OutputVariant(e.from.vertex, e.from.variant) = OutputVariant(h.from.vertex, h.from.variant)
    BY <2>2, <2>3, Zenon
  <2>5. e.from.vertex = h.from.vertex
    BY <2>4 DEF OutputVariant
  <2>6. QED
    BY <2>2, <2>3, <2>5, Zenon
<1>2. CASE n[1] = "output"
  <2>1. VariantLink(d, k, n) /\ VariantLink(d, m, n)
    BY <1>2, LinkKinds
  <2>2. PICK e \in Edges(d) : k = OutputVariant(e.from.vertex, e.from.variant) /\ n = OutputPort(e.from)
    BY <2>1 DEF VariantLink
  <2>3. PICK h \in Edges(d) : m = OutputVariant(h.from.vertex, h.from.variant) /\ n = OutputPort(h.from)
    BY <2>1 DEF VariantLink
  <2>4. OutputPort(e.from) = OutputPort(h.from)
    BY <2>2, <2>3, Zenon
  <2>5. e.from.vertex = h.from.vertex /\ e.from.variant = h.from.variant
    BY <2>4 DEF OutputPort
  <2>6. QED
    BY <2>2, <2>3, <2>5, Zenon
<1>3. QED
  BY <1>1, <1>2

EntryNodes(d, g) == {Vertex(v) : v \in EntryVertices(d, g)}

(* Every entry group starts vertices of the graph.                           *)
LEMMA EntryFacts ==
    ASSUME NEW d \in Dags, WellFormed(d)
    PROVE  /\ \A g \in Groups(d) : EntryNodes(d, g) \subseteq Entries(d)
           /\ \A g : EntryNodes(d, g) \subseteq GraphOf(d).node /\ IsFiniteSet(EntryNodes(d, g))
           /\ Entries(d) \subseteq GraphOf(d).node /\ IsFiniteSet(Entries(d))
           /\ \A n \in Entries(d) : n[1] = "vertex"
           /\ \A g : \A n \in EntryNodes(d, g) : n[1] = "vertex"
<1>1. \A v \in Range(d.vertices) : Vertex(v.name) \in GraphOf(d).node
  BY DEF WellFormed, VerticesConnected
<1>2. \A g \in d.groups : \A v \in g.vertices : Vertex(v) \in GraphOf(d).node
  BY <1>1 DEF WellFormed, GroupsKnown
<1>3. ASSUME NEW g PROVE EntryNodes(d, g) \subseteq GraphOf(d).node
  <2>1. CASE d.groups # {}
    BY <1>2, <2>1 DEF EntryNodes, EntryVertices
  <2>2. CASE d.groups = {}
    BY <1>1, <2>2 DEF EntryNodes, EntryVertices
  <2>3. QED
    BY <2>1, <2>2
<1>4. Entries(d) = UNION {EntryNodes(d, g) : g \in Groups(d)}
  BY DEF Entries, EntryNodes
<1>5. \A v : Vertex(v)[1] = "vertex"
  BY DEF Vertex
<1>6. \A g : \A n \in EntryNodes(d, g) : n[1] = "vertex"
  BY <1>5 DEF EntryNodes
<1>7. Entries(d) \subseteq GraphOf(d).node /\ \A n \in Entries(d) : n[1] = "vertex"
  BY <1>3, <1>4, <1>6
<1>8. \A S : S \subseteq GraphOf(d).node => IsFiniteSet(S)
  BY GraphFacts, FS_Subset DEF FiniteGraph
<1>9. QED
  BY <1>3, <1>4, <1>6, <1>7, <1>8

-----------------------------------------------------------------------------
(* For-each edges.                                                           *)

ForEachStates == {"Idle", "InForEach"}

\* The graph that ForEachPaired walks in, and where its walks get.
WalkGraph(d, G) ==
    [node |-> G.node \X ForEachStates,
     edge |-> UNION {{<<<<l[1], s[1]>>, <<l[2], s[3]>>>> :
                        s \in {s \in ForEachSteps : s[2] = Weight(d, l[1])}} : l \in G.edge}]
Walked(d, G) == Reach(WalkGraph(d, G), Entries(d) \X {"Idle"})

(* The table of the for-each states, line by line.                           *)
LEMMA StepCases ==
    \A a, k, b : <<a, k, b>> \in ForEachSteps <=>
        \/ a = "Idle" /\ k \in {"Static", "Normal", "DoWhile", "Break"} /\ b = "Idle"
        \/ a = "Idle" /\ k = "ForEach" /\ b = "InForEach"
        \/ a = "InForEach" /\ k = "Normal" /\ b = "InForEach"
        \/ a = "InForEach" /\ k = "Collect" /\ b = "Idle"
  BY DEF ForEachSteps

(* A step leads from a state to a state.                                     *)
LEMMA StepTriples ==
    \A s \in ForEachSteps : s = <<s[1], s[2], s[3]>> /\ s[1] \in ForEachStates /\ s[3] \in ForEachStates
  BY DEF ForEachSteps, ForEachStates

(* The walks follow the edges.                                               *)
LEMMA WalkFacts ==
    ASSUME NEW d \in Dags, WellFormed(d), NEW G, G = GraphOf(d)
    PROVE  /\ Entries(d) \X {"Idle"} \subseteq Walked(d, G)
           /\ \A q \in Walked(d, G) : q[1] \in G.node /\ q = <<q[1], q[2]>> /\ q[2] \in ForEachStates
           /\ \A n, m, a, b : <<n, a>> \in Walked(d, G) /\ <<n, m>> \in G.edge
                                 /\ <<a, Weight(d, n), b>> \in ForEachSteps => <<m, b>> \in Walked(d, G)
<1> DEFINE W == WalkGraph(d, G)
<1>0. FiniteGraph(G)
  BY GraphFacts
<1>1. \A l \in G.edge : l = <<l[1], l[2]>> /\ l[1] \in G.node /\ l[2] \in G.node
  BY <1>0 DEF FiniteGraph, IsDirectedGraph
<1>2. W.node = G.node \X ForEachStates /\ W = [node |-> W.node, edge |-> W.edge]
  BY DEF WalkGraph
<1>3. \A k : k \in W.edge <=>
        \E l \in G.edge : \E s \in ForEachSteps :
            s[2] = Weight(d, l[1]) /\ k = <<<<l[1], s[1]>>, <<l[2], s[3]>>>>
  BY DEF WalkGraph
<1>4. W.edge \subseteq W.node \X W.node
  <2>1. ASSUME NEW k \in W.edge PROVE k \in W.node \X W.node
    <3>1. PICK l \in G.edge, s \in ForEachSteps : k = <<<<l[1], s[1]>>, <<l[2], s[3]>>>>
      BY <1>3
    <3>2. l[1] \in G.node /\ l[2] \in G.node /\ s[1] \in ForEachStates /\ s[3] \in ForEachStates
      BY <1>1, StepTriples
    <3>3. QED
      BY <1>2, <3>1, <3>2
  <2>2. QED
    BY <2>1
<1>5. IsFiniteSet(W.node)
  <2>1. IsFiniteSet(ForEachStates)
    BY FewFinite DEF ForEachStates
  <2>2. QED
    BY <1>0, <1>2, <2>1, FS_Product DEF FiniteGraph
<1>6. FiniteGraph(W)
  BY <1>2, <1>4, <1>5, Zenon DEF FiniteGraph, IsDirectedGraph
<1>7. IsFiniteSet(Entries(d) \X {"Idle"})
  BY EntryFacts, FS_Singleton, FS_Product
<1>8. /\ Entries(d) \X {"Idle"} \subseteq Walked(d, G)
      /\ Walked(d, G) \subseteq W.node \cup (Entries(d) \X {"Idle"})
      /\ Closed(W, Walked(d, G))
  <2>1. Walked(d, G) = Reach(W, Entries(d) \X {"Idle"})
    BY DEF Walked
  <2> HIDE DEF W
  <2>2. QED
    BY <1>6, <1>7, <2>1, ReachFacts
<1>9. Entries(d) \X {"Idle"} \subseteq W.node
  BY <1>2, EntryFacts DEF ForEachStates
<1>10. ASSUME NEW q \in Walked(d, G) PROVE q[1] \in G.node /\ q = <<q[1], q[2]>> /\ q[2] \in ForEachStates
  <2>1. q \in G.node \X ForEachStates
    BY <1>2, <1>8, <1>9
  <2>2. QED
    BY <2>1
<1>11. ASSUME NEW n, NEW m, NEW a, NEW b, <<n, a>> \in Walked(d, G), <<n, m>> \in G.edge,
              <<a, Weight(d, n), b>> \in ForEachSteps
       PROVE  <<m, b>> \in Walked(d, G)
  <2>1. <<<<n, a>>, <<m, b>>>> \in W.edge
    BY <1>3, <1>11
  <2>2. QED
    BY <1>8, <1>11, <2>1 DEF Closed
<1>12. QED
  BY <1>8, <1>10, <1>11

(* ForEachPaired: no walk is stuck, and none ends inside a for-each.         *)
LEMMA PairedFacts ==
    ASSUME NEW d \in Dags, WellFormed(d), NEW G, G = GraphOf(d), ForEachPaired(d, G)
    PROVE  \A n, a : <<n, a>> \in Walked(d, G) =>
              IF Successors(G, n) = {} THEN a = "Idle"
              ELSE \E b : <<a, Weight(d, n), b>> \in ForEachSteps
<1>1. \A q \in Walked(d, G) :
        IF Successors(G, q[1]) = {} THEN q[2] = "Idle"
        ELSE {s \in ForEachSteps : s[1] = q[2] /\ s[2] = Weight(d, q[1])} # {}
  BY Zenon DEF ForEachPaired, Walked, WalkGraph, ForEachStates
<1>2. ASSUME NEW n, NEW a, <<n, a>> \in Walked(d, G)
      PROVE  IF Successors(G, n) = {} THEN a = "Idle"
             ELSE \E b : <<a, Weight(d, n), b>> \in ForEachSteps
  <2>1. IF Successors(G, n) = {} THEN a = "Idle"
        ELSE {s \in ForEachSteps : s[1] = a /\ s[2] = Weight(d, n)} # {}
    BY <1>1, <1>2
  <2>2. QED
    BY <2>1, StepTriples
<1>3. QED
  BY <1>2

(* No node is both inside a for-each and outside.                            *)
LEMMA OneState ==
    ASSUME NEW d \in Dags, WellFormed(d), NEW G, G = GraphOf(d), ForEachPaired(d, G), ~Cyclic(G)
    PROVE  \A n : ~(<<n, "Idle">> \in Walked(d, G) /\ <<n, "InForEach">> \in Walked(d, G))
<1> DEFINE B == {n \in G.node : <<n, "Idle">> \in Walked(d, G) /\ <<n, "InForEach">> \in Walked(d, G)}
<1>1. ASSUME NEW n \in B PROVE \E m \in B : m \in Beyond(G, n)
  <2>1. Weight(d, n) = "Normal" /\ Successors(G, n) # {}
    <3>1. Successors(G, n) # {}
      <4>1. "InForEach" # "Idle"
        OBVIOUS
      <4>2. QED
        BY <4>1, PairedFacts
    <3>2. PICK a, b : /\ <<"Idle", Weight(d, n), a>> \in ForEachSteps
                      /\ <<"InForEach", Weight(d, n), b>> \in ForEachSteps
      BY <3>1, PairedFacts
    <3>3. Weight(d, n) = "Normal"
      BY <3>2, StepCases
    <3>4. QED
      BY <3>1, <3>3
  <2>2. PICK m \in G.node : <<n, m>> \in G.edge
    BY <2>1 DEF Successors
  <2>3. /\ <<"Idle", Weight(d, n), "Idle">> \in ForEachSteps
        /\ <<"InForEach", Weight(d, n), "InForEach">> \in ForEachSteps
    BY <2>1, StepCases
  <2>4. <<m, "Idle">> \in Walked(d, G) /\ <<m, "InForEach">> \in Walked(d, G)
    BY <2>2, <2>3, WalkFacts
  <2>5. QED
    BY <2>2, <2>4, BeyondFacts, GraphFacts
<1>2. B = {}
  <2> HIDE DEF B
  <2>1. B \subseteq G.node
    BY DEF B
  <2>2. QED
    BY <1>1, <2>1, GraphFacts, NoEndlessWay
<1>3. QED
  BY <1>2, WalkFacts

-----------------------------------------------------------------------------
(* What the verdict says of the graph, and when executions start.            *)

Sound(d, G) == WellFormed(d) /\ G = GraphOf(d) /\ ~Cyclic(G) /\ CorrectOrder(G)

Executed == verdict # None /\ verdict.stage \in {"ok", "concurrency"}

Judged ==
    /\ dag \in Dags
    /\ group \in Groups(dag) \cup {None}
    /\ graph = EmptyGraph \/ graph = GraphOf(dag)
    /\ given = [p \in DOMAIN given |-> given[p]]
    /\ DOMAIN given = (IF verdict = None THEN {} ELSE Of("input", graph.node))
    /\ ran \subseteq Of("vertex", graph.node)
    /\ verdict # None => verdict.stage \in Stages
    /\ group # None => Executed
    /\ group = None => ran = {} /\ \A p \in DOMAIN given : given[p] = {}
    /\ Executed => Sound(dag, graph)
    /\ Accepted =>
          /\ \A g \in Groups(dag) : FollowsConcurrencyRules(dag, graph, g)
          /\ ForEachPaired(dag, graph) /\ DoWhilesApart(dag, graph)
    /\ verdict # None /\ verdict.stage = "concurrency" =>
          verdict.group \in Groups(dag) /\ ~FollowsConcurrencyRules(dag, graph, verdict.group)

(* At the start nothing is judged.                                           *)
LEMMA InitJudged == Init => Judged
<1> SUFFICES ASSUME Init PROVE Judged
  OBVIOUS
<1>1. /\ dag \in Dags /\ graph = EmptyGraph /\ verdict = None /\ group = None
      /\ given = <<>> /\ ran = {}
  BY DEF Init
<1>2. DOMAIN given = {} /\ given = [p \in DOMAIN given |-> given[p]]
  BY <1>1
<1>3. QED
  BY <1>1, <1>2 DEF Judged, Executed, Accepted

(* The graph of a refused description.                                       *)
LEMMA EmptyFacts == FiniteGraph(EmptyGraph) /\ EmptyGraph.node = {}
  BY FS_EmptySet DEF EmptyGraph, FiniteGraph, IsDirectedGraph

(* There always is a finite graph.                                           *)
LEMMA JudgedGraph == Judged => FiniteGraph(graph)
  BY GraphFacts, EmptyFacts DEF Judged

(* The verdict names the first stage that fails.                             *)
LEMMA ValidateJudged == Judged /\ Validate => Judged'
<1> SUFFICES ASSUME Judged, Validate PROVE Judged'
  OBVIOUS
<1>0. /\ dag \in Dags /\ dag' = dag /\ group' = group /\ ran' = ran /\ verdict = None
      /\ group = None /\ ran = {}
  BY DEF Judged, Validate, Executed
<1>1. /\ graph' = IF WellFormed(dag) THEN GraphOf(dag) ELSE EmptyGraph
      /\ given' = [p \in Of("input", graph'.node) |-> {}]
  BY DEF Validate
<1> DEFINE Fails(stage) == verdict' = [stage |-> stage, group |-> None]
           broken == {g \in Groups(dag) : ~FollowsConcurrencyRules(dag, graph', g)}
<1>2. \/ ~WellFormed(dag) /\ Fails("description")
      \/ WellFormed(dag) /\ Cyclic(graph') /\ Fails("cycle")
      \/ WellFormed(dag) /\ ~Cyclic(graph') /\ ~CorrectOrder(graph') /\ Fails("order")
      \/ /\ WellFormed(dag) /\ ~Cyclic(graph') /\ CorrectOrder(graph')
         /\ \E g \in broken : verdict' = [stage |-> "concurrency", group |-> g]
      \/ WellFormed(dag) /\ broken = {} /\ ~ForEachPaired(dag, graph') /\ Fails("for_each")
      \/ WellFormed(dag) /\ broken = {} /\ ~DoWhilesApart(dag, graph') /\ Fails("do_while")
      \/ /\ WellFormed(dag) /\ ~Cyclic(graph') /\ CorrectOrder(graph') /\ broken = {}
         /\ ForEachPaired(dag, graph') /\ DoWhilesApart(dag, graph') /\ Fails("ok")
  BY Zenon DEF Validate
<1>3. /\ verdict' = [stage |-> verdict'.stage, group |-> verdict'.group]
      /\ verdict'.stage \in Stages /\ verdict'.group \in Groups(dag) \cup {None}
      /\ verdict'.stage \in {"ok", "concurrency"} => Sound(dag, graph')
      /\ verdict'.stage = "ok" =>
           broken = {} /\ ForEachPaired(dag, graph') /\ DoWhilesApart(dag, graph')
      /\ verdict'.stage = "concurrency" => verdict'.group \in broken
  <2> HIDE DEF broken
  <2>0. broken \subseteq Groups(dag)
    BY DEF broken
  <2>1. QED
    BY <1>1, <1>2, <2>0 DEF Sound, Stages
<1>4. verdict' # None
  <2>1. verdict' \in [stage : Stages, group : Groups(dag) \cup {None}]
    BY <1>3
  <2>2. QED
    BY <1>0, <2>1, NoneAssumption
<1>5. DOMAIN given' = Of("input", graph'.node) /\ \A p \in DOMAIN given' : given'[p] = {}
  BY <1>1
<1>6. given' = [p \in DOMAIN given' |-> given'[p]]
  BY <1>1
<1>7. QED
  BY <1>0, <1>1, <1>3, <1>4, <1>5, <1>6 DEF Judged, Executed, Accepted, Sound

(* Executions start after the verdict.                                       *)
LEMMA InvokeJudged == Judged /\ (\E g \in Groups(dag) : Invoke(g)) => Judged'
<1> SUFFICES ASSUME Judged, NEW g \in Groups(dag), Invoke(g) PROVE Judged'
  OBVIOUS
<1>1. /\ Executed /\ group = None /\ group' = g /\ dag' = dag /\ graph' = graph
      /\ verdict' = verdict /\ given' = given /\ ran' = ran
  BY DEF Invoke, Executed
<1>2. (group' = None) => ran' = {} /\ \A p \in DOMAIN given' : given'[p] = {}
  BY <1>1 DEF Judged
<1>3. QED
  BY <1>1, <1>2 DEF Judged, Executed, Accepted

\* What running v adds to the port p, if the variant x is chosen.
Sent(v, x, p) ==
    {[from |-> o, level |-> Nested(v, o)] : o \in {o \in Successors(graph, x) : <<o, p>> \in graph.edge}}

(* The step of a vertex, in parts.                                           *)
LEMMA RunFacts ==
    ASSUME NEW v, Run(v)
    PROVE  /\ group # None /\ v \notin ran /\ ran' = ran \cup {v}
           /\ v \in EntryNodes(dag, group) \/ Predecessors(graph, v) # {}
           /\ \A p \in Predecessors(graph, v) : given[p] # {}
           /\ dag' = dag /\ graph' = graph /\ verdict' = verdict /\ group' = group
           /\ \/ Successors(graph, v) = {} /\ given' = given
              \/ \E x \in Successors(graph, v) : given' = [p \in DOMAIN given |-> given[p] \cup Sent(v, x, p)]
  BY Zenon DEF Run, Ready, Sent, EntryNodes

(* Executions leave the verdict.                                             *)
LEMMA RunJudged == Judged /\ (\E v \in Of("vertex", graph.node) : Run(v)) => Judged'
<1> SUFFICES ASSUME Judged, NEW v \in Of("vertex", graph.node), Run(v) PROVE Judged'
  OBVIOUS
<1>1. /\ group # None /\ ran' = ran \cup {v}
      /\ dag' = dag /\ graph' = graph /\ verdict' = verdict /\ group' = group
  BY RunFacts
<1>2. DOMAIN given' = DOMAIN given /\ given' = [p \in DOMAIN given' |-> given'[p]]
  <2>1. CASE given' = given
    BY <2>1 DEF Judged
  <2>2. CASE \E x \in Successors(graph, v) : given' = [p \in DOMAIN given |-> given[p] \cup Sent(v, x, p)]
    <3>1. PICK x \in Successors(graph, v) : given' = [p \in DOMAIN given |-> given[p] \cup Sent(v, x, p)]
      BY <2>2
    <3>2. QED
      BY <3>1
  <2>3. QED
    BY <2>1, <2>2, RunFacts
<1>3. QED
  BY <1>1, <1>2 DEF Judged, Executed, Accepted

(* Nothing changes if nothing happens.                                       *)
LEMMA StutterJudged == Judged /\ UNCHANGED vars => Judged'
  BY DEF Judged, vars, Executed, Accepted

(* What the verdict says holds throughout.                                   *)
LEMMA SpecJudged == Spec => []Judged
<1>1. Judged /\ [Next]_vars => Judged'
  BY ValidateJudged, InvokeJudged, RunJudged, StutterJudged DEF Next
<1>2. QED
  BY InitJudged, <1>1, PTL DEF Spec

(* The types of the variables.                                               *)
THEOREM DagTypeCorrect == Spec => []TypeOK
<1>1. Judged => TypeOK
  BY JudgedGraph DEF Judged, TypeOK, Stages, FiniteGraph
<1>2. QED
  BY SpecJudged, <1>1, PTL

-----------------------------------------------------------------------------
(* The level of a value is the state that the walks of ForEachPaired have    *)
(* at its port.                                                              *)
Levelled(n, level) ==
    \/ level = 0 /\ <<n, "Idle">> \in Walked(dag, graph)
    \/ level = 1 /\ <<n, "InForEach">> \in Walked(dag, graph)

LevelSound == Accepted => \A p \in DOMAIN given : \A i \in given[p] : Levelled(p, i.level)

(* The greatest of some zeros and ones.                                      *)
LEMMA MaxFacts ==
    ASSUME NEW S, S \subseteq {0, 1}
    PROVE  Max({0} \cup S) = IF 1 \in S THEN 1 ELSE 0
<1> DEFINE T == {0} \cup S
<1>1. \E x \in T : \A y \in T : x >= y
  <2>1. CASE 1 \in S
    BY <2>1
  <2>2. CASE 1 \notin S
    BY <2>2
  <2>3. QED
    BY <2>1, <2>2
<1>2. PICK x : x = Max(T)
  OBVIOUS
<1>3. x \in T /\ \A y \in T : x >= y
  BY <1>1, <1>2 DEF Max
<1>4. QED
  BY <1>2, <1>3

(* What an accepted DAG has passed.                                          *)
LEMMA AcceptedFacts ==
    Judged /\ Accepted =>
        /\ dag \in Dags /\ WellFormed(dag) /\ graph = GraphOf(dag) /\ ~Cyclic(graph)
        /\ ForEachPaired(dag, graph) /\ DoWhilesApart(dag, graph)
  BY DEF Judged, Accepted, Executed, Sound

(* A vertex comes after input ports.                                         *)
LEMMA InputFacts ==
    ASSUME Judged, Executed, NEW v \in graph.node, v[1] = "vertex", NEW p \in Predecessors(graph, v)
    PROVE  p \in DOMAIN given /\ p[1] = "input" /\ p \in graph.node /\ <<p, v>> \in graph.edge
<1>1. p \in graph.node /\ <<p, v>> \in graph.edge
  BY DEF Predecessors
<1>2. dag \in Dags /\ graph = GraphOf(dag) /\ verdict # None
  BY DEF Judged, Executed, Sound
<1>3. p[1] = "input"
  BY <1>1, <1>2, LinkKinds
<1>4. QED
  BY <1>1, <1>2, <1>3 DEF Judged, Of

(* The inputs of a vertex agree on its level.                                *)
LEMMA LevelFacts ==
    ASSUME Judged, LevelSound, Accepted, NEW v \in graph.node, v[1] = "vertex"
    PROVE  /\ \A i, j \in Inputs(v) : i.level = j.level
           /\ Level(v) \in {0, 1}
           /\ Inputs(v) = {} => Level(v) = 0
           /\ Inputs(v) # {} => Levelled(v, Level(v))
<1>0. Executed
  BY DEF Accepted, Executed
<1>1. ASSUME NEW i \in Inputs(v) PROVE Levelled(v, i.level)
  <2>1. PICK p \in Predecessors(graph, v) : i \in given[p]
    BY DEF Inputs
  <2>2. p \in DOMAIN given /\ p[1] = "input" /\ <<p, v>> \in graph.edge
    BY <1>0, InputFacts
  <2>3. Levelled(p, i.level)
    BY <2>1, <2>2 DEF LevelSound
  <2>4. Weight(dag, p) = "Normal"
    BY <2>2 DEF Weight
  <2>5. /\ <<"Idle", "Normal", "Idle">> \in ForEachSteps
        /\ <<"InForEach", "Normal", "InForEach">> \in ForEachSteps
    BY StepCases
  <2>6. QED
    BY <2>2, <2>3, <2>4, <2>5, AcceptedFacts, WalkFacts DEF Levelled
<1>2. \A i, j \in Inputs(v) : i.level = j.level
  BY <1>1, AcceptedFacts, OneState DEF Levelled
<1> DEFINE S == {i.level : i \in Inputs(v)}
<1>3. S \subseteq {0, 1}
  BY <1>1 DEF Levelled
<1>4. Level(v) = IF 1 \in S THEN 1 ELSE 0
  <2>1. Level(v) = Max({0} \cup S)
    BY DEF Level
  <2> HIDE DEF S
  <2>2. QED
    BY <1>3, <2>1, MaxFacts
<1>5. Inputs(v) # {} => \E i \in Inputs(v) : i.level = Level(v)
  BY <1>1, <1>2, <1>4 DEF Levelled
<1>6. Inputs(v) = {} => Level(v) = 0
  BY <1>4
<1>7. QED
  BY <1>1, <1>2, <1>4, <1>5, <1>6

(* A vertex that runs is reached by a walk in the state of its level.        *)
LEMMA RunLevelled ==
    ASSUME Judged, LevelSound, Accepted, NEW v \in Of("vertex", graph.node), Run(v)
    PROVE  Level(v) \in {0, 1} /\ Levelled(v, Level(v))
<1>0. Executed /\ v \in graph.node /\ v[1] = "vertex"
  BY DEF Accepted, Executed, Of
<1>1. CASE Inputs(v) # {}
  BY <1>0, <1>1, LevelFacts
<1>2. CASE Inputs(v) = {}
  <2>1. Predecessors(graph, v) = {}
    BY <1>2, RunFacts DEF Inputs
  <2>2. v \in EntryNodes(dag, group) /\ group \in Groups(dag)
    BY <2>1, RunFacts DEF Judged
  <2>3. v \in Entries(dag)
    BY <2>2, AcceptedFacts, EntryFacts
  <2>4. <<v, "Idle">> \in Walked(dag, graph)
    BY <2>3, AcceptedFacts, WalkFacts
  <2>5. Level(v) = 0
    BY <1>0, <1>2, LevelFacts
  <2>6. QED
    BY <2>4, <2>5 DEF Levelled
<1>3. QED
  BY <1>1, <1>2

(* What a vertex sends has the level of the port it arrives at.              *)
LEMMA SentLevelled ==
    ASSUME Judged, LevelSound, Accepted, NEW v \in Of("vertex", graph.node), Run(v),
           NEW x \in Successors(graph, v), NEW p \in DOMAIN given, NEW i \in Sent(v, x, p)
    PROVE  Levelled(p, i.level)
<1>0. /\ dag \in Dags /\ WellFormed(dag) /\ graph = GraphOf(dag) /\ ForEachPaired(dag, graph)
      /\ v \in graph.node /\ v[1] = "vertex"
  BY AcceptedFacts DEF Of
<1>1. PICK o \in Successors(graph, x) : <<o, p>> \in graph.edge /\ i = [from |-> o, level |-> Nested(v, o)]
  BY DEF Sent
<1>2. <<v, x>> \in graph.edge /\ <<x, o>> \in graph.edge
  BY <1>1 DEF Successors
<1>3. x[1] = "variant" /\ o[1] = "output"
  BY <1>0, <1>2, LinkKinds
<1>4. Weight(dag, v) = "Normal" /\ Weight(dag, x) = "Normal"
  BY <1>0, <1>3 DEF Weight
<1>5. Level(v) \in {0, 1} /\ Levelled(v, Level(v))
  BY RunLevelled
<1>6. /\ <<"Idle", "Normal", "Idle">> \in ForEachSteps
      /\ <<"InForEach", "Normal", "InForEach">> \in ForEachSteps
  BY StepCases
<1>7. Levelled(x, Level(v))
  BY <1>0, <1>2, <1>4, <1>5, <1>6, WalkFacts DEF Levelled
<1>8. Levelled(o, Level(v))
  BY <1>0, <1>2, <1>4, <1>6, <1>7, WalkFacts DEF Levelled
<1>9. p \in Successors(graph, o)
  <2>1. p \in graph.node
    BY <1>0, <1>1, GraphFacts DEF FiniteGraph, IsDirectedGraph
  <2>2. QED
    BY <1>1, <2>1 DEF Successors
<1>10. CASE Level(v) = 0
  <2>1. <<o, "Idle">> \in Walked(dag, graph)
    BY <1>8, <1>10 DEF Levelled
  <2>2. PICK b : <<"Idle", Weight(dag, o), b>> \in ForEachSteps
    BY <1>0, <1>9, <2>1, PairedFacts
  <2>3. <<p, b>> \in Walked(dag, graph)
    BY <1>0, <1>1, <2>1, <2>2, WalkFacts
  <2>4. CASE Weight(dag, o) = "ForEach" /\ b = "InForEach"
    BY <1>1, <1>10, <2>3, <2>4 DEF Nested, Levelled
  <2>5. CASE Weight(dag, o) \in {"Static", "Normal", "DoWhile", "Break"} /\ b = "Idle"
    BY <1>1, <1>10, <2>3, <2>5 DEF Nested, Levelled
  <2>6. QED
    BY <2>2, <2>4, <2>5, StepCases
<1>11. CASE Level(v) = 1
  <2>1. <<o, "InForEach">> \in Walked(dag, graph)
    BY <1>8, <1>11 DEF Levelled
  <2>2. PICK b : <<"InForEach", Weight(dag, o), b>> \in ForEachSteps
    BY <1>0, <1>9, <2>1, PairedFacts
  <2>3. <<p, b>> \in Walked(dag, graph)
    BY <1>0, <1>1, <2>1, <2>2, WalkFacts
  <2>4. CASE Weight(dag, o) = "Collect" /\ b = "Idle"
    BY <1>1, <1>11, <2>3, <2>4 DEF Nested, Levelled
  <2>5. CASE Weight(dag, o) = "Normal" /\ b = "InForEach"
    BY <1>1, <1>11, <2>3, <2>5 DEF Nested, Levelled
  <2>6. QED
    BY <2>2, <2>4, <2>5, StepCases
<1>12. QED
  BY <1>5, <1>10, <1>11

(* The levels stay those of the walks.                                       *)
LEMMA SpecLevelSound == Spec => []LevelSound
<1>1. Init => LevelSound
  BY DEF Init, LevelSound, Accepted
<1>2. Judged /\ LevelSound /\ Validate => LevelSound'
  <2> SUFFICES ASSUME Judged, LevelSound, Validate PROVE LevelSound'
    OBVIOUS
  <2>1. \A p \in DOMAIN given' : given'[p] = {}
    BY ValidateJudged DEF Judged, Validate, Executed
  <2>2. QED
    BY <2>1 DEF LevelSound
<1>3. Judged /\ LevelSound /\ (\E g \in Groups(dag) : Invoke(g)) => LevelSound'
  BY DEF LevelSound, Levelled, Invoke, Accepted
<1>4. Judged /\ LevelSound /\ (\E v \in Of("vertex", graph.node) : Run(v)) => LevelSound'
  <2> SUFFICES ASSUME Judged, LevelSound, NEW v \in Of("vertex", graph.node), Run(v), Accepted'
               PROVE  \A p \in DOMAIN given' : \A i \in given'[p] : Levelled(p, i.level)'
    BY DEF LevelSound
  <2>1. dag' = dag /\ graph' = graph /\ Accepted
    BY RunFacts DEF Accepted
  <2>2. \A p, level : Levelled(p, level)' <=> Levelled(p, level)
    BY <2>1 DEF Levelled
  <2>3. CASE given' = given
    BY <2>1, <2>2, <2>3 DEF LevelSound
  <2>4. CASE \E x \in Successors(graph, v) : given' = [p \in DOMAIN given |-> given[p] \cup Sent(v, x, p)]
    <3>1. PICK x \in Successors(graph, v) : given' = [p \in DOMAIN given |-> given[p] \cup Sent(v, x, p)]
      BY <2>4
    <3>2. ASSUME NEW p \in DOMAIN given, NEW i \in given'[p] PROVE Levelled(p, i.level)
      <4>1. i \in given[p] \/ i \in Sent(v, x, p)
        BY <3>1, <3>2
      <4>2. QED
        BY <2>1, <4>1, SentLevelled DEF LevelSound
    <3>3. DOMAIN given' = DOMAIN given
      BY <3>1
    <3>4. QED
      BY <2>2, <3>2, <3>3
  <2>5. QED
    BY <2>3, <2>4, RunFacts
<1>5. LevelSound /\ UNCHANGED vars => LevelSound'
  BY DEF LevelSound, Levelled, vars, Accepted
<1>6. Judged /\ LevelSound /\ [Next]_vars => LevelSound'
  BY <1>2, <1>3, <1>4, <1>5 DEF Next
<1>7. QED
  BY <1>1, <1>6, SpecJudged, PTL DEF Spec

LEMMA LevelledOnce == Judged /\ LevelSound => OneNesting
<1> SUFFICES ASSUME Judged, LevelSound, Accepted, NEW v \in Of("vertex", graph.node)
             PROVE  /\ \A i, j \in Inputs(v) : i.level = j.level
                    /\ Level(v) <= IF Successors(graph, v) = {} THEN 0 ELSE 1
  BY DEF OneNesting
<1>1. v \in graph.node /\ v[1] = "vertex"
  BY DEF Of
<1>2. Level(v) = 1 => Successors(graph, v) # {}
  <2>1. ASSUME Level(v) = 1 PROVE <<v, "InForEach">> \in Walked(dag, graph)
    <3>1. Inputs(v) # {}
      BY <1>1, <2>1, LevelFacts
    <3>2. Levelled(v, Level(v))
      BY <1>1, <3>1, LevelFacts
    <3>3. Levelled(v, 1)
      BY <2>1, <3>2
    <3>4. QED
      BY <3>3 DEF Levelled
  <2>2. QED
    BY <2>1, AcceptedFacts, PairedFacts
<1>3. QED
  BY <1>1, <1>2, LevelFacts

-----------------------------------------------------------------------------
(* Do-while edges.                                                           *)

(* What one node reaches, which need not be in the graph.                    *)
LEMMA ReachSingle ==
    ASSUME NEW G, FiniteGraph(G), NEW n
    PROVE  /\ n \in Reach(G, {n}) /\ Closed(G, Reach(G, {n})) /\ Reach(G, {n}) \subseteq G.node \cup {n}
           /\ n \notin G.node => Reach(G, {n}) = {n}
<1>1. IsFiniteSet({n})
  BY FS_Singleton
<1>2. n \in Reach(G, {n}) /\ Closed(G, Reach(G, {n})) /\ Reach(G, {n}) \subseteq G.node \cup {n}
  BY <1>1, ReachFacts
<1>3. ASSUME n \notin G.node PROVE Reach(G, {n}) = {n}
  <2>1. Closed(G, {n})
    BY <1>3 DEF Closed, FiniteGraph, IsDirectedGraph
  <2>2. Reach(G, {n}) \subseteq {n}
    BY <1>1, <2>1, ReachFacts
  <2>3. QED
    BY <1>2, <2>2
<1>4. QED
  BY <1>2, <1>3

(* What is between the nodes of S and n goes on until n.                     *)
LEMMA PathFacts ==
    ASSUME NEW G, FiniteGraph(G), NEW S, IsFiniteSet(S), NEW n, NEW k \in OnPaths(G, S, n)
    PROVE  /\ k # n => \E m \in OnPaths(G, S, n) : <<k, m>> \in G.edge
           /\ k \notin S => \E m \in OnPaths(G, S, n) : <<m, k>> \in G.edge
<1> DEFINE T == Transpose(G)
<1>1. /\ FiniteGraph(T) /\ \A i, j : <<i, j>> \in T.edge <=> <<j, i>> \in G.edge
  BY TransposeFacts
<1>2. IsFiniteSet({n})
  BY FS_Singleton
<1>3. Closed(G, Reach(G, S)) /\ Closed(T, Reach(T, {n}))
  BY <1>1, <1>2, ReachFacts
<1>4. k \in Reach(G, S) /\ k \in Reach(T, {n})
  BY DEF OnPaths
<1>5. ASSUME k # n PROVE \E m \in OnPaths(G, S, n) : <<k, m>> \in G.edge
  <2>1. PICK m \in Reach(T, {n}) : <<m, k>> \in T.edge
    BY <1>1, <1>2, <1>4, <1>5, NoRoad
  <2>2. <<k, m>> \in G.edge /\ m \in Reach(G, S)
    BY <1>1, <1>3, <1>4, <2>1 DEF Closed
  <2>3. QED
    BY <2>1, <2>2 DEF OnPaths
<1>6. ASSUME k \notin S PROVE \E m \in OnPaths(G, S, n) : <<m, k>> \in G.edge
  <2>1. PICK m \in Reach(G, S) : <<m, k>> \in G.edge
    BY <1>4, <1>6, NoRoad
  <2>2. <<k, m>> \in T.edge
    BY <1>1, <2>1
  <2>3. m \in Reach(T, {n})
    BY <1>3, <1>4, <2>2 DEF Closed
  <2>4. QED
    BY <2>1, <2>3 DEF OnPaths
<1>7. QED
  BY <1>5, <1>6

(* An inner loop shows on the path of the outer one.                         *)
LEMMA LoopsApart == Judged => LoopsDoNotNest
<1> SUFFICES ASSUME Judged, Accepted,
                    NEW e \in Edges(dag), NEW f \in Edges(dag), e.kind = "DoWhile", f.kind = "DoWhile",
                    e.from.vertex # f.from.vertex, OnlyLoops(e.from.vertex),
                    Vertex(e.from.vertex) \in OnPaths(graph, {Vertex(f.to.vertex)}, OutputPort(f.from))
             PROVE  FALSE
  BY DEF LoopsDoNotNest
<1> DEFINE v == Vertex(e.from.vertex)
           start == Vertex(f.to.vertex)
           out == OutputPort(f.from)
           path == OnPaths(graph, {start}, out)
<1>0. dag \in Dags /\ graph = GraphOf(dag) /\ FiniteGraph(graph) /\ DoWhilesApart(dag, graph)
  BY AcceptedFacts, GraphFacts
<1>1. v \in graph.node
  <2>1. <<v, OutputVariant(e.from.vertex, e.from.variant)>> \in LinksOf(dag)
    BY DEF LinksOf, Links
  <2>2. QED
    BY <1>0, <2>1, GraphFacts DEF FiniteGraph, IsDirectedGraph
<1>2. start \in graph.node
  <2>1. v \in Reach(graph, {start})
    BY DEF OnPaths
  <2> HIDE DEF v, start
  <2>2. start \notin graph.node => Reach(graph, {start}) = {start}
    BY <1>0, ReachSingle
  <2>3. QED
    BY <1>1, <2>1, <2>2
<1>3. \A n \in path \ {out} : Weight(dag, n) \notin {"DoWhile", "Break", "ForEach", "Collect"}
  BY <1>0, <1>2 DEF DoWhilesApart
<1>4. v # out /\ v[1] = "vertex" /\ out[1] = "output"
  BY DEF Vertex, OutputPort
<1>5. IsFiniteSet({start})
  BY FS_Singleton
<1>6. PICK x \in path : <<v, x>> \in graph.edge
  <2> HIDE DEF v, start, out
  <2>1. v \in OnPaths(graph, {start}, out)
    BY DEF v, start, out
  <2>2. QED
    BY <1>0, <1>4, <1>5, <2>1, PathFacts
<1>7. x[1] = "variant" /\ VertexLink(dag, v, x)
  BY <1>0, <1>4, <1>6, LinkKinds
<1>8. PICK y \in path : <<x, y>> \in graph.edge
  <2> HIDE DEF v, start, out
  <2>1. x # out
    BY <1>4, <1>7
  <2>2. QED
    BY <1>0, <1>5, <2>1, PathFacts
<1>9. y[1] = "output" /\ VariantLink(dag, x, y)
  BY <1>0, <1>7, <1>8, LinkKinds
<1>10. PICK k \in Edges(dag) : v = Vertex(k.from.vertex) /\ x = OutputVariant(k.from.vertex, k.from.variant)
  BY <1>7 DEF VertexLink
<1>11. PICK h \in Edges(dag) : x = OutputVariant(h.from.vertex, h.from.variant) /\ y = OutputPort(h.from)
  BY <1>9 DEF VariantLink
<1>12. h.from.vertex = e.from.vertex
  <2>1. k.from.vertex = e.from.vertex
    BY <1>10 DEF Vertex
  <2>2. k.from.vertex = h.from.vertex
    BY <1>10, <1>11 DEF OutputVariant
  <2>3. QED
    BY <2>1, <2>2
<1>13. y # out
  BY <1>11, <1>12 DEF OutputPort
<1>14. Weight(dag, y) \in {"DoWhile", "Break"}
  <2>1. PICK w \in Edges(dag) : /\ w = (CHOOSE u \in Edges(dag) : OutputPort(u.from) = y)
                                  /\ OutputPort(w.from) = y
    BY <1>11, Zenon
  <2>2. w.from.vertex = e.from.vertex
    BY <1>11, <1>12, <2>1 DEF OutputPort
  <2>3. w.kind \in {"DoWhile", "Break"}
    BY <2>2 DEF OnlyLoops
  <2>4. Weight(dag, y) = w.kind
    BY <1>9, <2>1, Zenon DEF Weight
  <2>5. QED
    BY <2>3, <2>4
<1>15. QED
  BY <1>3, <1>8, <1>13, <1>14

(* No execution of an accepted DAG finds a loop inside another, or open on   *)
(* one path only (validate_for_each_pairs and validate_do_while_nesting).    *)
THEOREM LoopsAreSound == Spec => []NestingSound
<1>1. Judged /\ LevelSound => NestingSound
  BY LevelledOnce, LoopsApart DEF NestingSound
<1>2. QED
  BY SpecJudged, SpecLevelSound, <1>1, PTL

-----------------------------------------------------------------------------
(* What get_net_concurrency_in_subgraph counts, where no vertex has a choice.*)

NoChoice(G) == \A v \in Of("vertex", G.node) : OutDegree(G, v) <= 1

\* The output ports of the vertex v among nodes.
Own(G, v, nodes) == {o \in nodes : \E x \in G.node : <<v, x>> \in G.edge /\ <<x, o>> \in G.edge}

(* How many successors a node has.                                           *)
LEMMA DegreeFacts ==
    ASSUME NEW G, FiniteGraph(G), NEW n
    PROVE  /\ IsFiniteSet(Successors(G, n)) /\ OutDegree(G, n) \in Nat
           /\ \A m : m \in Successors(G, n) <=> <<n, m>> \in G.edge
           /\ OutDegree(G, n) > 0 => Successors(G, n) # {}
           /\ OutDegree(G, n) <= 1 => \A x, y \in Successors(G, n) : x = y
<1>1. IsFiniteSet(Successors(G, n)) /\ OutDegree(G, n) = Cardinality(Successors(G, n))
  <2>1. Successors(G, n) \subseteq G.node
    BY DEF Successors
  <2>2. QED
    BY <2>1, FS_Subset DEF FiniteGraph, OutDegree
<1>2. OutDegree(G, n) \in Nat
  BY <1>1, FS_CardinalityType
<1>3. \A m : m \in Successors(G, n) <=> <<n, m>> \in G.edge
  BY DEF Successors, FiniteGraph, IsDirectedGraph
<1>4. OutDegree(G, n) > 0 => Successors(G, n) # {}
  <2>1. Successors(G, n) = {} => OutDegree(G, n) = 0
    BY <1>1, FS_EmptySet, Zenon
  <2>2. QED
    BY <1>2, <2>1
<1>5. OutDegree(G, n) <= 1 => \A x, y \in Successors(G, n) : x = y
  <2>1. OutDegree(G, n) = 0 => Successors(G, n) = {}
    BY <1>1, FS_EmptySet, Zenon
  <2>2. OutDegree(G, n) = 1 => \E x : Successors(G, n) = {x}
    BY <1>1, FS_Singleton, Zenon
  <2>3. OutDegree(G, n) <= 1 => OutDegree(G, n) = 0 \/ OutDegree(G, n) = 1
    BY <1>2
  <2>4. QED
    BY <2>1, <2>2, <2>3
<1>6. QED
  BY <1>1, <1>2, <1>3, <1>4, <1>5

(* A path ends where it started to be looked for.                            *)
LEMMA PathsEnd ==
    ASSUME NEW G, FiniteGraph(G), NEW S, IsFiniteSet(S), NEW p
    PROVE  /\ OnPaths(G, S, p) # {} <=> p \in Reach(G, S)
           /\ p \in Reach(G, S) => p \in OnPaths(G, S, p)
           /\ OnPaths(G, S, p) \subseteq Reach(G, S)
           /\ \A m, n : <<m, n>> \in G.edge /\ n \in OnPaths(G, S, p) /\ m \in Reach(G, S)
                           => m \in OnPaths(G, S, p)
<1> DEFINE T == Transpose(G)
           R == Reach(G, S)
<1>1. FiniteGraph(T) /\ T.node = G.node
  BY TransposeFacts
<1>2. \A C : Closed(T, C) <=> \A m, n : <<m, n>> \in G.edge /\ n \in C => m \in C
  BY TransposeFacts
<1>3. IsFiniteSet({p})
  BY FS_Singleton
<1>4. p \in Reach(T, {p}) /\ Closed(T, Reach(T, {p}))
  BY <1>1, <1>3, ReachFacts
<1>5. \A C : Closed(T, C) /\ p \in C => Reach(T, {p}) \subseteq C
  BY <1>1, <1>3, ReachFacts
<1>6. ASSUME p \notin R PROVE OnPaths(G, S, p) = {}
  <2> DEFINE C == (G.node \cup {p}) \ R
  <2>1. \A m, n : <<m, n>> \in G.edge /\ n \in C => m \in C
    <3>1. Closed(G, R)
      BY ReachFacts
    <3>2. \A m, n : <<m, n>> \in G.edge => m \in G.node
      BY DEF FiniteGraph, IsDirectedGraph
    <3>3. QED
      BY <3>1, <3>2 DEF Closed
  <2>2. Reach(T, {p}) \subseteq C
    <3> HIDE DEF T
    <3>1. p \in C
      BY <1>6
    <3> HIDE DEF C
    <3>2. QED
      BY <1>2, <1>5, <2>1, <3>1
  <2>3. QED
    BY <2>2 DEF OnPaths
<1>7. p \in R => p \in OnPaths(G, S, p)
  BY <1>4 DEF OnPaths
<1>8. \A m, n : <<m, n>> \in G.edge /\ n \in OnPaths(G, S, p) /\ m \in R => m \in OnPaths(G, S, p)
  BY <1>2, <1>4 DEF OnPaths
<1>9. QED
  BY <1>6, <1>7, <1>8 DEF OnPaths

\* The ports on a way from S to p, in a graph without a choice.
Counted(d, G, S, p, nodes) ==
    /\ d \in Dags /\ G = GraphOf(d) /\ FiniteGraph(G) /\ CorrectOrder(G) /\ NoChoice(G)
    /\ S \subseteq G.node /\ IsFiniteSet(S) /\ \A n \in S : n[1] = "vertex"
    /\ p \in G.node /\ p[1] = "input"
    /\ nodes = OnPaths(G, S, p) /\ nodes \subseteq G.node

(* A vertex on the way has a variant on the way, which has a port on it.     *)
LEMMA VertexCount ==
    ASSUME NEW d, NEW G, NEW S, NEW p, NEW nodes, Counted(d, G, S, p, nodes),
           NEW v \in Of("vertex", nodes)
    PROVE  /\ IsFiniteSet(Own(G, v, nodes)) /\ Cardinality(Own(G, v, nodes)) \in Nat
           /\ ExtraTasks(G, v, nodes) = Cardinality(Own(G, v, nodes)) - 1
           /\ ExtraTasks(G, v, nodes) \in Nat
<1>0. d \in Dags /\ G = GraphOf(d) /\ FiniteGraph(G) /\ v \in nodes /\ v[1] = "vertex" /\ v \in G.node
  BY DEF Counted, Of
<1>1. PICK x \in nodes : <<v, x>> \in G.edge
  <2>1. v # p
    BY <1>0 DEF Counted
  <2>2. QED
    BY <1>0, <2>1, PathFacts DEF Counted
<1>2. Successors(G, v) = {x}
  <2>1. OutDegree(G, v) <= 1
    BY <1>0 DEF Counted, NoChoice, Of
  <2>2. x \in Successors(G, v)
    BY <1>0, <1>1, DegreeFacts
  <2>3. QED
    BY <1>0, <2>1, <2>2, DegreeFacts
<1>3. x[1] = "variant"
  BY <1>0, <1>1, LinkKinds
<1>4. PICK o \in nodes : <<x, o>> \in G.edge
  <2>1. x # p
    BY <1>3 DEF Counted
  <2>2. QED
    BY <1>0, <2>1, PathFacts DEF Counted
<1> DEFINE own == Successors(G, x) \cap nodes
<1>5. Own(G, v, nodes) = own
  <2>1. \A y : <<v, y>> \in G.edge <=> y = x
    BY <1>0, <1>2, DegreeFacts
  <2>2. \A y : y \in Successors(G, x) <=> <<x, y>> \in G.edge
    BY <1>0, DegreeFacts
  <2>3. x \in G.node
    BY DEF Counted
  <2>4. QED
    BY <2>1, <2>2, <2>3 DEF Own
<1>6. IsFiniteSet(own) /\ own # {}
  <2>1. o \in own
    BY <1>0, <1>4, DegreeFacts
  <2>2. IsFiniteSet(own)
    BY <1>0, DegreeFacts, FS_Subset
  <2>3. QED
    BY <2>1, <2>2
<1>7. Cardinality(own) \in Nat /\ Cardinality(own) # 0
  <2> HIDE DEF own
  <2>1. QED
    BY <1>6, FS_CardinalityType, FS_EmptySet
<1>8. ExtraTasks(G, v, nodes) = Cardinality(own) - 1
  <2>1. {Cardinality(Successors(G, y) \cap nodes) - 1 : y \in Successors(G, v) \cap nodes}
            = {Cardinality(own) - 1}
    BY <1>2
  <2>2. ExtraTasks(G, v, nodes) = Max({0} \cup {Cardinality(own) - 1})
    BY <2>1 DEF ExtraTasks
  <2> HIDE DEF own
  <2>3. \A c \in Nat : Max({0} \cup {c}) = c
    BY DEF Max
  <2>4. Cardinality(own) - 1 \in Nat
    BY <1>7
  <2>5. QED
    BY <2>2, <2>3, <2>4
<1>9. QED
  <2> HIDE DEF own
  <2>1. QED
    BY <1>5, <1>6, <1>7, <1>8

Pairs(G, nodes) == UNION {{v} \X (0..ExtraTasks(G, v, nodes)) : v \in Of("vertex", nodes)}

(* What a bijection is.                                                      *)
LEMMA OneToOne ==
    ASSUME NEW A, NEW B, NEW f, f \in Bijection(A, B)
    PROVE  /\ \A k \in A : f[k] \in B
           /\ \A k, j \in A : f[k] = f[j] => k = j
           /\ \A o \in B : \E k \in A : f[k] = o
  BY DEF Bijection, Injection, Surjection, IsInjective

(* The tasks that are counted are the output ports on the way.               *)
LEMMA TaskCount ==
    ASSUME NEW d, NEW G, NEW S, NEW p, NEW nodes, Counted(d, G, S, p, nodes)
    PROVE  Cardinality(Pairs(G, nodes)) = Cardinality(Of("output", nodes))
<1> DEFINE V == Of("vertex", nodes)
           Numbers(v) == 0..ExtraTasks(G, v, nodes)
           b == [v \in V |-> CHOOSE f : f \in Bijection(Numbers(v), Own(G, v, nodes))]
           h == [q \in Pairs(G, nodes) |-> b[q[1]][q[2]]]
<1>0. d \in Dags /\ G = GraphOf(d) /\ FiniteGraph(G) /\ nodes \subseteq G.node
  BY DEF Counted
<1>1. ASSUME NEW v \in V PROVE b[v] \in Bijection(Numbers(v), Own(G, v, nodes))
  <2> DEFINE own == Own(G, v, nodes)
             last == ExtraTasks(G, v, nodes)
  <2>1. IsFiniteSet(own) /\ Cardinality(own) \in Nat /\ last = Cardinality(own) - 1 /\ last \in Nat
    BY VertexCount
  <2> HIDE DEF own, last
  <2>2. IsFiniteSet(0..last) /\ Cardinality(0..last) = Cardinality(own)
    <3>1. 0 \in Int /\ last \in Int /\ ~(0 > last)
      BY <2>1
    <3>2. IsFiniteSet(0..last) /\ Cardinality(0..last) = last - 0 + 1
      BY <3>1, FS_Interval
    <3>3. QED
      BY <2>1, <3>2
  <2>3. ExistsBijection(0..last, own)
    BY <2>1, <2>2, FS_SameCardinalityBij
  <2>4. \E f : f \in Bijection(0..last, own)
    BY <2>3, Zenon DEF ExistsBijection
  <2>5. QED
    BY <2>4, Zenon DEF own, last
<1>2. \A q : q \in Pairs(G, nodes) <=> \E v \in V : \E k \in Numbers(v) : q = <<v, k>>
  BY DEF Pairs
<1>3. ASSUME NEW v \in V
      PROVE  /\ \A k \in Numbers(v) : b[v][k] \in Own(G, v, nodes)
             /\ \A k, j \in Numbers(v) : b[v][k] = b[v][j] => k = j
             /\ \A o \in Own(G, v, nodes) : \E k \in Numbers(v) : b[v][k] = o
  <2> HIDE DEF b, Numbers
  <2>1. b[v] \in Bijection(Numbers(v), Own(G, v, nodes))
    BY <1>1
  <2>2. QED
    BY <2>1, OneToOne
<1>4. ASSUME NEW v \in V, NEW o \in Own(G, v, nodes) PROVE o \in Of("output", nodes)
  <2>1. PICK x \in G.node : <<v, x>> \in G.edge /\ <<x, o>> \in G.edge
    BY DEF Own
  <2>2. v[1] = "vertex" /\ x[1] = "variant" /\ o[1] = "output"
    BY <1>0, <2>1, LinkKinds DEF Of
  <2>3. QED
    BY <2>2 DEF Own, Of
<1>5. ASSUME NEW v \in V, NEW w \in V, NEW o \in Own(G, v, nodes), o \in Own(G, w, nodes) PROVE v = w
  <2>1. PICK x \in G.node : <<v, x>> \in G.edge /\ <<x, o>> \in G.edge
    BY DEF Own
  <2>2. PICK y \in G.node : <<w, y>> \in G.edge /\ <<y, o>> \in G.edge
    BY <1>5 DEF Own
  <2>3. x[1] = "variant" /\ o[1] = "output"
    BY <1>0, <2>1, LinkKinds DEF Of
  <2>4. x = y
    BY <1>0, <2>1, <2>2, <2>3, OneOwner
  <2>5. QED
    BY <1>0, <2>1, <2>2, <2>3, <2>4, OneOwner
<1>6. ASSUME NEW o \in Of("output", nodes) PROVE \E v \in V : o \in Own(G, v, nodes)
  <2>0. /\ IsFiniteSet(S) /\ nodes = OnPaths(G, S, p) /\ o \in nodes /\ o[1] = "output"
        /\ \A n \in S : n[1] = "vertex"
    BY DEF Counted, Of
  <2>1. o \notin S
    BY <2>0
  <2>2. PICK x \in nodes : <<x, o>> \in G.edge
    BY <1>0, <2>0, <2>1, PathFacts
  <2>3. x[1] = "variant"
    BY <1>0, <2>0, <2>2, LinkKinds
  <2>4. x \notin S
    BY <2>0, <2>3
  <2>5. PICK v \in nodes : <<v, x>> \in G.edge
    BY <1>0, <2>0, <2>4, PathFacts
  <2>6. v[1] = "vertex"
    BY <1>0, <2>3, <2>5, LinkKinds
  <2>7. QED
    BY <1>0, <2>0, <2>2, <2>5, <2>6 DEF Of, Own
<1>7. h \in Bijection(Pairs(G, nodes), Of("output", nodes))
  <2>1. ASSUME NEW v \in V, NEW k \in Numbers(v) PROVE <<v, k>> \in Pairs(G, nodes) /\ h[<<v, k>>] = b[v][k]
    <3> HIDE DEF b
    <3>1. QED
      BY <1>2
  <2> HIDE DEF b, V, Numbers
  <2>2. \A q \in Pairs(G, nodes) : h[q] \in Of("output", nodes)
    BY <1>2, <1>3, <1>4, <2>1
  <2>3. \A q, r \in Pairs(G, nodes) : h[q] = h[r] => q = r
    <3> SUFFICES ASSUME NEW q \in Pairs(G, nodes), NEW r \in Pairs(G, nodes), h[q] = h[r] PROVE q = r
      OBVIOUS
    <3>1. PICK v \in V : \E k \in Numbers(v) : q = <<v, k>>
      BY <1>2
    <3>2. PICK w \in V : \E j \in Numbers(w) : r = <<w, j>>
      BY <1>2
    <3>k. PICK k \in Numbers(v) : q = <<v, k>>
      BY <3>1
    <3>j. PICK j \in Numbers(w) : r = <<w, j>>
      BY <3>2
    <3>3. b[v][k] = b[w][j]
      BY <2>1, <3>k, <3>j
    <3>4. v = w
      BY <1>3, <1>5, <3>3
    <3>5. k = j
      BY <1>3, <3>3, <3>4
    <3>6. QED
      BY <3>k, <3>j, <3>4, <3>5
  <2>4. \A o \in Of("output", nodes) : \E q \in Pairs(G, nodes) : h[q] = o
    <3> SUFFICES ASSUME NEW o \in Of("output", nodes) PROVE \E q \in Pairs(G, nodes) : h[q] = o
      OBVIOUS
    <3>1. PICK v \in V : o \in Own(G, v, nodes)
      BY <1>6
    <3>2. PICK k \in Numbers(v) : b[v][k] = o
      BY <1>3, <3>1
    <3>3. QED
      BY <2>1, <3>2
  <2>5. h = [q \in Pairs(G, nodes) |-> h[q]]
    OBVIOUS
  <2> HIDE DEF h
  <2>6. h \in [Pairs(G, nodes) -> Of("output", nodes)]
    BY <2>2, <2>5
  <2>7. QED
    BY <2>3, <2>4, <2>6 DEF Bijection, Injection, Surjection, IsInjective
<1>8. IsFiniteSet(Of("output", nodes))
  BY <1>0, FS_Subset DEF FiniteGraph, Of
<1>9. QED
  <2> HIDE DEF h
  <2>1. ExistsBijection(Of("output", nodes), Pairs(G, nodes))
    BY <1>7, Fun_ExistsBijSymmetric DEF ExistsBijection
  <2>2. QED
    BY <1>8, <2>1, FS_Bijection

(* A port takes a value from two of the ports that are reached.              *)
Doubled(G, R, q) == \E n, m \in R : n # m /\ <<n, q>> \in G.edge /\ <<m, q>> \in G.edge

(* The difference is zero if no input port on the way has two of them.       *)
LEMMA NetCount ==
    ASSUME NEW d, NEW G, NEW S, NEW p, NEW nodes, Counted(d, G, S, p, nodes)
    PROVE  NetConcurrency(G, nodes) = 0 <=> \A q \in Of("input", nodes) : ~Doubled(G, Reach(G, S), q)
<1> DEFINE out == Of("output", nodes)
           in == Of("input", nodes)
           next == [o \in out |-> CHOOSE q : q \in Successors(G, o)]
<1>0. /\ d \in Dags /\ G = GraphOf(d) /\ FiniteGraph(G) /\ nodes \subseteq G.node
      /\ IsFiniteSet(S) /\ nodes = OnPaths(G, S, p) /\ p[1] = "input"
      /\ \A n \in S : n[1] = "vertex"
  BY DEF Counted
<1>1. ASSUME NEW o \in out PROVE next[o] \in in /\ \A q : <<o, q>> \in G.edge <=> q = next[o]
  <2>0. o \in nodes /\ o[1] = "output" /\ o \in G.node
    BY <1>0 DEF Of
  <2>1. PICK q \in nodes : <<o, q>> \in G.edge
    <3>1. o # p
      BY <1>0, <2>0
    <3>2. QED
      BY <1>0, <2>0, <3>1, PathFacts
  <2>2. q[1] = "input"
    BY <1>0, <2>0, <2>1, LinkKinds
  <2>3. OutDegree(G, o) <= 1
    BY <2>0 DEF Counted, CorrectOrder
  <2>4. Successors(G, o) = {q}
    BY <1>0, <2>1, <2>3, DegreeFacts
  <2>5. next[o] = q
    BY <2>4
  <2>6. \A r : <<o, r>> \in G.edge <=> r = q
    BY <1>0, <2>4, DegreeFacts
  <2>7. QED
    BY <2>1, <2>2, <2>5, <2>6 DEF Of
<1>2. ASSUME NEW q \in in, NEW n \in Reach(G, S), <<n, q>> \in G.edge PROVE n \in out /\ next[n] = q
  <2>1. q \in nodes /\ q[1] = "input"
    BY DEF Of
  <2>2. n \in nodes
    BY <1>0, <1>2, <2>1, PathsEnd
  <2>3. n[1] = "output"
    BY <1>0, <1>2, <2>1, LinkKinds
  <2>4. QED
    BY <1>1, <1>2, <2>2, <2>3 DEF Of
<1>3. ASSUME NEW q \in in PROVE \E o \in out : next[o] = q
  <2>1. q \in nodes /\ q[1] = "input"
    BY DEF Of
  <2>2. q \notin S
    BY <1>0, <2>1
  <2>3. PICK n \in nodes : <<n, q>> \in G.edge
    BY <1>0, <2>1, <2>2, PathFacts
  <2>4. n \in Reach(G, S)
    BY <1>0, PathsEnd
  <2>5. QED
    BY <1>2, <2>3, <2>4
<1>4. next = [o \in out |-> next[o]]
  OBVIOUS
<1>5. IsFiniteSet(out) /\ IsFiniteSet(in) /\ out \subseteq Reach(G, S)
  BY <1>0, FS_Subset, PathsEnd DEF FiniteGraph, Of
<1> HIDE DEF next, out, in
<1>6. next \in Surjection(out, in)
  BY <1>1, <1>3, <1>4 DEF Surjection
<1>7. Cardinality(out) = Cardinality(in) <=> next \in Injection(out, in)
  BY <1>5, <1>6, FS_Surjection
<1>8. next \in Injection(out, in) <=> \A n, m \in out : next[n] = next[m] => n = m
  BY <1>1, <1>4 DEF Injection, IsInjective
<1>9. (\A n, m \in out : next[n] = next[m] => n = m) <=> \A q \in in : ~Doubled(G, Reach(G, S), q)
  <2>1. ASSUME \A n, m \in out : next[n] = next[m] => n = m, NEW q \in in PROVE ~Doubled(G, Reach(G, S), q)
    BY <1>2, <2>1 DEF Doubled
  <2>2. ASSUME \A q \in in : ~Doubled(G, Reach(G, S), q), NEW n \in out, NEW m \in out,
               next[n] = next[m]
        PROVE  n = m
    BY <1>1, <1>5, <2>2 DEF Doubled
  <2>3. QED
    BY <2>1, <2>2
<1>10. NetConcurrency(G, nodes) = Cardinality(out) - Cardinality(in)
  BY TaskCount DEF NetConcurrency, Pairs, out, in
<1>11. Cardinality(out) \in Nat /\ Cardinality(in) \in Nat
  BY <1>5, FS_CardinalityType
<1>12. NetConcurrency(G, nodes) = 0 <=> Cardinality(out) = Cardinality(in)
  BY <1>10, <1>11
<1>13. QED
  BY <1>7, <1>8, <1>9, <1>12 DEF in

(* The concurrency rules: every input port is reached, from one output port. *)
LEMMA RulesFacts ==
    ASSUME NEW d \in Dags, NEW G, Sound(d, G), NoChoice(G), NEW g,
           NEW R, R = Reach(G, EntryNodes(d, g))
    PROVE  FollowsConcurrencyRules(d, G, g) <=>
              \A p \in Of("input", G.node) : p \in R /\ ~Doubled(G, R, p)
<1> DEFINE S == EntryNodes(d, g)
<1>0. WellFormed(d) /\ G = GraphOf(d) /\ FiniteGraph(G) /\ CorrectOrder(G)
  BY GraphFacts DEF Sound
<1>1. S \subseteq G.node /\ IsFiniteSet(S) /\ \A n \in S : n[1] = "vertex"
  BY <1>0, EntryFacts
<1>2. FollowsConcurrencyRules(d, G, g) <=>
        \A p \in Of("input", G.node) : OnPaths(G, S, p) # {} /\ NetConcurrency(G, OnPaths(G, S, p)) = 0
  BY Zenon DEF FollowsConcurrencyRules, EntryNodes
<1>3. R \subseteq G.node
  BY <1>0, <1>1, ReachFacts
<1> HIDE DEF S
<1>4. ASSUME NEW p \in Of("input", G.node)
      PROVE  /\ OnPaths(G, S, p) # {} <=> p \in R
             /\ OnPaths(G, S, p) \subseteq R
             /\ p \in R => p \in Of("input", OnPaths(G, S, p))
             /\ NetConcurrency(G, OnPaths(G, S, p)) = 0 <=>
                    \A q \in Of("input", OnPaths(G, S, p)) : ~Doubled(G, R, q)
  <2>1. p \in G.node /\ p[1] = "input" /\ R = Reach(G, S)
    BY DEF Of, S
  <2>2. /\ OnPaths(G, S, p) # {} <=> p \in R
        /\ OnPaths(G, S, p) \subseteq R
        /\ p \in R => p \in OnPaths(G, S, p)
    BY <1>0, <1>1, <2>1, PathsEnd
  <2>3. Counted(d, G, S, p, OnPaths(G, S, p))
    BY <1>0, <1>1, <1>3, <2>1, <2>2 DEF Counted
  <2>4. QED
    BY <2>1, <2>2, <2>3, NetCount DEF Of
<1>5. ASSUME FollowsConcurrencyRules(d, G, g), NEW p \in Of("input", G.node)
      PROVE  p \in R /\ ~Doubled(G, R, p)
  BY <1>2, <1>4, <1>5
<1>6. ASSUME \A p \in Of("input", G.node) : p \in R /\ ~Doubled(G, R, p)
      PROVE  FollowsConcurrencyRules(d, G, g)
  <2>1. \A p : Of("input", OnPaths(G, S, p)) \subseteq OnPaths(G, S, p)
    BY DEF Of
  <2>2. ASSUME NEW p \in Of("input", G.node), NEW q \in Of("input", OnPaths(G, S, p)) PROVE ~Doubled(G, R, q)
    <3>1. q \in Of("input", G.node)
      BY <1>3, <1>4 DEF Of
    <3>2. QED
      BY <1>6, <3>1
  <2>3. QED
    BY <1>2, <1>4, <1>6, <2>2
<1>7. QED
  BY <1>5, <1>6

-----------------------------------------------------------------------------
(* How far an execution has come.                                            *)

Reached == Reach(graph, EntryNodes(dag, group))

\* o is an output port of the vertex v.
OutputOf(v, o) == \E x : <<v, x>> \in graph.edge /\ <<x, o>> \in graph.edge

Progress ==
    Executed /\ group # None =>
        /\ ran \subseteq Reached
        /\ \A p \in DOMAIN given : \A i \in given[p] :
              <<i.from, p>> \in graph.edge /\ \E v \in ran : OutputOf(v, i.from)
        /\ \A p \in DOMAIN given : \A i, j \in given[p] : i.from = j.from => i = j
        /\ Unbranched =>
              \A v \in ran : \A o, p : OutputOf(v, o) /\ <<o, p>> \in graph.edge =>
                  \E i \in given[p] : i.from = o

(* What a DAG has passed that is executed.                                   *)
LEMMA ExecutedFacts ==
    Judged /\ Executed =>
        /\ dag \in Dags /\ Sound(dag, graph) /\ WellFormed(dag) /\ graph = GraphOf(dag)
        /\ FiniteGraph(graph) /\ ~Cyclic(graph)
        /\ DOMAIN given = Of("input", graph.node)
        /\ \A m, n : <<m, n>> \in graph.edge => m \in graph.node /\ n \in graph.node
<1> SUFFICES ASSUME Judged, Executed
             PROVE  /\ dag \in Dags /\ Sound(dag, graph) /\ WellFormed(dag) /\ graph = GraphOf(dag)
                    /\ FiniteGraph(graph) /\ ~Cyclic(graph)
                    /\ DOMAIN given = Of("input", graph.node)
                    /\ \A m, n : <<m, n>> \in graph.edge => m \in graph.node /\ n \in graph.node
  OBVIOUS
<1>1. dag \in Dags /\ Sound(dag, graph) /\ DOMAIN given = Of("input", graph.node)
  BY DEF Judged, Executed
<1>2. WellFormed(dag) /\ graph = GraphOf(dag) /\ ~Cyclic(graph) /\ FiniteGraph(graph)
  BY <1>1, GraphFacts DEF Sound
<1>3. \A m, n : <<m, n>> \in graph.edge => m \in graph.node /\ n \in graph.node
  BY <1>2 DEF FiniteGraph, IsDirectedGraph
<1>4. QED
  BY <1>1, <1>2, <1>3

(* The nodes that the invoked group reaches.                                 *)
LEMMA ReachedFacts ==
    ASSUME Judged, Executed
    PROVE  /\ EntryNodes(dag, group) \subseteq Reached /\ Reached \subseteq graph.node
           /\ \A m, n : <<m, n>> \in graph.edge /\ m \in Reached => n \in Reached
           /\ \A n \in Reached : n \notin EntryNodes(dag, group) =>
                 \E m \in Reached : <<m, n>> \in graph.edge
           /\ \A n \in EntryNodes(dag, group) : n[1] = "vertex"
<1>1. /\ IsFiniteSet(EntryNodes(dag, group)) /\ EntryNodes(dag, group) \subseteq graph.node
      /\ \A n \in EntryNodes(dag, group) : n[1] = "vertex"
  BY ExecutedFacts, EntryFacts
<1>2. /\ EntryNodes(dag, group) \subseteq Reached /\ Reached \subseteq graph.node
      /\ Closed(graph, Reached)
  BY <1>1, ExecutedFacts, ReachFacts DEF Reached
<1>3. \A n \in Reached : n \notin EntryNodes(dag, group) => \E m \in Reached : <<m, n>> \in graph.edge
  BY <1>1, ExecutedFacts, NoRoad DEF Reached
<1>4. \A m, n : <<m, n>> \in graph.edge /\ m \in Reached => n \in Reached
  BY <1>2 DEF Closed
<1>5. QED
  BY <1>1, <1>2, <1>3, <1>4

(* An output port has one vertex.                                            *)
LEMMA OneVertex ==
    ASSUME Judged, Executed, NEW v, NEW w, NEW o, v[1] = "vertex", OutputOf(v, o), OutputOf(w, o)
    PROVE  v = w
<1>1. PICK x : <<v, x>> \in graph.edge /\ <<x, o>> \in graph.edge
  BY DEF OutputOf
<1>2. PICK y : <<w, y>> \in graph.edge /\ <<y, o>> \in graph.edge
  BY DEF OutputOf
<1>3. x[1] = "variant" /\ o[1] = "output"
  BY <1>1, ExecutedFacts, LinkKinds
<1>4. x = y
  BY <1>1, <1>2, <1>3, ExecutedFacts, OneOwner
<1>5. QED
  BY <1>1, <1>2, <1>3, <1>4, ExecutedFacts, OneOwner

(* Only what is reached runs.                                                *)
LEMMA RunReached ==
    ASSUME Judged, Progress, Executed, group # None, NEW v \in Of("vertex", graph.node), Run(v)
    PROVE  v \in Reached
<1>0. v \in graph.node /\ v[1] = "vertex"
  BY DEF Of
<1>1. CASE v \in EntryNodes(dag, group)
  BY <1>1, ReachedFacts
<1>2. CASE Predecessors(graph, v) # {}
  <2>1. PICK p \in Predecessors(graph, v) : given[p] # {}
    BY <1>2, RunFacts
  <2>2. p \in DOMAIN given /\ <<p, v>> \in graph.edge
    BY <1>0, InputFacts
  <2>3. PICK i \in given[p] : TRUE
    BY <2>1
  <2>4. <<i.from, p>> \in graph.edge /\ \E w \in ran : OutputOf(w, i.from)
    BY <2>2 DEF Progress
  <2>5. PICK w \in Reached, x \in graph.node : <<w, x>> \in graph.edge /\ <<x, i.from>> \in graph.edge
    BY <2>4, ExecutedFacts DEF Progress, OutputOf
  <2>6. QED
    BY <2>2, <2>4, <2>5, ReachedFacts
<1>3. QED
  BY <1>1, <1>2, RunFacts

(* What a vertex sends comes from its output ports.                          *)
LEMMA SentFacts ==
    ASSUME NEW v, NEW x \in Successors(graph, v), NEW p, NEW i \in Sent(v, x, p)
    PROVE  /\ OutputOf(v, i.from) /\ <<i.from, p>> \in graph.edge
           /\ i = [from |-> i.from, level |-> Nested(v, i.from)]
<1>1. PICK o \in Successors(graph, x) : <<o, p>> \in graph.edge /\ i = [from |-> o, level |-> Nested(v, o)]
  BY DEF Sent
<1>2. i.from = o
  BY <1>1
<1>3. QED
  BY <1>1, <1>2 DEF OutputOf, Successors

(* Progress holds after the step of a vertex.                                *)
LEMMA RunProgress ==
    ASSUME Judged, Progress, NEW v \in Of("vertex", graph.node), Run(v)
    PROVE  Progress'
<1> SUFFICES ASSUME Executed', group' # None
             PROVE  /\ ran' \subseteq Reached'
                    /\ \A p \in DOMAIN given' : \A i \in given'[p] :
                          <<i.from, p>> \in graph'.edge /\ \E w \in ran' : OutputOf(w, i.from)'
                    /\ \A p \in DOMAIN given' : \A i, j \in given'[p] : i.from = j.from => i = j
                    /\ Unbranched' =>
                          \A w \in ran' : \A o, p : OutputOf(w, o)' /\ <<o, p>> \in graph'.edge =>
                              \E i \in given'[p] : i.from = o
  BY DEF Progress
<1>0. /\ dag' = dag /\ graph' = graph /\ group' = group /\ Executed /\ group # None
      /\ ran' = ran \cup {v} /\ v \notin ran
  BY RunFacts DEF Executed
<1>a. Reached' = Reached /\ (Unbranched' <=> Unbranched) /\ \A w, o : OutputOf(w, o)' <=> OutputOf(w, o)
  BY <1>0 DEF Reached, Unbranched, OutputOf
<1>b. v[1] = "vertex" /\ v \in graph.node
  BY DEF Of
<1>1. ran' \subseteq Reached
  BY <1>0, RunReached DEF Progress
<1>2. CASE Successors(graph, v) = {} /\ given' = given
  <2>1. \A o : ~OutputOf(v, o)
    BY <1>2, ExecutedFacts, <1>0 DEF OutputOf, Successors
  <2>2. QED
    BY <1>0, <1>a, <1>1, <1>2, <2>1 DEF Progress
<1>3. CASE \E x \in Successors(graph, v) : given' = [p \in DOMAIN given |-> given[p] \cup Sent(v, x, p)]
  <2>1. PICK x \in Successors(graph, v) : given' = [p \in DOMAIN given |-> given[p] \cup Sent(v, x, p)]
    BY <1>3
  <2>2. DOMAIN given' = DOMAIN given /\ \A p \in DOMAIN given : given'[p] = given[p] \cup Sent(v, x, p)
    BY <2>1
  <2>3. ASSUME NEW p \in DOMAIN given, NEW i \in given'[p]
        PROVE  <<i.from, p>> \in graph.edge /\ \E w \in ran' : OutputOf(w, i.from)
    <3>1. CASE i \in given[p]
      BY <1>0, <3>1 DEF Progress
    <3>2. CASE i \in Sent(v, x, p)
      BY <1>0, <3>2, SentFacts
    <3>3. QED
      BY <2>2, <3>1, <3>2
  <2>4. ASSUME NEW p \in DOMAIN given, NEW i \in given[p], NEW j \in Sent(v, x, p) PROVE i.from # j.from
    <3>1. PICK w \in ran : OutputOf(w, i.from)
      BY <1>0 DEF Progress
    <3>2. OutputOf(v, j.from)
      BY SentFacts
    <3>3. QED
      BY <1>0, <1>b, <3>1, <3>2, OneVertex
  <2>5. ASSUME NEW p \in DOMAIN given, NEW i \in given'[p], NEW j \in given'[p], i.from = j.from PROVE i = j
    <3>1. CASE i \in given[p] /\ j \in given[p]
      BY <1>0, <2>5, <3>1 DEF Progress
    <3>2. CASE i \in Sent(v, x, p) /\ j \in Sent(v, x, p)
      <4>1. /\ i = [from |-> i.from, level |-> Nested(v, i.from)]
            /\ j = [from |-> j.from, level |-> Nested(v, j.from)]
        BY <3>2, SentFacts
      <4>2. [from |-> i.from, level |-> Nested(v, i.from)] = [from |-> j.from, level |-> Nested(v, j.from)]
        BY <2>5
      <4>3. QED
        BY <4>1, <4>2, Zenon
    <3>3. QED
      BY <2>2, <2>4, <2>5, <3>1, <3>2
  <2>6. ASSUME Unbranched, NEW w \in ran', NEW o, NEW p, OutputOf(w, o), <<o, p>> \in graph.edge
        PROVE  \E i \in given'[p] : i.from = o
    <3>0. p \in DOMAIN given
      <4>1. PICK y : <<w, y>> \in graph.edge /\ <<y, o>> \in graph.edge
        BY <2>6 DEF OutputOf
      <4>2. w \in graph.node /\ w[1] = "vertex"
        BY <1>0, <1>b DEF Judged, Of
      <4>3. o[1] = "output"
        BY <1>0, <4>1, <4>2, ExecutedFacts, LinkKinds
      <4>4. p[1] = "input"
        BY <1>0, <2>6, <4>3, ExecutedFacts, LinkKinds
      <4>5. QED
        BY <1>0, <2>6, <4>4, ExecutedFacts DEF Of
    <3>1. CASE w \in ran
      BY <1>0, <2>2, <2>6, <3>0, <3>1 DEF Progress
    <3>2. CASE w = v
      <4>1. PICK y : <<v, y>> \in graph.edge /\ <<y, o>> \in graph.edge
        BY <2>6, <3>2 DEF OutputOf
      <4>2. y = x
        <5>1. OutDegree(graph, v) <= 1
          BY <2>6 DEF Unbranched
        <5>2. y \in Successors(graph, v)
          BY <1>0, <4>1, ExecutedFacts, DegreeFacts
        <5>3. QED
          BY <1>0, <5>1, <5>2, ExecutedFacts, DegreeFacts
      <4>3. o \in Successors(graph, x)
        BY <1>0, <4>1, <4>2, ExecutedFacts, DegreeFacts
      <4>4. [from |-> o, level |-> Nested(v, o)] \in Sent(v, x, p)
        BY <2>6, <4>3 DEF Sent
      <4>5. QED
        BY <2>2, <3>0, <4>4
    <3>3. QED
      BY <1>0, <3>1, <3>2
  <2>7. QED
    BY <1>0, <1>a, <1>1, <2>2, <2>3, <2>5, <2>6
<1>4. QED
  BY <1>2, <1>3, RunFacts

(* Progress holds throughout.                                                *)
LEMMA SpecProgress == Spec => []Progress
<1>1. Init => Progress
  BY DEF Init, Progress
<1>2. Judged /\ Progress /\ Validate => Progress'
  BY DEF Progress, Validate, Judged, Executed
<1>3. Judged /\ Progress /\ (\E g \in Groups(dag) : Invoke(g)) => Progress'
  <2> SUFFICES ASSUME Judged, NEW g \in Groups(dag), Invoke(g) PROVE Progress'
    OBVIOUS
  <2>1. ran' = {} /\ \A p \in DOMAIN given' : given'[p] = {}
    BY DEF Judged, Invoke
  <2>2. QED
    BY <2>1 DEF Progress
<1>4. Judged /\ Progress /\ (\E v \in Of("vertex", graph.node) : Run(v)) => Progress'
  BY RunProgress
<1>5. Progress /\ UNCHANGED vars => Progress'
  <2> SUFFICES ASSUME Progress, UNCHANGED vars PROVE Progress'
    OBVIOUS
  <2>1. /\ (Executed' <=> Executed) /\ group' = group /\ Reached' = Reached /\ (Unbranched' <=> Unbranched)
        /\ (\A v, o : OutputOf(v, o)' <=> OutputOf(v, o)) /\ ran' = ran /\ given' = given /\ graph' = graph
    BY DEF vars, Executed, Reached, OutputOf, Unbranched
  <2>2. QED
    BY <2>1 DEF Progress
<1>6. Judged /\ Progress /\ [Next]_vars => Progress'
  BY <1>2, <1>3, <1>4, <1>5 DEF Next
<1>7. QED
  BY <1>1, <1>6, SpecJudged, PTL DEF Spec

(* At the end, with one value at every port, all that is reached has run.    *)
LEMMA AllRun ==
    ASSUME Judged, Progress, Quiet, Executed, Unbranched,
           \/ \A p \in DOMAIN given : given[p] # {}
           \/ \A p \in DOMAIN given : \E o \in Reached : <<o, p>> \in graph.edge
    PROVE  \A v \in Reached : v[1] = "vertex" => v \in ran
<1> DEFINE B == {v \in Reached : v[1] = "vertex" /\ v \notin ran}
<1>0. group # None
  BY DEF Quiet
<1>1. ASSUME NEW v \in B
      PROVE  \E p \in Predecessors(graph, v) : p \in DOMAIN given /\ given[p] = {}
  <2>1. v \in Of("vertex", graph.node) /\ v \in graph.node /\ v[1] = "vertex" /\ v \in Reached
    BY ReachedFacts DEF Of
  <2>2. ~Ready(v)
    BY <2>1 DEF Quiet
  <2>3. v \in EntryNodes(dag, group) \/ Predecessors(graph, v) # {}
    BY <2>1, ReachedFacts, ExecutedFacts DEF Predecessors
  <2>4. \E p \in Predecessors(graph, v) : given[p] = {}
    BY <1>0, <2>2, <2>3, Zenon DEF Ready, EntryNodes
  <2>5. QED
    BY <2>1, <2>4, InputFacts
<1>2. CASE \A p \in DOMAIN given : given[p] # {}
  BY <1>1, <1>2
<1>3. CASE \A p \in DOMAIN given : \E o \in Reached : <<o, p>> \in graph.edge
  <2>1. ASSUME NEW v \in B PROVE \E w \in B : v \in Beyond(graph, w)
    <3>1. PICK p \in Predecessors(graph, v) : p \in DOMAIN given /\ given[p] = {}
      BY <1>1
    <3>2. p[1] = "input" /\ <<p, v>> \in graph.edge
      BY <3>1, InputFacts, ReachedFacts
    <3>3. PICK o \in Reached : <<o, p>> \in graph.edge
      BY <1>3, <3>1
    <3>4. o[1] = "output"
      BY <3>2, <3>3, ExecutedFacts, LinkKinds
    <3>5. PICK x \in Reached : <<x, o>> \in graph.edge
      BY <3>4, ReachedFacts
    <3>6. x[1] = "variant"
      BY <3>4, <3>5, ExecutedFacts, LinkKinds
    <3>7. PICK w \in Reached : <<w, x>> \in graph.edge
      BY <3>6, ReachedFacts
    <3>8. w[1] = "vertex"
      BY <3>6, <3>7, ExecutedFacts, LinkKinds
    <3>9. w \notin ran
      BY <1>0, <3>1, <3>3, <3>5, <3>7 DEF Progress, OutputOf
    <3>10. v \in Beyond(graph, w)
      BY <3>2, <3>3, <3>5, <3>7, ExecutedFacts, BeyondFacts DEF Closed
    <3>11. QED
      BY <3>8, <3>9, <3>10
  <2>2. B \subseteq graph.node
    BY ReachedFacts
  <2>3. B = {}
    <3> HIDE DEF B
    <3>1. QED
      BY <2>1, <2>2, ExecutedFacts, NoEndlessWayBack
  <2>4. QED
    BY <2>3
<1>4. QED
  BY <1>2, <1>3

(* What is reached has an output port's vertex...                            *)
LEMMA ReachedOutput ==
    ASSUME Judged, Executed, NEW p \in DOMAIN given, NEW o \in Reached, <<o, p>> \in graph.edge
    PROVE  \E w \in Reached : w[1] = "vertex" /\ OutputOf(w, o)
<1>1. p[1] = "input"
  BY ExecutedFacts DEF Of
<1>2. o[1] = "output"
  BY <1>1, ExecutedFacts, LinkKinds
<1>3. PICK x \in Reached : <<x, o>> \in graph.edge
  BY <1>2, ReachedFacts
<1>4. x[1] = "variant"
  BY <1>2, <1>3, ExecutedFacts, LinkKinds
<1>5. PICK w \in Reached : <<w, x>> \in graph.edge
  BY <1>4, ReachedFacts
<1>6. w[1] = "vertex"
  BY <1>4, <1>5, ExecutedFacts, LinkKinds
<1>7. QED
  BY <1>3, <1>5, <1>6 DEF OutputOf

(* ... and, if that has run, a value of it is at the port.                   *)
LEMMA GivenFacts ==
    ASSUME Judged, Progress, Quiet, Executed, Unbranched,
           \A v \in Reached : v[1] = "vertex" => v \in ran,
           NEW p \in DOMAIN given
    PROVE  /\ \A o \in Reached : <<o, p>> \in graph.edge => \E i \in given[p] : i.from = o
           /\ \A i \in given[p] : i.from \in Reached /\ <<i.from, p>> \in graph.edge
           /\ \A i, j \in given[p] : i.from = j.from => i = j
<1>0. group # None
  BY DEF Quiet
<1>1. ASSUME NEW o \in Reached, <<o, p>> \in graph.edge PROVE \E i \in given[p] : i.from = o
  <2>1. PICK w \in Reached : w[1] = "vertex" /\ OutputOf(w, o)
    BY <1>1, ReachedOutput
  <2>2. QED
    BY <1>0, <1>1, <2>1 DEF Progress
<1>2. ASSUME NEW i \in given[p] PROVE i.from \in Reached /\ <<i.from, p>> \in graph.edge
  <2>1. <<i.from, p>> \in graph.edge /\ \E v \in ran : OutputOf(v, i.from)
    BY <1>0 DEF Progress
  <2>2. QED
    BY <1>0, <2>1, ReachedFacts DEF Progress, OutputOf
<1>3. QED
  BY <1>0, <1>1, <1>2 DEF Progress

(* A port has finitely many values.                                          *)
LEMMA GivenFinite ==
    ASSUME Judged, Progress, Quiet, Executed, Unbranched,
           \A v \in Reached : v[1] = "vertex" => v \in ran,
           NEW p \in DOMAIN given
    PROVE  IsFiniteSet(given[p])
<1> DEFINE f == [i \in given[p] |-> i.from]
<1>1. /\ \A i \in given[p] : i.from \in graph.node
      /\ \A i, j \in given[p] : i.from = j.from => i = j
  BY GivenFacts, ReachedFacts
<1>2. f \in Injection(given[p], graph.node)
  BY <1>1 DEF Injection, IsInjective
<1>3. QED
  BY <1>2, ExecutedFacts, FS_Injection DEF FiniteGraph

(* The count is right at the end of an execution.                            *)
LEMMA ProgressExact == Judged /\ Progress => VerdictExact
<1> SUFFICES ASSUME Judged, Progress, Unbranched, Quiet
             PROVE  /\ Accepted => AllGivenOnce
                    /\ (verdict.stage = "concurrency" /\ verdict.group = group) => ~AllGivenOnce
  BY DEF VerdictExact
<1>0. group # None /\ Executed /\ group \in Groups(dag)
  BY DEF Quiet, Judged
<1>1. FollowsConcurrencyRules(dag, graph, group) <=>
        \A p \in DOMAIN given : p \in Reached /\ ~Doubled(graph, Reached, p)
  <2>1. NoChoice(graph)
    BY DEF Unbranched, NoChoice
  <2>2. QED
    BY <1>0, <2>1, ExecutedFacts, RulesFacts DEF Reached
<1>2. ASSUME Accepted PROVE AllGivenOnce
  <2>1. \A p \in DOMAIN given : p \in Reached /\ ~Doubled(graph, Reached, p)
    BY <1>0, <1>1, <1>2 DEF Judged
  <2>2. ASSUME NEW p \in DOMAIN given PROVE \E o \in Reached : <<o, p>> \in graph.edge
    <3>1. p[1] = "input" /\ p \in Reached
      BY <1>0, <2>1, ExecutedFacts DEF Of
    <3>2. p \notin EntryNodes(dag, group)
      BY <1>0, <3>1, ReachedFacts
    <3>3. QED
      BY <1>0, <3>1, <3>2, ReachedFacts
  <2>3. \A v \in Reached : v[1] = "vertex" => v \in ran
    BY <1>0, <2>2, AllRun
  <2>4. ASSUME NEW p \in DOMAIN given PROVE Cardinality(given[p]) = 1
    <3>1. PICK o \in Reached : <<o, p>> \in graph.edge
      BY <2>2
    <3>2. PICK i \in given[p] : i.from = o
      BY <1>0, <2>3, <3>1, GivenFacts
    <3>3. ASSUME NEW j \in given[p] PROVE j = i
      <4>1. j.from \in Reached /\ <<j.from, p>> \in graph.edge
        BY <1>0, <2>3, GivenFacts
      <4>2. j.from = o
        BY <2>1, <3>1, <4>1 DEF Doubled
      <4>3. QED
        BY <1>0, <2>3, <3>2, <4>2, GivenFacts
    <3>4. given[p] = {i}
      BY <3>2, <3>3
    <3>5. QED
      BY <3>4, FS_Singleton
  <2>5. QED
    BY <2>4 DEF AllGivenOnce
<1>3. ASSUME verdict.stage = "concurrency", verdict.group = group, AllGivenOnce PROVE FALSE
  <2>1. ~FollowsConcurrencyRules(dag, graph, group)
    BY <1>0, <1>3 DEF Judged, Executed
  <2>2. PICK p \in DOMAIN given : p \notin Reached \/ Doubled(graph, Reached, p)
    BY <1>1, <2>1
  <2>3. \A q \in DOMAIN given : given[q] # {}
    <3>1. Cardinality({}) = 0
      BY FS_EmptySet
    <3>2. \A q \in DOMAIN given : Cardinality(given[q]) = 1
      BY <1>3 DEF AllGivenOnce
    <3>3. QED
      BY <3>1, <3>2
  <2>4. \A v \in Reached : v[1] = "vertex" => v \in ran
    BY <1>0, <2>3, AllRun
  <2>5. PICK i \in given[p] : i.from \in Reached /\ <<i.from, p>> \in graph.edge
    BY <1>0, <2>3, <2>4, GivenFacts
  <2>6. p \in Reached
    BY <1>0, <2>5, ReachedFacts
  <2>7. PICK n \in Reached, m \in Reached : n # m /\ <<n, p>> \in graph.edge /\ <<m, p>> \in graph.edge
    BY <2>2, <2>6 DEF Doubled
  <2>8. PICK j \in given[p], k \in given[p] : j.from = n /\ k.from = m
    BY <1>0, <2>4, <2>7, GivenFacts
  <2>9. j # k
    BY <2>7, <2>8
  <2>10. Cardinality(given[p]) = 1 /\ IsFiniteSet(given[p])
    BY <1>0, <1>3, <2>4, GivenFinite DEF AllGivenOnce
  <2>11. \E x : given[p] = {x}
    BY <2>10, FS_Singleton, Zenon
  <2>12. QED
    BY <2>9, <2>11
<1>4. QED
  BY <1>2, <1>3

(* Where no vertex has a choice, the verdict is exact: the values that the   *)
(* executions give to the input ports are those that                         *)
(* get_net_concurrency_in_subgraph counts.                                   *)
THEOREM VerdictIsExact == Spec => []VerdictExact
  BY SpecJudged, SpecProgress, ProgressExact, PTL
===============================================================================
