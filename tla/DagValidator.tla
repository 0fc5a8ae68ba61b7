----------------------------- MODULE DagValidator -----------------------------
(***************************************************************************)
(* The validation of a DAG description (sdk/src/dag/validator.rs), next to *)
(* the executions it is about.  Validate builds a graph whose nodes are    *)
(* vertices, output variants, output ports and input ports, and checks it  *)
(* stage by stage; the first stage that fails is the verdict.              *)
(*                                                                         *)
(* Executions belong to the workflow package on chain.  They are modelled  *)
(* from what the validator assumes of them: invoking an entry group starts *)
(* its vertices, a vertex runs once all its input ports have a value,      *)
(* chooses one of its output variants, and every port of that variant      *)
(* gives its value to one input port.  A do-while edge leads to a phantom, *)
(* so that an execution is one turn of every loop.  A value knows how many *)
(* for-each edges it has passed without the collect edge that closes them. *)
(* Graphs that break only the concurrency rules are executed too, which    *)
(* the program never does: that is how the verdict is judged.              *)
(***************************************************************************)
EXTENDS Integers, Sequences, FiniteSetsExt, Functions, Graphs

CONSTANTS
    Dags,   \* the DAG descriptions to validate
    None

VARIABLES
    dag,      \* the description
    graph,    \* its graph, empty if it has none
    verdict,  \* the stage that failed, or "ok"; the group the failure names
    group,    \* the entry group that is invoked
    given,    \* the values every input port has received
    ran       \* the vertices that have run

vars == <<dag, graph, verdict, group, given, ran>>

Kinds == {"Normal", "ForEach", "Collect", "DoWhile", "Break", "Static"}

Stages == {"ok", "description", "cycle", "order", "concurrency", "for_each", "do_while"}

\* The parser gives lists of edges.
ASSUME DagsAssumption ==
    \A d \in Dags :
        d.edges \in Seq([from : [vertex : STRING, variant : STRING, port : STRING],
                         to : [vertex : STRING, port : STRING], kind : Kinds])

-----------------------------------------------------------------------------
(* The graph.                                                                *)

Vertex(v) == <<"vertex", v>>
OutputVariant(v, x) == <<"variant", v, x>>
OutputPort(f) == <<"output", f.vertex, f.variant, f.port>>
InputPort(v, p) == <<"input", v, p>>

Of(type, nodes) == {n \in nodes : n[1] = type}

Edges(d) == Range(d.edges)

\* Where an edge leads: the phantom of its destination if it closes a loop.
Destination(e) == IF e.kind = "DoWhile" THEN e.to.vertex \o "-do-while" ELSE e.to.vertex

Links(e) ==
    LET variant == OutputVariant(e.from.vertex, e.from.variant)
        input == InputPort(Destination(e), e.to.port)
    IN {<<Vertex(e.from.vertex), variant>>, <<variant, OutputPort(e.from)>>,
        <<OutputPort(e.from), input>>, <<input, Vertex(Destination(e))>>}

GraphOf(d) ==
    LET links == UNION {Links(e) : e \in Edges(d)}
        alone == IF d.edges = <<>> /\ Len(d.vertices) = 1
                 THEN {Vertex(d.vertices[1].name)} ELSE {}
    IN [node |-> (UNION {{l[1], l[2]} : l \in links}) \cup alone, edge |-> links]

\* The kind of the edges out of a node.
Weight(d, n) ==
    IF n[1] = "output" THEN (CHOOSE e \in Edges(d) : OutputPort(e.from) = n).kind ELSE "Normal"

\* The nodes of S and those that its nodes lead to.
Reach(G, S) ==
    LET closure[T \in SUBSET (G.node \cup S)] ==
            LET U == T \cup AllSuccessors(G, T) IN IF U = T THEN T ELSE closure[U]
    IN closure[S]

\* The nodes on the paths from S to n, if the graph has no cycle.
OnPaths(G, S, n) == Reach(G, S) \cap Reach(Transpose(G), {n})

-----------------------------------------------------------------------------
(* Entry groups and the checks of the description itself.                    *)

Groups(d) ==
    IF d.groups # {} THEN {g.name : g \in {g \in d.groups : g.vertices # {}}}
    ELSE IF \E v \in Range(d.vertices) : v.entry # <<>> THEN {"_default_group"} ELSE {}

\* A verdict is something.
ASSUME NoneAssumption == \A d \in Dags : None \notin [stage : Stages, group : Groups(d) \cup {None}]

EntryVertices(d, g) ==
    IF d.groups # {} THEN UNION {h.vertices : h \in {h \in d.groups : h.name = g}}
    ELSE {v.name : v \in {v \in Range(d.vertices) : v.entry # <<>>}}

Entries(d) == UNION {{Vertex(v) : v \in EntryVertices(d, g)} : g \in Groups(d)}

GroupsKnown(d) ==
    /\ Groups(d) # {}
    /\ \A g \in d.groups : g.vertices \subseteq {v.name : v \in Range(d.vertices)}

OutputsUsedOnce(d) ==
    \A i, j \in DOMAIN d.edges : d.edges[i].from = d.edges[j].from => i = j

VerticesConnected(d) ==
    /\ \A v \in Range(d.vertices) : Vertex(v.name) \in GraphOf(d).node
    /\ \A i, j \in DOMAIN d.vertices : d.vertices[i].name = d.vertices[j].name => i = j

EntryPortsFree(d) ==
    \A v \in Range(d.vertices) :
        /\ IsInjective(v.entry)
        /\ \A p \in Range(v.entry) : InputPort(v.name, p) \notin GraphOf(d).node

DefaultsFree(d) ==
    \A q \in d.defaults :
        /\ InputPort(q.vertex, q.port) \notin GraphOf(d).node
        /\ \A v \in Range(d.vertices) : v.name = q.vertex => q.port \notin Range(v.entry)

OutputsFree(d) ==
    \A o \in d.outputs : o \in {v.name : v \in Range(d.vertices)} =>
        \A e \in Edges(d) : e.from.vertex # o

Leaving(d, kind) == {e.from : e \in {e \in Edges(d) : e.kind = kind}}

LoopsBranch(d) ==
    LET Vs(fs) == {f.vertex : f \in fs}
        Variants(fs) == {<<f.vertex, f.variant>> : f \in fs}
        loops == Leaving(d, "DoWhile")
        breaks == Leaving(d, "Break")
    IN Vs(loops) = Vs(breaks) /\ Variants(loops) \cap Variants(breaks) = {}

WellFormed(d) ==
    /\ GroupsKnown(d) /\ OutputsUsedOnce(d) /\ VerticesConnected(d)
    /\ EntryPortsFree(d) /\ DefaultsFree(d) /\ OutputsFree(d) /\ LoopsBranch(d)

-----------------------------------------------------------------------------
(* The checks of the graph.                                                  *)

Cyclic(G) == \E n \in G.node : n \in Reach(G, Successors(G, n))

CorrectOrder(G) ==
    LET Follows(m, n) == <<m, n>> \in {<<"input", "vertex">>, <<"vertex", "variant">>,
                                       <<"variant", "output">>, <<"output", "input">>}
    IN /\ \A l \in G.edge : Follows(l[1][1], l[2][1])
       /\ \A n \in G.node : /\ n[1] \in {"input", "output"} => OutDegree(G, n) = 1
                            /\ n[1] = "variant" => OutDegree(G, n) > 0

(* Mutant of ExtraTasks: the ports are not filtered.                         *)
AllExtraTasks(G, v, nodes) ==
    Max({0} \cup {OutDegree(G, x) - 1 : x \in Successors(G, v) \cap nodes})

\* How many more ports a variant of v fills than one, at most.
ExtraTasks(G, v, nodes) ==
    Max({0} \cup {Cardinality(Successors(G, x) \cap nodes) - 1 : x \in Successors(G, v) \cap nodes})

\* The tasks that the vertices may start, less the input ports that join them.
NetConcurrency(G, nodes) ==
    Cardinality(UNION {{v} \X (0..ExtraTasks(G, v, nodes)) : v \in Of("vertex", nodes)})
        - Cardinality(Of("input", nodes))

FollowsConcurrencyRules(d, G, g) ==
    \A p \in Of("input", G.node) :
        LET nodes == OnPaths(G, {Vertex(v) : v \in EntryVertices(d, g)}, p)
        IN nodes # {} /\ NetConcurrency(G, nodes) = 0

(* Mutant of ForEachSteps: a collect edge outside a for-each goes on.        *)
LaxForEachSteps ==
    ({"Idle"} \X {"Static", "Normal", "DoWhile", "Break", "Collect"} \X {"Idle"})
        \cup {<<"Idle", "ForEach", "InForEach">>, <<"InForEach", "Normal", "InForEach">>,
              <<"InForEach", "Collect", "Idle">>}

\* <<state, kind of the edge, next state>>
ForEachSteps ==
    ({"Idle"} \X {"Static", "Normal", "DoWhile", "Break"} \X {"Idle"})
        \cup {<<"Idle", "ForEach", "InForEach">>, <<"InForEach", "Normal", "InForEach">>,
              <<"InForEach", "Collect", "Idle">>}

ForEachPaired(d, G) ==
    LET From(q) == {s \in ForEachSteps : s[1] = q[2] /\ s[2] = Weight(d, q[1])}
        walks == [node |-> G.node \X {"Idle", "InForEach"},
                  edge |-> UNION {{<<<<l[1], s[1]>>, <<l[2], s[3]>>>> :
                              s \in {s \in ForEachSteps : s[2] = Weight(d, l[1])}} : l \in G.edge}]
    IN \A q \in Reach(walks, Entries(d) \X {"Idle"}) :
            IF Successors(G, q[1]) = {} THEN q[2] = "Idle" ELSE From(q) # {}

DoWhilesApart(d, G) ==
    \A e \in Edges(d) : e.kind = "DoWhile" /\ Vertex(e.to.vertex) \in G.node =>
        \A n \in OnPaths(G, {Vertex(e.to.vertex)}, OutputPort(e.from)) \ {OutputPort(e.from)} :
            Weight(d, n) \notin {"DoWhile", "Break", "ForEach", "Collect"}

Validate ==
    /\ verdict = None
    /\ graph' = IF WellFormed(dag) THEN GraphOf(dag) ELSE EmptyGraph
    /\ LET broken == {g \in Groups(dag) : ~FollowsConcurrencyRules(dag, graph', g)}
           Fails(stage) == verdict' = [stage |-> stage, group |-> None]
       IN IF ~WellFormed(dag) THEN Fails("description")
          ELSE IF Cyclic(graph') THEN Fails("cycle")
          ELSE IF ~CorrectOrder(graph') THEN Fails("order")
          ELSE IF broken # {} THEN \E g \in broken : verdict' = [stage |-> "concurrency", group |-> g]
          ELSE IF ~ForEachPaired(dag, graph') THEN Fails("for_each")
          ELSE IF ~DoWhilesApart(dag, graph') THEN Fails("do_while")
          ELSE Fails("ok")
    /\ given' = [p \in Of("input", graph'.node) |-> {}]
    /\ UNCHANGED <<dag, group, ran>>

-----------------------------------------------------------------------------
(* Executions.                                                               *)

Accepted == verdict # None /\ verdict.stage = "ok"

Invoke(g) ==
    /\ verdict # None /\ verdict.stage \in {"ok", "concurrency"}
    /\ group = None
    /\ group' = g
    /\ UNCHANGED <<dag, graph, verdict, given, ran>>

\* The values that a vertex takes.
Inputs(v) == UNION {given[p] : p \in Predecessors(graph, v)}

\* For-each edges without their collect edge, before v.
Level(v) == Max({0} \cup {i.level : i \in Inputs(v)})

Ready(v) ==
    /\ group # None /\ v \notin ran
    /\ v \in {Vertex(n) : n \in EntryVertices(dag, group)} \/ Predecessors(graph, v) # {}
    /\ \A p \in Predecessors(graph, v) : given[p] # {}

Nested(v, o) ==
    CASE Weight(dag, o) = "ForEach" -> Level(v) + 1
      [] Weight(dag, o) = "Collect" -> Level(v) - 1
      [] OTHER -> Level(v)

Run(v) ==
    /\ Ready(v)
    /\ ran' = ran \cup {v}
    /\ \/ Successors(graph, v) = {} /\ UNCHANGED given
       \/ \E x \in Successors(graph, v) :
            given' = [p \in DOMAIN given |-> given[p] \cup
                        {[from |-> o, level |-> Nested(v, o)] :
                            o \in {o \in Successors(graph, x) : <<o, p>> \in graph.edge}}]
    /\ UNCHANGED <<dag, graph, verdict, group>>

Init ==
    /\ dag \in Dags
    /\ graph = EmptyGraph /\ verdict = None /\ group = None
    /\ given = <<>> /\ ran = {}

Next ==
    \/ Validate
    \/ \E g \in Groups(dag) : Invoke(g)
    \/ \E v \in Of("vertex", graph.node) : Run(v)

Spec == Init /\ [][Next]_vars

-----------------------------------------------------------------------------
TypeOK ==
    /\ IsDirectedGraph(graph)
    /\ verdict # None => verdict.stage \in Stages
    /\ group \in Groups(dag) \cup {None}
    /\ DOMAIN given = (IF verdict = None THEN {} ELSE Of("input", graph.node))
    /\ ran \subseteq Of("vertex", graph.node)

Unbranched == \A v \in Of("vertex", graph.node) : OutDegree(graph, v) <= 1

Quiet == group # None /\ \A v \in Of("vertex", graph.node) : ~Ready(v)

AllGivenOnce == \A p \in DOMAIN given : Cardinality(given[p]) = 1

(***************************************************************************)
(* Where no vertex has a choice, the count of get_net_concurrency_in_      *)
(* subgraph is right: an accepted DAG gives every input port exactly one   *)
(* value, whichever group is invoked, and one that is refused for a group  *)
(* does not when that group is invoked.                                    *)
(***************************************************************************)
VerdictExact ==
    Unbranched /\ Quiet =>
        /\ Accepted => AllGivenOnce
        /\ (verdict.stage = "concurrency" /\ verdict.group = group) => ~AllGivenOnce

(***************************************************************************)
(* In an accepted DAG it does not depend on the path whether a value is    *)
(* inside a for-each: all inputs of a vertex agree, at most one for-each   *)
(* is open, and none at the end (validate_for_each_pairs looks at one path *)
(* at a time and never compares two).                                      *)
(***************************************************************************)
OneNesting ==
    Accepted =>
        \A v \in Of("vertex", graph.node) :
            /\ \A i, j \in Inputs(v) : i.level = j.level
            /\ Level(v) <= IF Successors(graph, v) = {} THEN 0 ELSE 1

OnlyLoops(v) == \A e \in Edges(dag) : e.from.vertex = v => e.kind \in {"DoWhile", "Break"}

(***************************************************************************)
(* If the vertices that close loops do nothing but repeat or leave them,   *)
(* no loop of an accepted DAG closes inside another (                      *)
(* validate_do_while_nesting, which sees an inner loop only by the break   *)
(* edge on the path of the outer one).                                     *)
(***************************************************************************)
LoopsDoNotNest ==
    Accepted =>
        \A e, f \in {e \in Edges(dag) : e.kind = "DoWhile"} :
            e.from.vertex # f.from.vertex /\ OnlyLoops(e.from.vertex) =>
                Vertex(e.from.vertex) \notin OnPaths(graph, {Vertex(f.to.vertex)}, OutputPort(f.from))

(***************************************************************************)
(* What the checks of for-each and do-while edges are for: no execution    *)
(* finds a loop, of either kind, inside another or open on one path only.  *)
(***************************************************************************)
NestingSound == OneNesting /\ LoopsDoNotNest

(***************************************************************************)
(* "Check that no walks in the graph violate the concurrency rules"        *)
(* (validator.rs:36): no execution of an accepted DAG gives an input port  *)
(* two values.                                                             *)
(***************************************************************************)
NoRace == Accepted => \A p \in DOMAIN given : Cardinality(given[p]) <= 1
===============================================================================
