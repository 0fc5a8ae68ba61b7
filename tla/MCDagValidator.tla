---------------------------- MODULE MCDagValidator ----------------------------
(* DagValidator for TLC: families of small descriptions.                     *)
EXTENDS DagValidator, TLC

Listed(S) == FoldSet(LAMBDA x, s : Append(s, x), <<>>, S)

Edge(v, x, p, w, q, k) ==
    [from |-> [vertex |-> v, variant |-> x, port |-> p], to |-> [vertex |-> w, port |-> q], kind |-> k]

\* The vertices that the edges mention, those of S with an entry port.
Describe(S, edges) ==
    LET names == {e.from.vertex : e \in edges} \cup {e.to.vertex : e \in edges} \cup S
    IN [vertices |-> Listed({[name |-> v, entry |-> IF v \in S THEN <<"in">> ELSE <<>>] : v \in names}),
        edges |-> Listed(edges), defaults |-> {}, groups |-> {}, outputs |-> {}]

Nowhere == <<"", "">>

\* One edge from each output port to one of the targets it may have.
Wirings(ports, targets) ==
    {{Edge(o[1], o[2], o[3], w[o][1], w[o][2], "Normal") : o \in {o \in ports : w[o] # Nowhere}} :
        w \in {w \in [ports -> targets] : \A o \in ports : w[o][1] # o[1]}}

\* Two variants with two ports each, and a vertex to join or to pass by.
Branches ==
    LET outs == {<<"a", "x", "1">>, <<"a", "x", "2">>, <<"a", "y", "1">>, <<"a", "y", "2">>, <<"q", "x", "1">>}
        ins == {Nowhere, <<"q", "1">>, <<"q", "2">>, <<"p", "1">>}
    IN {Describe({"a"}, w) : w \in Wirings(outs, ins)}

\* Two entry vertices, a join, a second join and a way back, in several groups.
Joins ==
    LET outs == {<<"a", "x", "1">>, <<"a", "x", "2">>, <<"b", "x", "1">>, <<"b", "x", "2">>, <<"c", "x", "1">>}
        ins == {Nowhere, <<"c", "1">>, <<"c", "2">>, <<"d", "1">>, <<"b", "1">>}
        Group(n, S) == [name |-> n, vertices |-> S]
        groups == {{}, {Group("g", {"a"}), Group("h", {"b"})},
                   {Group("g", {"a", "b"}), Group("h", {"b"})}, {Group("g", {"a"}), Group("g", {"b"})}}
    IN {[Describe({"a", "b"}, w) EXCEPT !.groups = g] : w \in Wirings(outs, ins), g \in groups}

\* A chain with edges of every kind and a second way around its middle.
Chains ==
    LET around == {{}} \cup {{Edge("a", "x", "2", v, "2", k)} :
                                v \in {"c", "d"}, k \in {"Normal", "ForEach", "Collect"}}
        kinds == Kinds \ {"DoWhile"}
    IN {Describe({"a"}, {Edge("a", "x", "1", "b", "1", k[1]), Edge("b", "x", "1", "c", "1", k[2]),
                         Edge("c", "x", "1", "d", "1", k[3])} \cup s) :
            k \in {"Normal", "ForEach", "Collect"} \X kinds \X kinds, s \in around}

\* A chain whose two inner vertices may close loops.
Loops ==
    LET Back(v, targets) == {{}} \cup {{Edge(v, "loop", "1", w, "1", "DoWhile")} : w \in targets}
        sides == {{}, {Edge("b", "done", "1", "e", "1", "Break")}}
    IN {Describe({"a"}, {Edge("a", "x", "1", "b", "1", k[1]), Edge("b", "x", "1", "c", "1", k[2]),
                         Edge("c", "x", "1", "d", "1", k[3])} \cup l \cup m \cup s) :
            k \in {"Normal", "ForEach"} \X {"Normal", "Break", "Collect"} \X {"Normal", "Break"},
            l \in Back("b", {"a", "b"}), m \in Back("c", {"a", "b", "c"}), s \in sides}

\* Descriptions that are wrong in one place.
Wrong ==
    LET ab == Edge("a", "x", "1", "b", "1", "Normal")
        base == Describe({"a"}, {ab})
        In(v, p) == [vertex |-> v, port |-> p]
    IN {[base EXCEPT !.defaults = {In(v, p)}] : v \in {"a", "b"}, p \in {"in", "1", "2"}}
        \cup {[base EXCEPT !.outputs = {v}] : v \in {"a", "b"}}
        \cup {[base EXCEPT !.vertices = @ \o <<[name |-> v, entry |-> e]>>] :
                v \in {"a", "c"}, e \in {<<>>, <<"in", "in">>}}
        \cup {[base EXCEPT !.edges = <<ab, ab>>], [base EXCEPT !.edges = <<>>]}
        \cup {[base EXCEPT !.groups = {[name |-> "g", vertices |-> S]}] : S \in SUBSET {"a", "c"}}
        \cup {[base EXCEPT !.edges = <<>>, !.vertices = <<[name |-> "a", entry |-> e]>>] :
                e \in {<<>>, <<"in">>, <<"in", "in">>}}

AllDags == Branches \cup Joins \cup Chains \cup Loops \cup Wrong
===============================================================================
