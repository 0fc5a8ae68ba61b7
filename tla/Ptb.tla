-------------------------------- MODULE Ptb --------------------------------
(* Programmable transactions of Sui as the builders of the SDK use them      *)
(* (src/sdk/src/move_boundary, src/sdk/src/transactions): a sequence of       *)
(* commands over objects, which the chain runs as a whole or refuses as a     *)
(* whole.                                                                     *)
(*                                                                            *)
(* A resource is a pair <<type, key>>.  Values that may be copied and dropped *)
(* (names, amounts, configurations) are left out: what makes a transaction    *)
(* succeed or fail whatever the values are is what it does to objects, coins, *)
(* capabilities and the values that must be consumed.                         *)
EXTENDS Naturals, Sequences, FiniteSets, SequencesExt

(* An argument is an object that enters the transaction, shared and mutable,  *)
(* shared and read-only or owned, the result of an earlier command, or plain  *)
(* data where the callee cannot be relied on to take it.                      *)
Mut(o) == [how |-> "mut", res |-> o]
Imm(o) == [how |-> "imm", res |-> o]
Own(o) == [how |-> "own", res |-> o]
Res(r) == [how |-> "res", res |-> r]
Pure(d) == [how |-> "pure", res |-> d]

(* outs are the keys of the results, in the order the callee returns them.    *)
Call(fn, args, outs) == [fn |-> fn, args |-> args, outs |-> outs]
Do(fn, args) == Call(fn, args, <<>>)

(* What a builder returns when it fails: there is nothing to submit.          *)
NotBuilt == <<>>

(* The one object of a type that is never instantiated twice.                 *)
The(type) == <<type, "">>

(* Move signatures: each parameter is a reference, a mutable reference or a   *)
(* value; "any" is a type parameter.  shares are the objects the callee makes *)
(* shared itself.                                                             *)
R(type) == [way |-> "ref", type |-> type]
M(type) == [way |-> "mut", type |-> type]
V(type) == [way |-> "val", type |-> type]
Sig(params, returns) == [params |-> params, returns |-> returns, shares |-> <<>>]
Shares(params, types) == [params |-> params, returns |-> <<>>, shares |-> types]

(* Types of results that may be left unused.                                  *)
Droppable == {"ProofOfIdentity", "ProofOfKey"}
-----------------------------------------------------------------------------
(* Running a transaction.  here: results not used up; spent: objects and      *)
(* results taken by value; fate: where objects ended up.                      *)

Fresh == [ok |-> TRUE, here |-> {}, spent |-> {}, fate |-> {}]

Usable(s, a) == IF a.how = "res" THEN a.res \in s.here ELSE a.res \notin s.spent

(* A frozen object may only be read; a shared one that entered read-only too. *)
Allowed(a, way, frozen) ==
    way # "ref" => a.how # "imm" /\ ~(a.how = "own" /\ a.res \in frozen)

Fits(s, a, p, frozen) ==
    /\ Usable(s, a)
    /\ p.type \in {"any", a.res[1]}
    /\ Allowed(a, p.way, frozen)

(* One command may use a resource twice only if it reads it both times.       *)
Alone(args, params) ==
    \A i, j \in DOMAIN args :
        i # j /\ args[i].res = args[j].res =>
            params[i].way = "ref" /\ params[j].way = "ref"

Results(c, types) == {<<types[i], c.outs[i]>> : i \in DOMAIN types}

Run(s, c, Signature, frozen) ==
    LET sig == Signature[c.fn]
        fits == /\ Len(c.args) = Len(sig.params)
                /\ \A i \in DOMAIN c.args : Fits(s, c.args[i], sig.params[i], frozen)
                /\ Alone(c.args, sig.params)
        taken == {c.args[i].res : i \in {j \in DOMAIN c.args : sig.params[j].way = "val"}}
        made == Results(c, sig.returns)
    IN IF ~(s.ok /\ fits)
       THEN [s EXCEPT !.ok = FALSE]
       ELSE [ok |-> TRUE,
             here |-> (s.here \ taken) \cup made,
             spent |-> (s.spent \cup taken) \ made,
             fate |-> s.fate
                 \cup {<<r, "shared">> : r \in Results(c, sig.shares)}
                 \cup {<<r, "shared">> : r \in IF c.fn = "public_share_object" THEN taken ELSE {}}
                 \cup {<<r, "mine">> : r \in IF c.fn = "transfer_objects" THEN taken ELSE {}}]

Machine(tx, Signature, frozen) ==
    FoldLeft(LAMBDA s, c : Run(s, c, Signature, frozen), Fresh, tx)

Inputs(tx) ==
    {a \in UNION {ToSet(tx[i].args) : i \in DOMAIN tx} : a.how \notin {"res", "pure"}}

(* What a transaction does, whoever holds what.  It fails if it leaves a      *)
(* result behind.                                                             *)
Compile(tx, Signature, frozen) ==
    LET end == Machine(tx, Signature, frozen)
    IN [built |-> tx # NotBuilt,
        ok |-> end.ok /\ \A r \in end.here : r[1] \in Droppable,
        inputs |-> Inputs(tx), spent |-> end.spent, fate |-> end.fate]

Exists(o, owner) == o \in DOMAIN owner /\ owner[o] # "none"

(* The objects must be held as the transaction enters them, each in one way.  *)
Enters(inputs, owner) ==
    /\ \A a \in inputs :
        /\ Exists(a.res, owner)
        /\ IF a.how = "own" THEN owner[a.res] \in {"mine", "frozen"} ELSE owner[a.res] = "shared"
    /\ \A a, b \in inputs : a.res = b.res => a.how = b.how

(* Where every object is after a compiled transaction that succeeded.         *)
After(c, owner) ==
    [o \in DOMAIN owner |->
        IF \E f \in c.fate : f[1] = o THEN (CHOOSE f \in c.fate : f[1] = o)[2]
        ELSE IF o \in c.spent THEN "none" ELSE owner[o]]
=============================================================================
