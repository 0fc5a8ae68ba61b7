----------------------------- MODULE KeyRegistry -----------------------------
(* Message-signing keys of tools and leaders in network_auth                  *)
(* (src/sdk/src/nexus/network_auth.rs): registering a key, listing the keys   *)
(* of a tool and exporting the active keys of the leaders.  Each is a series  *)
(* of reads from a fullnode that follows the chain, with registrations and    *)
(* revocations by others between any two of them.                             *)
EXTENDS Integers, Sequences, FiniteSets

CONSTANTS
    Leaders, Tools,   \* the identities that may have a binding
    OwnKey, OtherKey, \* the key this client registers, and those of others
    MaxKeys,          \* bound on the keys of a binding
    MaxChanges        \* bound on what others do

ASSUME KeyAssumption ==
    /\ Leaders \cap Tools = {}
    /\ MaxKeys \in Nat /\ MaxChanges \in Nat

VARIABLES
    chain,    \* the binding of every identity, on chain
    replica,  \* and as the fullnode shows it
    job,      \* the call that runs
    seen,     \* history: the active keys the fullnode showed since it began
    keyless,  \* history: the identities shown without an active key since then
    changes   \* what others have done so far

keyVars == <<chain, replica, job, seen, keyless, changes>>

Identities == Leaders \cup Tools
NoKey == -1

(* A binding has the keys registered so far, under the ids 0, 1, ..., and one *)
(* of them may be active.  It is created with its first key.                  *)
KeyBinding ==
    [keys : Seq([key : {OwnKey, OtherKey}, revoked : BOOLEAN]), active : Int]
Absent == [keys |-> <<>>, active |-> NoKey]
NextKeyId(b) == Len(b.keys)
Record(b, kid) == b.keys[kid + 1]

AddKey(b, k) ==
    [keys |-> Append(b.keys, [key |-> k, revoked |-> FALSE]), active |-> NextKeyId(b)]

Active(bindings) ==
    {<<id, bindings[id].active, Record(bindings[id], bindings[id].active).revoked>> :
        id \in {i \in Identities : bindings[i].active # NoKey}}
Keyless(bindings) == {id \in Identities : bindings[id].active = NoKey}

Idle == [kind |-> "idle"]
Failed == [kind |-> "failed"]
Answers == {"failed", "registered", "skipped", "listed", "exported"}
InCall == job.kind \in {"register", "unless_active", "list", "export"}

KeyInit ==
    /\ chain \in [Identities -> {Absent, AddKey(Absent, OtherKey)}]
    /\ replica = chain
    /\ job = Idle
    /\ seen = {} /\ keyless = {} /\ changes = 0

BeginCall(j) ==
    /\ job = Idle
    /\ job' = j
    /\ seen' = Active(replica)
    /\ keyless' = Keyless(replica)
    /\ UNCHANGED <<chain, replica, changes>>

Go(j) == job' = j /\ UNCHANGED <<chain, replica, seen, keyless, changes>>
-----------------------------------------------------------------------------
(* register_tool_message_key: the binding is read for the next key id, the    *)
(* key signs a proof of possession for that id, and the transaction is built  *)
(* for the binding as it was found.                                           *)

ReadBinding(t) ==
    [kind |-> "register", id |-> t, new |-> replica[t] = Absent, kid |-> NextKeyId(replica[t])]

BeginRegister(t) == BeginCall(ReadBinding(t))

(* The chain accepts the proof for its own next id only, creates a binding    *)
(* only where there is none, and adds keys only where there is one.           *)
ProofAccepted(j) ==
    /\ j.new <=> chain[j.id] = Absent
    /\ j.kid = NextKeyId(chain[j.id])

RegisteredToolKey(j) == [kind |-> "registered", id |-> j.id, kid |-> j.kid]

SubmitKey ==
    /\ job.kind = "register" /\ ProofAccepted(job)
    /\ NextKeyId(chain[job.id]) < MaxKeys
    /\ chain' = [chain EXCEPT ![job.id] = AddKey(@, OwnKey)]
    /\ job' \in {RegisteredToolKey(job), Failed} \* the answer may be lost
    /\ UNCHANGED <<replica, seen, keyless, changes>>

RefuseKey == job.kind = "register" /\ ~ProofAccepted(job) /\ Go(Failed)
-----------------------------------------------------------------------------
(* A table of keys is listed page by page, one key a page, and then its       *)
(* records are read together.  The listing ends when the fullnode has no      *)
(* further key at that time.                                                  *)

Table(j, id) ==
    [kind |-> j.kind, id |-> id, active |-> replica[id].active, next |-> NextKeyId(replica[id]),
     by |-> j.by, all |-> j.all, left |-> j.left, out |-> j.out,
     step |-> "table", kids |-> {}, more |-> TRUE]

ReadingTable == job.kind \in {"list", "export"} /\ job.step = "table"

ListPage ==
    /\ ReadingTable /\ job.more
    /\ LET kid == Cardinality(job.kids)
       IN Go([job EXCEPT !.kids = @ \cup {kid}, !.more = kid + 1 < NextKeyId(replica[job.id])])

TableRead == ReadingTable /\ ~job.more
-----------------------------------------------------------------------------
(* list_tool_keys: nothing is reported for a tool without a binding.          *)

ToolKeyList(id, active, next, kids) ==
    [kind |-> "listed", id |-> id, active |-> active, next |-> next, kids |-> kids]

ListOf(t, by) ==
    Table([kind |-> "list", by |-> by, all |-> FALSE, left |-> {}, out |-> {}], t)

BeginList(t) ==
    BeginCall(IF replica[t] = Absent THEN ToolKeyList(t, NoKey, 0, {}) ELSE ListOf(t, "actions"))

ListToolKeys ==
    /\ TableRead /\ job.kind = "list" /\ job.by = "actions"
    /\ Go(ToolKeyList(job.id, job.active, job.next, job.kids))

(* The command that registers a key with --skip-if-active lists the keys      *)
(* first, and if the key is not the active one registers it from the start.   *)
BeginUnlessActive(t) ==
    BeginCall(IF replica[t] = Absent THEN [kind |-> "unless_active", id |-> t] ELSE ListOf(t, "cli"))

SkipIfActive ==
    /\ TableRead /\ job.kind = "list" /\ job.by = "cli"
    /\ Go(IF job.active \in job.kids /\ Record(replica[job.id], job.active).key = OwnKey
          THEN [kind |-> "skipped", id |-> job.id, kid |-> job.active]
          ELSE [kind |-> "unless_active", id |-> job.id])

RegisterAfterAll == job.kind = "unless_active" /\ Go(ReadBinding(job.id))
-----------------------------------------------------------------------------
(* Exports of the leaders' active keys: of the leaders that network_auth      *)
(* lists, where those without an active key are skipped, or of given ones.    *)

Binding(by, all, left, out) ==
    [kind |-> "export", by |-> by, all |-> all, left |-> left, out |-> out, step |-> "binding"]

ListedLeaders == {id \in Leaders : replica[id] # Absent}

BeginExportAll(by) ==
    BeginCall(IF ListedLeaders = {} THEN Failed ELSE Binding(by, TRUE, ListedLeaders, {}))

BeginExport(ids) == BeginCall(Binding("actions", FALSE, ids, {}))

NextLeader(j, entries) == Binding(j.by, j.all, j.left, j.out \cup entries)

ReadLeader(id) ==
    /\ job.kind = "export" /\ job.step = "binding" /\ id \in job.left
    /\ LET j == [job EXCEPT !.left = @ \ {id}]
       IN Go(IF replica[id] = Absent \/ (replica[id].active = NoKey /\ ~job.all) THEN Failed
             ELSE IF replica[id].active = NoKey THEN NextLeader(j, {})
             ELSE Table(j, id))

(* Mutant of ActiveKeyUsable: the reader does not look either.                *)
AnyKeyUsable(j, record) == TRUE

(* The reader refuses a revoked key, the actions do not look.                 *)
ActiveKeyUsable(j, record) == j.by = "reader" => ~record.revoked

ResolveActive ==
    /\ TableRead /\ job.kind = "export"
    /\ LET record == Record(replica[job.id], job.active)
       IN Go(IF job.active \in job.kids /\ ActiveKeyUsable(job, record)
             THEN NextLeader(job, {[id |-> job.id, kid |-> job.active, key |-> record.key]})
             ELSE Failed)

FinishExport ==
    /\ job.kind = "export" /\ job.step = "binding" /\ job.left = {}
    /\ Go(IF job.all /\ job.out = {} THEN Failed
          ELSE [kind |-> "exported", by |-> job.by, all |-> job.all, out |-> job.out])
-----------------------------------------------------------------------------
(* Any read may fail; the caller takes the answer.                            *)
FailCall == InCall /\ Go(Failed)
Return == job.kind \in Answers /\ Go(Idle)

(* Others register, revoke and activate keys.  Whether the chain deactivates  *)
(* a key that is revoked is not known here: the reader asks, so it may not.   *)
Changed(id, b) ==
    /\ changes < MaxChanges
    /\ changes' = changes + 1
    /\ chain' = [chain EXCEPT ![id] = b]
    /\ UNCHANGED <<replica, job, seen, keyless>>

OthersRegister(id) ==
    NextKeyId(chain[id]) < MaxKeys /\ Changed(id, AddKey(chain[id], OtherKey))

OthersRevoke(id) ==
    \E kid \in 0 .. NextKeyId(chain[id]) - 1 :
        /\ ~Record(chain[id], kid).revoked
        /\ LET b == [chain[id] EXCEPT !.keys[kid + 1].revoked = TRUE]
           IN \/ Changed(id, b)
              \/ chain[id].active = kid /\ Changed(id, [b EXCEPT !.active = NoKey])

OthersActivate(id) ==
    \E kid \in 0 .. NextKeyId(chain[id]) - 1 :
        /\ chain[id].active # kid /\ ~Record(chain[id], kid).revoked
        /\ Changed(id, [chain[id] EXCEPT !.active = kid])

(* The fullnode catches up.  The history goes on while a call runs.           *)
CatchUp ==
    /\ replica # chain
    /\ replica' = chain
    /\ seen' = IF InCall THEN seen \cup Active(chain) ELSE seen
    /\ keyless' = IF InCall THEN keyless \cup Keyless(chain) ELSE keyless
    /\ UNCHANGED <<chain, job, changes>>

KeyNext ==
    \/ \E t \in Tools : BeginRegister(t) \/ BeginList(t) \/ BeginUnlessActive(t)
    \/ SubmitKey \/ RefuseKey
    \/ ListPage \/ ListToolKeys
    \/ SkipIfActive \/ RegisterAfterAll
    \/ \E by \in {"actions", "reader"} : BeginExportAll(by)
    \/ \E ids \in SUBSET Leaders : BeginExport(ids)
    \/ \E id \in Leaders : ReadLeader(id)
    \/ ResolveActive \/ FinishExport
    \/ FailCall \/ Return
    \/ \E id \in Identities : OthersRegister(id) \/ OthersRevoke(id) \/ OthersActivate(id)
    \/ CatchUp

KeySpec == KeyInit /\ [][KeyNext]_keyVars
-----------------------------------------------------------------------------
BindingOk(b) ==
    /\ b.keys \in Seq([key : {OwnKey, OtherKey}, revoked : BOOLEAN])
    /\ b.active \in {NoKey} \cup 0 .. NextKeyId(b) - 1

KeyTypeOK ==
    /\ \A b \in {chain[id] : id \in Identities} \cup {replica[id] : id \in Identities} : BindingOk(b)
    /\ InCall \/ job.kind \in Answers \cup {"idle"}
    /\ seen \subseteq Identities \X Nat \X BOOLEAN
    /\ keyless \subseteq Identities
    /\ changes \in 0 .. MaxChanges

(* A registration that is reported stands on chain under the id it reports,   *)
(* whatever others registered since the binding was read; one that was        *)
(* skipped is of a key that was active since the command began.  A list of    *)
(* keys has every id below the next one, although keys came while it was read. *)
KeyReportsTrue ==
    /\ job.kind \in {"registered", "skipped"} =>
        /\ job.kid \in 0 .. NextKeyId(chain[job.id]) - 1
        /\ Record(chain[job.id], job.kid).key = OwnKey
    /\ job.kind = "skipped" => \E revoked \in BOOLEAN : <<job.id, job.kid, revoked>> \in seen
    /\ job.kind = "listed" => (0 .. job.next - 1) \cup ({job.active} \ {NoKey}) \subseteq job.kids

(* Every exported key was the active key of its leader at one time since the  *)
(* export began, and not revoked at that time if the reader exported it; and  *)
(* no leader that had an active key all that time is left out of an export of *)
(* all leaders.                                                               *)
ExportTrue ==
    job.kind = "exported" =>
        /\ \A e \in job.out :
            /\ \E revoked \in BOOLEAN :
                /\ <<e.id, e.kid, revoked>> \in seen
                /\ job.by = "reader" => ~revoked
            /\ e.key = Record(chain[e.id], e.kid).key
        /\ job.all => \A id \in Leaders \ keyless : \E e \in job.out : e.id = id
=============================================================================
