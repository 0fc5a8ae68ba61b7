------------------------------ MODULE RemoteData ------------------------------
(* The input data of an execution: kept in the transaction or stored in       *)
(* Walrus, whose blob IDs then go into the transaction, and read back by      *)
(* whoever needs it.  src/cli/src/workflow/mod.rs and                         *)
(* src/cli/src/nexus_data_json.rs choose where a value goes,                  *)
(* src/sdk/src/walrus/nexus_data.rs stores and fetches it with the client in  *)
(* src/sdk/src/walrus/client.rs.  A blob is named by its contents and expires.*)
EXTENDS Naturals, Sequences, FiniteSetsExt

CONSTANTS
    InputPorts,          \* the input ports that get a value
    Values,         \* what they get: one payload or an array of them, and its size
    WALRUS_BLOB_ID_LENGTH,
    AvailableSize,  \* what the entry ports may take of a transaction
    SaveFor,        \* the epochs a blob is stored for
    MaxStorageEpoch \* bound on the epochs of Walrus

Payloads == UNION {{v.payloads[i] : i \in DOMAIN v.payloads} : v \in Values}

ASSUME RemoteDataAssumption ==
    /\ SaveFor \in Nat \ {0} /\ MaxStorageEpoch \in Nat
    /\ WALRUS_BLOB_ID_LENGTH \in Nat /\ AvailableSize \in Nat
    /\ \A v \in Values :
         v.payloads \in Seq(Payloads) /\ v.size \in Nat /\ (~v.many => Len(v.payloads) = 1)

VARIABLES
    blobs,        \* the last epoch of every blob
    storageEpoch,
    transfer,     \* the command that stores, or reads
    placed        \* what a transaction put on the chain, with what it stands for

dataVars == <<blobs, storageEpoch, transfer, placed>>

NoTransfer == [step |-> "idle"]

DataInit ==
    /\ blobs = [p \in Payloads |-> 0] /\ storageEpoch = 1
    /\ transfer = NoTransfer /\ placed = {}
-----------------------------------------------------------------------------
(* hint_remote_fields moves the largest values out until the rest fits.  Where*)
(* nothing is enough it ends with an error, which process_entry_ports takes   *)
(* for no hint.                                                               *)
ValueSize(v) == v.size
LinkSize(v) == WALRUS_BLOB_ID_LENGTH * Len(v.payloads)
LocalSize(input, S) == MapThenSumSet(LAMBDA p : ValueSize(input[p]), S)
SizeAfter(input, local, S) ==
    LocalSize(input, local \ S) + MapThenSumSet(LAMBDA p : LinkSize(input[p]), S)
hint_remote_fields(input, local) ==
    /\ LocalSize(input, local) > AvailableSize
    /\ \E S \in SUBSET local :
         /\ \A p \in S, q \in local \ S : ValueSize(input[p]) >= ValueSize(input[q])
         /\ SizeAfter(input, local, S) <= AvailableSize

process_entry_ports(input, remote, preferred) ==
    (preferred = "walrus" \/ remote = {}) /\ ~hint_remote_fields(input, InputPorts \ remote)
-----------------------------------------------------------------------------
TransferAt(step) == transfer.step = step
TransferEnds == transfer' = NoTransfer
SameStore == UNCHANGED <<blobs, storageEpoch, placed>>

BeginExecute(input, remote, preferred, vertexOf, configured) ==
    /\ TransferAt("idle") /\ process_entry_ports(input, remote, preferred)
    /\ transfer' = [step |-> "commit", input |-> input, remote |-> remote, vertexOf |-> vertexOf,
                    configured |-> configured, keys |-> [p \in remote |-> <<>>], since |-> storageEpoch]
    /\ SameStore

(* The vertices one after the other, the ports of each at once, the payloads  *)
(* of a port one after the other.                                             *)
Unsent(p) == Len(transfer.keys[p]) < Len(transfer.input[p].payloads)
Uploading ==
    {p \in transfer.remote : Unsent(p) /\ \A q \in transfer.remote :
        transfer.vertexOf[q] # transfer.vertexOf[p] => ~Unsent(q) \/ transfer.keys[q] = <<>>}

(* Mutant of NextPayload: the payloads are taken from the end.                *)
LastPayload(p) == transfer.input[p].payloads[Len(transfer.input[p].payloads) - Len(transfer.keys[p])]

NextPayload(p) == transfer.input[p].payloads[Len(transfer.keys[p]) + 1]

(* The publisher stores a blob and says that it is new, unless it is stored   *)
(* for long enough already, which it says too.                                *)
Certified(x) == blobs[x] >= storageEpoch + SaveFor
StoreBlobs(S) == blobs' = [x \in Payloads |-> IF x \in S /\ ~Certified(x) THEN storageEpoch + SaveFor
                                         ELSE blobs[x]]

upload_bytes(p) ==
    /\ TransferAt("commit") /\ transfer.configured /\ p \in Uploading
    /\ StoreBlobs({NextPayload(p)})
    /\ IF Certified(NextPayload(p))
       THEN TransferEnds
       ELSE transfer' = [transfer EXCEPT !.keys[p] = Append(@, NextPayload(p))]
    /\ UNCHANGED <<storageEpoch, placed>>

NotConfigured ==
    /\ TransferAt("commit") /\ ~transfer.configured /\ transfer.remote # {}
    /\ TransferEnds /\ SameStore

(* One upload fails and the others are dropped; each may have been stored.    *)
UploadFails(S) ==
    /\ TransferAt("commit") /\ transfer.configured /\ Uploading # {} /\ S \subseteq Uploading
    /\ StoreBlobs({NextPayload(p) : p \in S})
    /\ TransferEnds /\ UNCHANGED <<storageEpoch, placed>>

(* The transaction, with the keys in place of what was stored.                *)
DataOnChain ==
    [p \in InputPorts |->
        [remote |-> p \in transfer.remote,
         data |-> IF p \in transfer.remote THEN transfer.keys[p] ELSE transfer.input[p].payloads]]

SubmitData(accepted) ==
    /\ TransferAt("commit") /\ \A p \in transfer.remote : transfer.configured /\ ~Unsent(p)
    /\ placed' = IF accepted
                 THEN {[data |-> DataOnChain, input |-> transfer.input, since |-> transfer.since]}
                 ELSE placed
    /\ TransferEnds /\ UNCHANGED <<blobs, storageEpoch>>
-----------------------------------------------------------------------------
(* NexusData::fetch, the ports at once; an expired blob is an error.          *)
BeginFetch(d) ==
    /\ TransferAt("idle") /\ d \in placed
    /\ transfer' = [step |-> "fetch", input |-> d.input, data |-> d.data,
                    read |-> [p \in InputPorts |-> IF d.data[p].remote THEN <<>> ELSE d.data[p].data]]
    /\ SameStore

Unread(p) == Len(transfer.read[p]) < Len(transfer.data[p].data)
read_file(p) ==
    /\ TransferAt("fetch") /\ Unread(p)
    /\ LET key == transfer.data[p].data[Len(transfer.read[p]) + 1]
       IN IF blobs[key] >= storageEpoch
          THEN transfer' = [transfer EXCEPT !.read[p] = Append(@, key)]
          ELSE TransferEnds
    /\ SameStore

Fetched == TransferAt("fetch") /\ \A p \in InputPorts : ~Unread(p)
EndFetch ==
    /\ TransferAt("fetch")   \* whole, or a request fails
    /\ TransferEnds /\ SameStore

StorageEpochEnds ==
    /\ storageEpoch < MaxStorageEpoch /\ storageEpoch' = storageEpoch + 1
    /\ UNCHANGED <<blobs, transfer, placed>>

DataNext ==
    \/ /\ TransferAt("idle")
       /\ \E input \in [InputPorts -> Values], remote \in SUBSET InputPorts, preferred \in {"walrus", "inline"},
             vertexOf \in [InputPorts -> {1, 2}], configured \in BOOLEAN :
            BeginExecute(input, remote, preferred, vertexOf, configured)
    \/ \E p \in InputPorts : upload_bytes(p) \/ read_file(p)
    \/ \E S \in SUBSET InputPorts : UploadFails(S)
    \/ NotConfigured
    \/ \E accepted \in BOOLEAN : SubmitData(accepted)
    \/ \E d \in placed : BeginFetch(d)
    \/ EndFetch \/ StorageEpochEnds
-----------------------------------------------------------------------------
DataTypeOK ==
    /\ blobs \in [Payloads -> 0..MaxStorageEpoch + SaveFor] /\ storageEpoch \in 1..MaxStorageEpoch
    /\ \A d \in placed : DOMAIN d.data = InputPorts /\ d.input \in [InputPorts -> Values]

(* What is read of an execution's data is what was given to it, port by port  *)
(* and in its order, in whatever order the uploads and the reads of the ports *)
(* ended; and whatever the transaction refers to stays readable for as long   *)
(* after the command began as blobs are saved, although the epochs go on and  *)
(* blobs of earlier commands with the same contents are found.                *)
DataArrives ==
    /\ Fetched => \A p \in InputPorts : transfer.read[p] = transfer.input[p].payloads
    /\ \A d \in placed : \A p \in InputPorts : d.data[p].remote =>
          \A i \in DOMAIN d.data[p].data : blobs[d.data[p].data[i]] >= d.since + SaveFor
=============================================================================
