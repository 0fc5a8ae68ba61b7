------------------------------ MODULE ToolInvoke ------------------------------
(***************************************************************************)
(* Signed /invoke requests of one tool                                     *)
(* (toolkit-rust/src/signed_http_warp.rs).  Requests run on several        *)
(* threads.  Each refreshes the file-backed allowlist and is checked       *)
(* against it, then asks the replay cache: a completed answer to the same  *)
(* nonce and input hash is returned again, a nonce in flight is refused,   *)
(* and otherwise the request reserves the nonce under a lease, runs the    *)
(* tool and publishes its answer if the reservation is still its own.  The *)
(* caller may go away while the tool runs, which drops the future and with *)
(* it the reservation.                                                     *)
(*                                                                         *)
(* An answer is named by the request whose run produced it.  A leader      *)
(* stands for a leader id, a key id and the key registered for them, and   *)
(* requests carry valid signatures: the others are refused as if their     *)
(* leader were not in the list.  The wall clock does not go back.          *)
(***************************************************************************)
EXTENDS Integers, Sequences

CONSTANTS
    Requests, Leaders, Nonces, Hashes, None,
    Lease,      \* in_flight_lease_ms, the tool's timeout
    TTL,        \* replay_cache_ttl_ms
    MaxTime,    \* bound: the clock
    MaxLists    \* bound: versions of the allowlist file

Asks == [nonce : Nonces, hash : Hashes, leader : Leaders]

ASSUME InvokeAssumption ==
    /\ Lease \in Nat \ {0}
    /\ TTL \in Nat \ {0}
    /\ MaxTime \in Nat /\ MaxLists \in Nat \ {0}
    /\ None \notin Requests /\ None \notin Hashes
    /\ \A L \in SUBSET Leaders : L # None
    /\ \A q \in Asks : q # None

VARIABLES
    now,      \* now_ms
    lists,    \* the versions of the allowlist file, None if not readable
    allowed,  \* the version that allowed_leaders holds
    cache,    \* ReplayCache::inner: the entry of each nonce, or Absent
    pc,       \* where each request is
    ask,      \* what it asks
    got,      \* the version of the file it has read
    lease,    \* lease_expires_at_ms of its reservation
    answer,   \* the run whose answer it returned
    came,     \* history: the version of the file when it arrived
    kept      \* history: until when its published answer is to be remembered,
              \* 0 once a request with other input has taken its nonce

listVars == <<lists, allowed>>
historyVars == <<came, kept>>
vars == <<now, listVars, cache, pc, ask, got, lease, answer, historyVars>>

InFlight(h, t) == [hash |-> h, expires |-> t, by |-> None]
Complete(h, t, r) == [hash |-> h, expires |-> t, by |-> r]
Absent == [hash |-> None, expires |-> 0, by |-> None]
Entries == [hash : Hashes, expires : Nat, by : Requests \cup {None}]

TypeOK ==
    /\ now \in Nat
    /\ lists \in Seq(SUBSET Leaders \cup {None})
    /\ allowed \in 1..Len(lists)
    /\ lists[allowed] # None
    /\ cache \in [Nonces -> Entries \cup {Absent}]
    /\ pc \in [Requests -> {"new", "refresh", "store", "auth", "begin", "running",
                            "unauthorized", "conflict", "answered", "dropped"}]
    /\ ask \in [Requests -> Asks \cup {None}]
    /\ got \in [Requests -> Nat]
    /\ lease \in [Requests -> Nat]
    /\ answer \in [Requests -> Requests \cup {None}]
    /\ came \in [Requests -> Nat]
    /\ kept \in [Requests -> Nat]
    /\ \A r \in Requests : pc[r] # "new" => ask[r] \in Asks

Init ==
    /\ now = 0
    /\ \E L \in SUBSET Leaders : lists = <<L>>
    /\ allowed = 1
    /\ cache = [n \in Nonces |-> Absent]
    /\ pc = [r \in Requests |-> "new"]
    /\ ask = [r \in Requests |-> None]
    /\ got = [r \in Requests |-> 0]
    /\ lease = [r \in Requests |-> 0]
    /\ answer = [r \in Requests |-> None]
    /\ came = [r \in Requests |-> 0]
    /\ kept = [r \in Requests |-> 0]

------------------------------------------------------------------------------
Tick ==
    /\ now < MaxTime
    /\ now' = now + 1
    /\ UNCHANGED <<listVars, cache, pc, ask, got, lease, answer, historyVars>>

WriteList ==
    /\ Len(lists) < MaxLists
    /\ \E L \in SUBSET Leaders \cup {None} : lists' = Append(lists, L)
    /\ UNCHANGED <<now, allowed, cache, pc, ask, got, lease, answer, historyVars>>

Goto(r, from, to) == pc[r] = from /\ pc' = [pc EXCEPT ![r] = to]

Arrive(r) ==
    /\ Goto(r, "new", "refresh")
    /\ \E a \in Asks : ask' = [ask EXCEPT ![r] = a]
    /\ came' = [came EXCEPT ![r] = Len(lists)]
    /\ UNCHANGED <<now, listVars, cache, got, lease, answer, kept>>

(* Mutant of ReadList: an unreadable file is stored like any other.          *)
ReadAnyList(r) ==
    /\ Goto(r, "refresh", "store") /\ got' = [got EXCEPT ![r] = Len(lists)]
    /\ UNCHANGED <<now, listVars, cache, ask, lease, answer, historyVars>>

(* refresh_from_source_path reads the file outside the lock ...              *)
ReadList(r) ==
    /\ IF lists[Len(lists)] = None
       THEN Goto(r, "refresh", "auth") /\ UNCHANGED got
       ELSE Goto(r, "refresh", "store") /\ got' = [got EXCEPT ![r] = Len(lists)]
    /\ UNCHANGED <<now, listVars, cache, ask, lease, answer, historyVars>>

(* ... and then replaces the list, whatever it holds by now.                 *)
StoreList(r) ==
    /\ Goto(r, "store", "auth")
    /\ allowed' = got[r]
    /\ UNCHANGED <<now, lists, cache, ask, got, lease, answer, historyVars>>

Authenticate(r) ==
    /\ pc[r] = "auth"
    /\ pc' = [pc EXCEPT ![r] = IF ask[r].leader \in lists[allowed] THEN "begin"
                                                                 ELSE "unauthorized"]
    /\ UNCHANGED <<now, listVars, cache, ask, got, lease, answer, historyVars>>

------------------------------------------------------------------------------
Retained == [n \in Nonces |-> IF cache[n].expires <= now THEN Absent ELSE cache[n]]
IsInFlight(e) == e.hash # None /\ e.by = None
IsAnswer(e, h) == e.by # None /\ e.hash = h

(* Mutant of ReturnCached: the input is not compared.                        *)
ReturnAny(r) ==
    LET e == Retained[ask[r].nonce] IN
    /\ pc[r] = "begin"
    /\ e.by # None
    /\ pc' = [pc EXCEPT ![r] = "answered"]
    /\ answer' = [answer EXCEPT ![r] = e.by]
    /\ cache' = Retained
    /\ UNCHANGED <<now, listVars, ask, got, lease, historyVars>>

ReturnCached(r) ==
    LET e == Retained[ask[r].nonce] IN
    /\ pc[r] = "begin"
    /\ IsAnswer(e, ask[r].hash)
    /\ pc' = [pc EXCEPT ![r] = "answered"]
    /\ answer' = [answer EXCEPT ![r] = e.by]
    /\ cache' = Retained
    /\ UNCHANGED <<now, listVars, ask, got, lease, historyVars>>

Refuse(r) ==
    /\ pc[r] = "begin"
    /\ IsInFlight(Retained[ask[r].nonce])
    /\ pc' = [pc EXCEPT ![r] = "conflict"]
    /\ cache' = Retained
    /\ UNCHANGED <<now, listVars, ask, got, lease, answer, historyVars>>

(* An answer to other input is replaced.                                     *)
Displaces(r, q) ==
    pc[q] # "new" /\ ask[q].nonce = ask[r].nonce /\ ask[q].hash # ask[r].hash

Reserve(r) ==
    LET e == Retained[ask[r].nonce] IN
    /\ pc[r] = "begin"
    /\ ~IsInFlight(e) /\ ~IsAnswer(e, ask[r].hash)
    /\ pc' = [pc EXCEPT ![r] = "running"]
    /\ lease' = [lease EXCEPT ![r] = now + Lease]
    /\ cache' = [Retained EXCEPT ![ask[r].nonce] = InFlight(ask[r].hash, now + Lease)]
    /\ kept' = [q \in Requests |-> IF Displaces(r, q) THEN 0 ELSE kept[q]]
    /\ UNCHANGED <<now, listVars, ask, got, answer, came>>

Begin(r) == ReturnCached(r) \/ Refuse(r) \/ Reserve(r)

------------------------------------------------------------------------------
(* Mutant of Owns: any reservation of the nonce counts as its own.           *)
OwnsNonce(r) == IsInFlight(cache[ask[r].nonce])

(* Is the entry still the reservation of r?                                  *)
Owns(r) == cache[ask[r].nonce] = InFlight(ask[r].hash, lease[r])

(* Mutant of Finish: the answer keeps the expiry of the lease.               *)
FinishUntilLease(r) ==
    /\ Goto(r, "running", "answered")
    /\ answer' = [answer EXCEPT ![r] = r]
    /\ IF Owns(r)
       THEN /\ cache' = [cache EXCEPT ![ask[r].nonce] =
                                      Complete(ask[r].hash, lease[r], r)]
            /\ kept' = [kept EXCEPT ![r] = now + TTL]
       ELSE UNCHANGED <<cache, kept>>
    /\ UNCHANGED <<now, listVars, ask, got, lease, came>>

(* The run ends, with a result or an error of the tool; both are remembered. *)
Finish(r) ==
    /\ Goto(r, "running", "answered")
    /\ answer' = [answer EXCEPT ![r] = r]
    /\ IF Owns(r)
       THEN /\ cache' = [cache EXCEPT ![ask[r].nonce] =
                                      Complete(ask[r].hash, now + TTL, r)]
            /\ kept' = [kept EXCEPT ![r] = now + TTL]
       ELSE UNCHANGED <<cache, kept>>
    /\ UNCHANGED <<now, listVars, ask, got, lease, came>>

(* Mutant of Drop: the reservation outlives the request.                     *)
DropOnly(r) ==
    /\ Goto(r, "running", "dropped")
    /\ UNCHANGED <<now, listVars, cache, ask, got, lease, answer, historyVars>>

Drop(r) ==
    /\ Goto(r, "running", "dropped")
    /\ cache' = IF Owns(r) THEN [cache EXCEPT ![ask[r].nonce] = Absent] ELSE cache
    /\ UNCHANGED <<now, listVars, ask, got, lease, answer, historyVars>>

Handle(r) ==
    \/ Arrive(r) \/ ReadList(r) \/ StoreList(r) \/ Authenticate(r)
    \/ Begin(r) \/ Finish(r) \/ Drop(r)

Next == Tick \/ WriteList \/ \E r \in Requests : Handle(r)

Spec == Init /\ [][Next]_vars

------------------------------------------------------------------------------
Running(r) == pc[r] = "running"
Live(r) == Running(r) /\ lease[r] > now

(* A nonce has at most one run within its lease, whatever was dropped, taken *)
(* over after a lease expired, or published late                             *)
(* (signed_http_warp.rs:295-364).                                            *)
OneLiveRun ==
    \A r, q \in Requests :
        r # q /\ Live(r) /\ Live(q) => ask[r].nonce # ask[q].nonce

(* A nonce is never refused on behalf of nobody: an entry in flight is the   *)
(* reservation of a request that still runs, so it is answered or dropped,   *)
(* and retries need not wait for the lease (signed_http_warp.rs:350).        *)
NoOrphan ==
    \A n \in Nonces :
        IsInFlight(cache[n]) => \E r \in Requests : Running(r) /\ ask[r].nonce = n /\ Owns(r)

(* An answer was computed for the nonce and the input of the request it is   *)
(* returned to, however late it was published (signed_http_warp.rs:298).     *)
AnswerOfInput ==
    \A r \in Requests :
        pc[r] = "answered" => /\ ask[answer[r]].nonce = ask[r].nonce
                              /\ ask[answer[r]].hash = ask[r].hash

(* Exact-retry response caching (CHANGELOG.md:64): while the answer to a     *)
(* request is to be remembered, and no request with other input has taken    *)
(* the nonce since, the same nonce and input do not run again.               *)
RunOnce ==
    [][\A r, q \in Requests :
         /\ ~Running(r) /\ Running(r)'
         /\ kept[q] > now
         => ask[q].nonce # ask[r].nonce \/ ask[q].hash # ask[r].hash]_vars

(* "Rejects any request signed by a Leader not present in the local          *)
(* allowlist" (config.rs:23): the leader of an accepted request is in a      *)
(* version of the file not older than the request, unless one was not        *)
(* readable. The code does not keep this: the file is read before the lock   *)
(* is taken (signed_http_warp.rs:54), so an older list may be stored last.   *)
Accepted(r) == pc[r] \in {"begin", "running", "conflict", "answered", "dropped"}
LatestAllowlist ==
    \A r \in Requests :
        Accepted(r) => \E v \in came[r]..Len(lists) :
                          lists[v] = None \/ ask[r].leader \in lists[v]
================================================================================
