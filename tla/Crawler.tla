------------------------------- MODULE Crawler -------------------------------
(* How the crawler (src/sdk/src/nexus/crawler.rs) reads what hangs on an      *)
(* object or an address: it lists the entries page by page, unlocks the       *)
(* client after every page, and most methods then fetch the listed objects    *)
(* in one batch.  The table changes between any two requests.                 *)
EXTENDS Naturals, Sequences, FiniteSets

CONSTANTS
    Fields,   \* entries have the IDs 1..Fields, listed in this order
    Wanted,   \* the ID of the entry that methods for one key look for
    MaxEdits  \* bound on the changes of the table

ASSUME CrawlerAssumption == Fields \in Nat /\ Wanted \in 1..Fields /\ MaxEdits \in Nat

VARIABLES
    fieldKind,  \* of every ID: "ours", "alien" (its name or type does not decode),
                \* or "twin" (its name decodes, to the wanted key, its value does not)
    fieldTable, \* the entry under every ID
    strays,     \* children that were taken off the table and still exist
    crawl,      \* the call
    wasThere,   \* history: the entries that were in the table since it began
    stayed,     \* history: the IDs whose entry stayed since
    edits       \* the changes so far

crawlVars == <<fieldKind, fieldTable, strays, crawl, wasThere, stayed, edits>>

Ids == 1..Fields
NoField == [child |-> 0, val |-> 0]

(* An entry has a child (of a dynamic field: itself) and contents.            *)
TableEntries(t) == {<<i, t[i]>> : i \in {j \in Ids : t[j] # NoField}}
Present(t) == {i \in Ids : t[i] # NoField}
Ours == {i \in Ids : fieldKind[i] = "ours"}

NoCrawl == [phase |-> "idle"]
FieldKinds ==
    {[i \in Ids |-> "ours"]} \cup
    {[[i \in Ids |-> "ours"] EXCEPT ![j] = k] : j \in Ids \ {Wanted}, k \in {"alien", "twin"}}

CrawlInit ==
    /\ fieldKind \in FieldKinds
    /\ fieldTable \in [Ids -> {NoField, [child |-> 1, val |-> 1]}]
    /\ strays = {} /\ crawl = NoCrawl /\ wasThere = {} /\ stayed = {} /\ edits = 0
-----------------------------------------------------------------------------
(* The methods: what they list, what they do with an entry that is not theirs *)
(* (fail, skip it, or keep it), and what they fetch afterwards.               *)

Way(lists, alien, fetch) ==
    [lists |-> lists, alien |-> alien, fetch |-> fetch,
     one |-> FALSE, suffix |-> FALSE, sized |-> FALSE]

get_dynamic_fields == Way("names", "fail", "fields")
get_dynamic_field_refs_matching_key == Way("names", "fail", "nothing")
get_dynamic_field_object_values == Way("ids", "keep", "fields")
get_dynamic_field_values == Way("values", "fail", "nothing")
get_dynamic_object_fields == Way("names", "fail", "children")
get_dynamic_object_field == [get_dynamic_object_fields EXCEPT !.one = TRUE]
get_dynamic_object_field_refs_matching_key == Way("names", "fail", "nothing")
get_dynamic_object_field_child_ids == Way("ids", "keep", "nothing")
get_owned_objects == Way("values", "fail", "nothing")
fetch_coins_for_address_by_type == Way("values", "skip", "nothing")

(* One key among unrelated ones, told apart by the type of the value if it is *)
(* given; the listing ends where it is found.                                 *)
get_optional_dynamic_field_matching_value_type ==
    [Way("names", "skip", "found") EXCEPT !.suffix = TRUE]
get_optional_dynamic_field ==
    [get_optional_dynamic_field_matching_value_type EXCEPT !.suffix = FALSE]

(* A vector has its entries under the indices below its size, which the       *)
(* caller read before; an empty one is not read.                              *)
get_table_vec == [Way("names", "fail", "fields") EXCEPT !.sized = TRUE]

CrawlMethods ==
    {get_dynamic_fields, get_dynamic_field_refs_matching_key, get_dynamic_field_object_values,
     get_dynamic_field_values, get_dynamic_object_fields, get_dynamic_object_field,
     get_dynamic_object_field_refs_matching_key, get_dynamic_object_field_child_ids,
     get_owned_objects, fetch_coins_for_address_by_type,
     get_optional_dynamic_field_matching_value_type, get_optional_dynamic_field, get_table_vec}

Turn(c) == crawl' = c /\ UNCHANGED <<fieldKind, fieldTable, strays, wasThere, stayed, edits>>

BeginCrawl(m) ==
    /\ crawl = NoCrawl
    /\ m.sized => Ours = Ids /\ \E n \in 0..Fields : Present(fieldTable) = 1..n
    /\ crawl' = IF m.sized /\ Present(fieldTable) = {}
                THEN [phase |-> "ok", method |-> m, out |-> <<>>, before |-> {}]
                ELSE [phase |-> "list", method |-> m, token |-> 0, refs |-> <<>>,
                      before |-> Present(fieldTable), since |-> edits]
    /\ wasThere' = TableEntries(fieldTable)
    /\ stayed' = Present(fieldTable)
    /\ UNCHANGED <<fieldKind, fieldTable, strays, edits>>

CrawlLists == crawl.phase = "list"
CrawlFetches == crawl.phase = "fetch"
CrawlFailed == [crawl EXCEPT !.phase = "failed"]
Ok(out) == [phase |-> "ok", method |-> crawl.method, out |-> out, before |-> crawl.before]
-----------------------------------------------------------------------------
(* A page holds the entries after the last one up to some ID, and the last    *)
(* page goes to the end.                                                      *)
PageOf(from, to) == {i \in from + 1..to : fieldTable[i] # NoField}

Decodes(i) == fieldKind[i] = "ours" \/ (fieldKind[i] = "twin" /\ crawl.method.lists = "names")

(* References to listed entries, with what the page says of them.             *)
Kept(page) == IF crawl.method.alien = "keep" THEN page ELSE {i \in page : Decodes(i)}
InOrder(S) ==
    {ids \in [1..Cardinality(S) -> S] :
        /\ {ids[n] : n \in DOMAIN ids} = S
        /\ \A m, n \in DOMAIN ids : m < n => ids[m] < ids[n]}
FieldRefs(ids) == [n \in DOMAIN ids |-> [id |-> ids[n], entry |-> fieldTable[ids[n]]]]

(* The wanted key, or a twin of it unless the type of the value is compared.  *)
Matches(i) ==
    /\ crawl.method.fetch = "found"
    /\ i = Wanted \/ (fieldKind[i] = "twin" /\ ~crawl.method.suffix)
FirstMatch(page) == {i \in page : Matches(i) /\ \A j \in page : Matches(j) => i <= j}

ById(refs) ==
    [i \in {refs[n].id : n \in DOMAIN refs} |->
        refs[CHOOSE n \in DOMAIN refs : refs[n].id = i].entry]

(* What follows the last page: the answer of a method that fetches nothing,   *)
(* none for a key that was not found; an index beyond the size of a vector is *)
(* an error.                                                                  *)
OutOfBounds(c) ==
    \E n \in DOMAIN c.refs : ~\E size \in Ids : c.before = 1..size /\ c.refs[n].id <= size

AfterListing(c) ==
    IF c.method.sized /\ OutOfBounds(c) THEN CrawlFailed
    ELSE IF c.method.fetch = "found" THEN Ok(<<>>)
    ELSE IF c.method.fetch = "nothing" THEN Ok(ById(c.refs))
    ELSE [c EXCEPT !.phase = "fetch"]

NextPage(ids, to) == [crawl EXCEPT !.token = to, !.refs = @ \o FieldRefs(ids)]

PageRead(page, to) ==
    IF crawl.method.alien = "fail" /\ \E i \in page : ~Decodes(i) THEN Turn(CrawlFailed)
    ELSE IF \E i \in page : Matches(i)
    THEN \E i \in FirstMatch(page) :
            Turn([crawl EXCEPT !.refs = FieldRefs(<<i>>), !.phase = "fetch"])
    ELSE \E ids \in InOrder(Kept(page)) :
            Turn(IF to = Fields THEN AfterListing(NextPage(ids, to)) ELSE NextPage(ids, to))

ReadPage ==
    CrawlLists /\ \E to \in crawl.token + 1..Fields : PageRead(PageOf(crawl.token, to), to)

(* A fetch by ID finds the object under it now: of a field the present one,   *)
(* of a child wherever the child is.                                          *)
FoundUnder(ref) ==
    IF crawl.method.fetch = "children"
    THEN {e \in {fieldTable[ref.id]} \cup {s[2] : s \in {x \in strays : x[1] = ref.id}} :
            e.child = ref.entry.child}
    ELSE {fieldTable[ref.id]} \ {NoField}
Missing(ref) == FoundUnder(ref) = {}
FoundObject(ref) == CHOOSE e \in FoundUnder(ref) : TRUE

(* Mutant of Objects: objects that are gone are left out of the answer.       *)
ObjectsThatExist(refs) ==
    LET found == SelectSeq(refs, LAMBDA ref : ~Missing(ref))
    IN [n \in DOMAIN found |-> FoundObject(found[n])]

(* The objects of a batch, in the order of the request; one that is gone is   *)
(* an error.                                                                  *)
Objects(refs) ==
    IF \E n \in DOMAIN refs : Missing(refs[n]) THEN <<NoField>>
    ELSE [n \in DOMAIN refs |-> FoundObject(refs[n])]

(* Children are matched with the listed names by position, fields by the ID   *)
(* that the answer carries.                                                   *)
ZipNames(refs, objects) ==
    LET size == IF Len(refs) < Len(objects) THEN Len(refs) ELSE Len(objects)
    IN ById([n \in 1..size |-> [id |-> refs[n].id, entry |-> objects[n]]])

(* The answer from what was fetched: an index that is missing, or a key that  *)
(* is not among the children, is an error.                                    *)
Answered(out) ==
    IF \/ crawl.method.sized /\ DOMAIN out # crawl.before
       \/ crawl.method.one /\ Wanted \notin DOMAIN out
    THEN CrawlFailed
    ELSE Ok(IF crawl.method.one THEN [i \in {Wanted} |-> out[i]] ELSE out)

FetchListed ==
    /\ CrawlFetches
    /\ LET objects == Objects(crawl.refs)
       IN Turn(IF \/ \E n \in DOMAIN objects : objects[n] = NoField
                  \/ \E n \in DOMAIN crawl.refs : fieldKind[crawl.refs[n].id] # "ours"
               THEN CrawlFailed
               ELSE Answered(ZipNames(crawl.refs, objects)))

(* Every request may fail, or an answer lack what was asked for.              *)
CrawlRequestFails ==
    (CrawlLists \/ CrawlFetches) /\ Turn([CrawlFailed EXCEPT !.since = MaxEdits + 1])

(* The caller has its answer; the next call starts from what is there.        *)
CrawlReturns ==
    /\ crawl.phase \in {"ok", "failed"}
    /\ crawl' = NoCrawl /\ wasThere' = {} /\ stayed' = {} /\ strays' = {}
    /\ UNCHANGED <<fieldKind, fieldTable, edits>>
-----------------------------------------------------------------------------
(* Others change the table.                                                   *)
Change(i, entry) ==
    /\ edits < MaxEdits /\ (CrawlLists \/ CrawlFetches)
    /\ fieldTable' = [fieldTable EXCEPT ![i] = entry]
    /\ wasThere' = wasThere \cup TableEntries(fieldTable')
    /\ edits' = edits + 1
    /\ UNCHANGED <<fieldKind, crawl>>

AddField(i) ==
    /\ fieldTable[i] = NoField
    /\ Change(i, [child |-> edits + 2, val |-> edits + 2])
    /\ UNCHANGED <<strays, stayed>>
SetField(i) ==
    /\ fieldTable[i] # NoField
    /\ Change(i, [fieldTable[i] EXCEPT !.val = edits + 2])
    /\ UNCHANGED <<strays, stayed>>
RemoveField(i) ==
    /\ fieldTable[i] # NoField
    /\ Change(i, NoField)
    /\ strays' \in {strays, strays \cup {<<i, fieldTable[i]>>}}
    /\ stayed' = stayed \ {i}

Others == \E i \in Ids : AddField(i) \/ SetField(i) \/ RemoveField(i)

CrawlNext ==
    \/ \E m \in CrawlMethods : BeginCrawl(m)
    \/ ReadPage \/ FetchListed \/ CrawlRequestFails \/ CrawlReturns
    \/ Others
-----------------------------------------------------------------------------
CrawlTypeOK ==
    /\ fieldKind \in [Ids -> {"ours", "alien", "twin"}]
    /\ fieldTable \in [Ids -> [child : Nat, val : Nat]]
    /\ strays \subseteq Ids \X [child : Nat, val : Nat]
    /\ crawl.phase \in {"idle", "list", "fetch", "ok", "failed"}
    /\ wasThere \subseteq Ids \X [child : Nat, val : Nat]
    /\ stayed \subseteq Ids
    /\ edits \in 0..MaxEdits

(* Every entry of an answer was in the table at some moment of the call, under *)
(* its own name: a listing that is read in pieces and fetched later never     *)
(* gives a name the value of another.  Each entry has its own moment: of two   *)
(* changes that follow each other an answer may have the second and lack the   *)
(* first, so a listing of several requests need not be the table as it was at  *)
(* any time, unless at most one change was made.                               *)
NothingInvented ==
    \A i \in DOMAIN crawl.out : <<i, crawl.out[i]>> \in wasThere

(* And it lacks nothing that stayed: all entries of a listing, the entry of a *)
(* key, the elements of a vector without a hole.                              *)
Sought(m) == IF m.one \/ m.fetch = "found" THEN {Wanted} ELSE Ours
NothingMissed ==
    /\ stayed \cap Sought(crawl.method) \subseteq DOMAIN crawl.out
    /\ crawl.method.sized => DOMAIN crawl.out = crawl.before

(* A call fails for a reason: a request failed, the table changed meanwhile,  *)
(* something on it is not what the method expects (one that skips what is not *)
(* its own is only disturbed by a key it cannot tell apart), or the key is    *)
(* not there.  Two methods that are documented to keep only the keys that     *)
(* decode (crawler.rs:594, 855) fail on the others all the same (1107): the    *)
(* property names them, and fails for a further one that should skip.         *)
FailsThoughDocumentedToSkip ==
    {get_dynamic_field_refs_matching_key, get_dynamic_object_field_refs_matching_key}

Disturbs(i) ==
    IF crawl.method \in FailsThoughDocumentedToSkip THEN fieldKind[i] = "alien"
    ELSE IF crawl.method.alien = "skip" THEN fieldKind[i] = "twin" /\ Matches(i)
    ELSE fieldKind[i] # "ours"

FailsForCause ==
    \/ crawl.since < edits \/ crawl.since > MaxEdits
    \/ \E i \in Present(fieldTable) : Disturbs(i)
    \/ crawl.method.one /\ Wanted \notin stayed

(* The answers of all methods, for every way the table changes under them:    *)
(* nothing in them that never was, nothing missing that always was.           *)
CrawlsTrue ==
    /\ crawl.phase = "ok" => NothingInvented /\ NothingMissed
    /\ crawl.phase = "failed" => FailsForCause
=============================================================================
