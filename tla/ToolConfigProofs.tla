--------------------------- MODULE ToolConfigProofs ---------------------------
(***************************************************************************)
(* Proofs about ToolConfig, for any requests, addresses and number of      *)
(* versions of the file.                                                   *)
(***************************************************************************)
EXTENDS ToolConfig, SequenceTheorems, TLAPS

(* A version that is installed, cached, held by a request or about to be     *)
(* installed was in the file, and was not refused when it was read.          *)
Readable(v) == v \in 1..File /\ contents[v] # "bad"

Holding(r) == pc[r] \in {"lookup", "rebuild", "done"}

LoadedReadable == task \in {"stat", "install"} => Readable(loaded)
SawReadable == \A r \in Requests : Holding(r) => saw[r] \in Held /\ Readable(saw[r].version)
InstalledReadable == Readable(config.version) /\ Readable(auth.version) /\ contents[auth.version] = "ok"

ValidInv == TypeOK /\ LoadedReadable /\ SawReadable /\ InstalledReadable

(* The configurations nobody has freed.  Reloads are numbered, so a number    *)
(* tells a configuration; two at one address are the same; and one at the    *)
(* address of the cached runtime is that runtime's own, or was installed two *)
(* reloads after it: when it was allocated, Config still held the one before *)
(* at another address.                                                       *)
Looking(r) == pc[r] \in {"lookup", "rebuild"}
InUse == {config} \cup {saw[r] : r \in {q \in Requests : Looking(q)}}
Numbered(c) == c.nth <= config.nth /\ (c.nth = config.nth => c = config)
InstalledInOrder == Numbered(auth) /\ \A c \in InUse : Numbered(c)
OnePerAddress == \A x, y \in InUse : x.addr = y.addr => x = y
Reused(old, new) == new.addr = old.addr /\ new.addr # Boot /\ old.nth + 2 <= new.nth
ToldByAddress == \A c \in InUse : c.addr = auth.addr => c = auth \/ Reused(auth, c)

FreshInv == ValidInv /\ InstalledInOrder /\ OnePerAddress /\ ToldByAddress /\ StaleOnlyByReuse

LEMMA ValidInit == Init => ValidInv
<1> SUFFICES ASSUME Init PROVE ValidInv
  OBVIOUS
<1>1. contents \in Seq(Contents) /\ Len(contents) = 1 /\ contents[1] = "ok"
  BY DEF Init, Contents
<1>2. 1 \in Versions
  BY ConfigAssumption DEF Versions
<1>3. config \in Held /\ config.version = 1 /\ auth = config
  BY <1>2, ConfigAssumption DEF Init, Held
<1>4. TypeOK
  BY <1>1, <1>2, <1>3 DEF Init, TypeOK, File
<1>5. LoadedReadable /\ SawReadable /\ InstalledReadable
  BY <1>1, <1>3 DEF Init, LoadedReadable, SawReadable, InstalledReadable, Readable, Holding, File
<1>6. QED
  BY <1>4, <1>5 DEF ValidInv

(* A change of the file leaves what was read as it was.                      *)
LEMMA WriteKeeps ==
    ASSUME TypeOK, Write
    PROVE  /\ contents' \in Seq(Contents) /\ File' \in Versions
           /\ File \in 1..File'
           /\ \A v \in 1..File : v \in 1..File' /\ contents'[v] = contents[v]
<1>1. PICK c \in Contents : contents' = Append(contents, c)
  BY DEF Write
<1>2. /\ contents' \in Seq(Contents) /\ Len(contents') = Len(contents) + 1
      /\ \A v \in 1..Len(contents) : contents'[v] = contents[v]
  BY <1>1, AppendProperties DEF TypeOK
<1>3. Len(contents) < MaxVersions /\ Len(contents) \in 1..MaxVersions /\ MaxVersions \in Nat
  BY ConfigAssumption DEF Write, File, TypeOK, Versions
<1>4. QED
  BY <1>2, <1>3 DEF File, Versions

LEMMA ValidNext == ValidInv /\ [Next]_vars => ValidInv'
<1> SUFFICES ASSUME ValidInv, [Next]_vars PROVE ValidInv'
  OBVIOUS
<1> USE DEF ValidInv
<1>0. File \in 1..File /\ File \in Versions
  <2>1. File \in 1..MaxVersions
    BY DEF TypeOK, Versions
  <2>2. QED
    BY <2>1, ConfigAssumption DEF Versions
<1>1. CASE Write
  <2>1. /\ contents' \in Seq(Contents) /\ File' \in Versions
        /\ \A v \in 1..File : v \in 1..File' /\ contents'[v] = contents[v]
    BY <1>1, WriteKeeps
  <2>2. \A v : Readable(v) => Readable(v)'
    BY <2>1 DEF Readable
  <2>3. UNCHANGED <<watching, task, last_modified, loaded, config, auth, pc, saw, used>>
    BY <1>1 DEF Write, requestVars
  <2>4. early' \in BOOLEAN /\ event' \in BOOLEAN /\ missed' \in BOOLEAN
    BY <1>1 DEF Write, TypeOK
  <2>5. TypeOK'
    BY <2>1, <2>3, <2>4 DEF TypeOK
  <2>6. contents'[auth.version] = "ok"
    BY <2>1 DEF InstalledReadable, Readable
  <2>7. LoadedReadable' /\ SawReadable' /\ InstalledReadable'
    BY <2>2, <2>3, <2>6 DEF LoadedReadable, SawReadable, InstalledReadable, Holding, Readable
  <2>8. QED
    BY <2>5, <2>7
<1> DEFINE Rest == LoadedReadable /\ SawReadable /\ InstalledReadable
<1>2. CASE Watch \/ StartTask \/ ReceiveEvent \/ Debounce \/ Poll
  <2>1. /\ UNCHANGED <<contents, loaded, config, auth, pc, saw, used>>
        /\ task' \notin {"stat", "install"} \/ task' = task
    BY <1>2 DEF Watch, StartTask, ReceiveEvent, Debounce, Poll, fileVars, requestVars
  <2>2. Rest'
    BY <2>1 DEF LoadedReadable, SawReadable, InstalledReadable, Readable, Holding, File
  <2>3. TypeOK'
    BY <1>0, <1>2 DEF Watch, StartTask, ReceiveEvent, Debounce, Poll, fileVars, requestVars, TypeOK, File
  <2>4. QED
    BY <2>2, <2>3
<1>3. CASE ReadFile
  <2>1. UNCHANGED <<contents, config, auth, pc, saw, used>>
    BY <1>3 DEF ReadFile, requestVars
  <2>2. LoadedReadable'
    BY <1>0, <1>3, <2>1 DEF ReadFile, LoadedReadable, Readable, File
  <2>3. SawReadable' /\ InstalledReadable'
    BY <2>1 DEF SawReadable, InstalledReadable, Readable, Holding, File
  <2>4. TypeOK'
    BY <1>0, <1>3, <2>1 DEF ReadFile, TypeOK, File
  <2>5. QED
    BY <2>2, <2>3, <2>4
<1>4. CASE StatFile
  <2>1. UNCHANGED <<contents, loaded, config, auth, pc, saw, used>> /\ task = "stat"
    BY <1>4 DEF StatFile, fileVars, requestVars
  <2>2. Rest'
    BY <2>1 DEF LoadedReadable, SawReadable, InstalledReadable, Readable, Holding, File
  <2>3. TypeOK'
    BY <1>0, <1>4, <2>1 DEF StatFile, TypeOK, fileVars, File
  <2>4. QED
    BY <2>2, <2>3
<1>5. CASE Install
  <2>1. UNCHANGED <<contents, loaded, auth, pc, saw, used>> /\ task' = "idle" /\ task = "install"
    BY <1>5 DEF Install, fileVars, requestVars
  <2>2. PICK a \in Free : config' = [version |-> loaded, addr |-> a, nth |-> config.nth + 1]
    BY <1>5 DEF Install
  <2>3. Readable(loaded) /\ a \in Addresses /\ config.nth \in Nat
    BY <2>1 DEF LoadedReadable, Free, TypeOK, Held
  <2>4. loaded \in Versions
    BY <2>3, <1>0, ConfigAssumption DEF Readable, Versions
  <2>5. config' \in Held /\ config'.version = loaded
    BY <2>2, <2>3, <2>4 DEF Held
  <2>6. Rest'
    BY <2>1, <2>3, <2>5 DEF LoadedReadable, SawReadable, InstalledReadable, Readable, Holding, File
  <2>7. TypeOK'
    BY <1>5, <2>1, <2>5 DEF Install, TypeOK, fileVars, File
  <2>8. QED
    BY <2>6, <2>7
<1>6. ASSUME NEW r \in Requests, ReadConfig(r) PROVE ValidInv'
  <2>1. UNCHANGED <<contents, task, loaded, config, auth>>
    BY <1>6 DEF ReadConfig, fileVars, watchVars
  <2>2. \A q \in Requests : Holding(q)' => saw'[q] = config \/ (Holding(q) /\ saw'[q] = saw[q])
    BY <1>6 DEF ReadConfig, TypeOK, Holding
  <2>3. Rest'
    BY <2>1, <2>2 DEF LoadedReadable, SawReadable, InstalledReadable, Readable, File, TypeOK
  <2>4. TypeOK'
    BY <1>6 DEF ReadConfig, TypeOK, fileVars, watchVars, File
  <2>5. QED
    BY <2>3, <2>4
<1>7. ASSUME NEW r \in Requests, Lookup(r) PROVE ValidInv'
  <2>1. UNCHANGED <<contents, task, loaded, config, auth, saw>>
    BY <1>7 DEF Lookup, fileVars, watchVars
  <2>2. \A q \in Requests : Holding(q)' => Holding(q)
    BY <1>7 DEF Lookup, TypeOK, Holding
  <2>3. Rest'
    BY <2>1, <2>2 DEF LoadedReadable, SawReadable, InstalledReadable, Readable, File
  <2>4. auth \in Held
    BY DEF TypeOK
  <2>5. TypeOK'
    BY <1>7, <2>4 DEF Lookup, TypeOK, fileVars, watchVars, File
  <2>6. QED
    BY <2>3, <2>5
<1>8. ASSUME NEW r \in Requests, Rebuild(r) PROVE ValidInv'
  <2>1. UNCHANGED <<contents, task, loaded, config, saw>>
    BY <1>8 DEF Rebuild, fileVars, watchVars
  <2>2. \A q \in Requests : Holding(q)' => Holding(q)
    BY <1>8 DEF Rebuild, TypeOK, Holding
  <2>3. saw[r] \in Held /\ Readable(saw[r].version)
    BY <1>8 DEF Rebuild, SawReadable, Holding
  <2>4. auth' = auth \/ (auth' = saw[r] /\ contents[saw[r].version] = "ok")
    BY <1>8 DEF Rebuild
  <2>5. auth' \in Held
    BY <2>3, <2>4 DEF TypeOK
  <2>6. Rest'
    BY <2>1, <2>2, <2>3, <2>4 DEF LoadedReadable, SawReadable, InstalledReadable, Readable, File
  <2>7. TypeOK'
    BY <1>8, <2>5 DEF Rebuild, TypeOK, fileVars, watchVars, File
  <2>8. QED
    BY <2>6, <2>7
<1>9. CASE UNCHANGED vars
  BY <1>9 DEF vars, fileVars, watchVars, requestVars, TypeOK, LoadedReadable, SawReadable,
              InstalledReadable, Readable, Holding, File
<1>10. QED
  BY <1>1, <1>2, <1>3, <1>4, <1>5, <1>6, <1>7, <1>8, <1>9 DEF Next, Reload, Current

(* The types of the file, the reload task and the requests.                  *)
THEOREM TypeCorrect == Spec => []TypeOK
<1>1. ValidInv => TypeOK
  BY DEF ValidInv
<1>2. Spec => []ValidInv
  BY ValidInit, ValidNext, PTL DEF Spec
<1>3. QED
  BY <1>1, <1>2, PTL

(* Whatever is written to the file, a request runs under a version that was  *)
(* complete, valid and knows the tool's key (config.rs:462).                 *)
THEOREM ConfigsAreValid == Spec => []OnlyValidConfigs
<1>1. ValidInv => OnlyValidConfigs
  BY DEF ValidInv, InstalledReadable, Readable, OnlyValidConfigs
<1>2. Spec => []ValidInv
  BY ValidInit, ValidNext, PTL DEF Spec
<1>3. QED
  BY <1>1, <1>2, PTL

LEMMA FreshInit == Init => FreshInv
<1> SUFFICES ASSUME Init PROVE FreshInv
  OBVIOUS
<1>1. InUse = {config} /\ auth = config /\ config.nth = 0
  BY DEF Init, InUse, Looking
<1>2. InstalledInOrder /\ OnePerAddress /\ ToldByAddress /\ StaleOnlyByReuse
  BY <1>1 DEF Init, InstalledInOrder, Numbered, OnePerAddress, ToldByAddress, StaleOnlyByReuse
<1>3. QED
  BY <1>2, ValidInit DEF FreshInv

(* Contents that were read stay what they are, so what a finished request    *)
(* got stays what it was; only Install brings an address into use.           *)
LEMMA FreshNext == FreshInv /\ [Next]_vars => FreshInv'
<1> SUFFICES ASSUME FreshInv, [Next]_vars PROVE FreshInv'
  OBVIOUS
<1>v. ValidInv /\ ValidInv'
  BY ValidNext DEF FreshInv
<1>o. InstalledInOrder /\ OnePerAddress /\ ToldByAddress /\ StaleOnlyByReuse
  BY DEF FreshInv
<1> DEFINE Told == InstalledInOrder /\ OnePerAddress /\ ToldByAddress
<1>u. ASSUME InUse' \subseteq InUse, UNCHANGED <<config, auth>> PROVE Told'
  BY <1>o, <1>u DEF InstalledInOrder, Numbered, OnePerAddress, ToldByAddress, Reused
<1>t. /\ config \in Held /\ auth \in Held
      /\ \A r \in Requests : Looking(r) => saw[r] \in Held /\ saw[r] \in InUse
  BY <1>v DEF ValidInv, TypeOK, SawReadable, Holding, Looking, InUse
<1>1. CASE Write
  <2>1. \A v \in 1..File : contents'[v] = contents[v]
    BY <1>v, <1>1, WriteKeeps DEF ValidInv
  <2>2. UNCHANGED <<config, auth, pc, saw, used>>
    BY <1>1 DEF Write, requestVars
  <2>3. Told'
    BY <1>u, <2>2 DEF InUse, Looking
  <2>4. \A r \in Requests : pc[r] = "done" => saw[r].version \in 1..File
    BY <1>v DEF ValidInv, SawReadable, Holding, Readable
  <2>5. StaleOnlyByReuse'
    BY <1>o, <2>1, <2>2, <2>4 DEF StaleOnlyByReuse
  <2>6. QED
    BY <1>v, <2>3, <2>5 DEF FreshInv
<1>2. CASE Watch \/ StartTask \/ ReceiveEvent \/ Debounce \/ Poll \/ ReadFile \/ StatFile
  <2>1. UNCHANGED <<contents, config, auth, pc, saw, used>>
    BY <1>2 DEF Watch, StartTask, ReceiveEvent, Debounce, Poll, ReadFile, StatFile, fileVars, requestVars
  <2>2. Told'
    BY <1>u, <2>1 DEF InUse, Looking
  <2>3. QED
    BY <1>v, <1>o, <2>1, <2>2 DEF FreshInv, StaleOnlyByReuse
<1>3. CASE Install
  <2>1. UNCHANGED <<contents, auth, pc, saw, used>>
    BY <1>3 DEF Install, fileVars, requestVars
  <2>2. PICK a \in Free : config' = [version |-> loaded, addr |-> a, nth |-> config.nth + 1]
    BY <1>3 DEF Install
  <2>3. a # Boot /\ \A x \in InUse : x.addr # a
    BY <2>2 DEF Free, Alive, InUse, Looking
  <2>4. InUse' \subseteq InUse \cup {config'} /\ config'.addr = a /\ config'.nth = config.nth + 1
    BY <2>1, <2>2 DEF InUse, Looking
  <2>5. auth.nth \in Nat /\ config.nth \in Nat /\ \A c \in InUse : c.nth \in Nat
    BY <1>t DEF Held, InUse
  <2>6. InstalledInOrder'
    <3>1. Numbered(auth)'
      BY <1>o, <2>1, <2>4, <2>5 DEF InstalledInOrder, Numbered
    <3>2. ASSUME NEW c \in InUse' PROVE c.nth <= config'.nth /\ (c.nth = config'.nth => c = config')
      BY <1>o, <2>4, <2>5, <3>2 DEF InstalledInOrder, Numbered
    <3>3. QED
      BY <3>1, <3>2 DEF InstalledInOrder, Numbered
  <2>7. OnePerAddress'
    BY <1>o, <2>3, <2>4 DEF OnePerAddress
  <2>8. config'.addr = auth.addr => Reused(auth, config')
    <3>1. config \in InUse
      BY DEF InUse
    <3>2. auth.addr = a => auth.nth + 1 <= config.nth
      BY <1>o, <2>3, <2>5, <3>1 DEF InstalledInOrder, Numbered
    <3>3. QED
      BY <2>3, <2>4, <2>5, <3>2 DEF Reused
  <2>9. ToldByAddress'
    BY <1>o, <2>1, <2>4, <2>8 DEF ToldByAddress, Reused
  <2>10. StaleOnlyByReuse'
    BY <1>o, <2>1 DEF StaleOnlyByReuse
  <2>11. QED
    BY <1>v, <2>6, <2>7, <2>9, <2>10 DEF FreshInv
<1>4. ASSUME NEW r \in Requests, ReadConfig(r) PROVE FreshInv'
  <2>1. UNCHANGED <<contents, config, auth, used>>
    BY <1>4 DEF ReadConfig, fileVars, watchVars
  <2>2. \A q \in Requests : Looking(q)' => saw'[q] = config \/ (Looking(q) /\ saw'[q] = saw[q])
    BY <1>v, <1>4 DEF ReadConfig, ValidInv, TypeOK, Looking
  <2>3. Told'
    BY <1>u, <2>1, <2>2 DEF InUse
  <2>4. \A q \in Requests : pc'[q] = "done" => pc[q] = "done" /\ saw'[q] = saw[q]
    BY <1>v, <1>4 DEF ReadConfig, ValidInv, TypeOK
  <2>5. StaleOnlyByReuse'
    BY <1>o, <2>1, <2>4 DEF StaleOnlyByReuse
  <2>6. QED
    BY <1>v, <2>3, <2>5 DEF FreshInv
<1>5. ASSUME NEW r \in Requests, Lookup(r) PROVE FreshInv'
  <2>1. UNCHANGED <<contents, config, auth, saw>> /\ Looking(r)
    BY <1>5 DEF Lookup, fileVars, watchVars, Looking
  <2>2. \A q \in Requests : Looking(q)' => Looking(q)
    BY <1>v, <1>5 DEF Lookup, ValidInv, TypeOK, Looking
  <2>3. Told'
    BY <1>u, <2>1, <2>2 DEF InUse
  <2>4. auth.addr = saw[r].addr => auth.nth >= saw[r].nth \/ Reused(auth, saw[r])
    BY <1>o, <1>t, <2>1 DEF ToldByAddress, Held
  <2>5. \A q \in Requests : pc'[q] = "done" =>
           \/ pc[q] = "done" /\ used'[q] = used[q]
           \/ q = r /\ auth.addr = saw[r].addr /\ used'[q] = auth
    BY <1>v, <1>5 DEF Lookup, ValidInv, TypeOK
  <2>6. StaleOnlyByReuse'
    BY <1>o, <2>1, <2>4, <2>5 DEF StaleOnlyByReuse, Reused
  <2>7. QED
    BY <1>v, <2>3, <2>6 DEF FreshInv
<1>6. ASSUME NEW r \in Requests, Rebuild(r) PROVE FreshInv'
  <2>1. UNCHANGED <<contents, config, saw>> /\ Looking(r) /\ Holding(r)
    BY <1>6 DEF Rebuild, fileVars, watchVars, Looking, Holding
  <2>2. \A q \in Requests : Looking(q)' => Looking(q)
    BY <1>v, <1>6 DEF Rebuild, ValidInv, TypeOK, Looking
  <2>3. auth' \in {auth, saw[r]} /\ saw[r] \in InUse /\ InUse' \subseteq InUse
    BY <1>6, <1>t, <2>1, <2>2 DEF Rebuild, InUse
  <2>4. Told'
    <3>1. InstalledInOrder' /\ OnePerAddress'
      BY <1>o, <2>1, <2>3 DEF InstalledInOrder, Numbered, OnePerAddress
    <3>2. ToldByAddress'
      BY <1>o, <2>1, <2>3 DEF ToldByAddress, OnePerAddress, Reused
    <3>3. QED
      BY <3>1, <3>2
  <2>5. saw[r].nth \in Nat /\ contents[saw[r].version] \in {"ok", "nokey"}
    <3>1. Readable(saw[r].version)
      BY <1>v, <2>1 DEF ValidInv, SawReadable
    <3>2. contents[saw[r].version] \in Contents
      BY <1>v, <3>1 DEF ValidInv, TypeOK, Readable, File
    <3>3. QED
      BY <1>t, <2>1, <3>1, <3>2 DEF Readable, Contents, Held
  <2>6. \/ auth'.nth >= saw[r].nth \/ Reused(auth', saw[r])
        \/ contents[saw[r].version] = "nokey"
    <3>1. CASE auth.addr = saw[r].addr
      <4>1. auth' = auth
        BY <1>6, <3>1 DEF Rebuild
      <4>2. QED
        BY <1>o, <2>3, <2>5, <3>1, <4>1 DEF ToldByAddress
    <3>2. CASE auth.addr # saw[r].addr
      BY <1>6, <2>5, <3>2 DEF Rebuild
    <3>3. QED
      BY <3>1, <3>2
  <2>7. \A q \in Requests : pc'[q] = "done" =>
           \/ pc[q] = "done" /\ used'[q] = used[q]
           \/ q = r /\ used'[q] = auth'
    BY <1>v, <1>6 DEF Rebuild, ValidInv, TypeOK
  <2>8. StaleOnlyByReuse'
    BY <1>o, <2>1, <2>6, <2>7 DEF StaleOnlyByReuse, Reused
  <2>9. QED
    BY <1>v, <2>4, <2>8 DEF FreshInv
<1>7. CASE UNCHANGED vars
  <2>1. Told'
    BY <1>u, <1>7 DEF vars, watchVars, requestVars, InUse, Looking
  <2>2. QED
    BY <1>v, <1>o, <1>7, <2>1 DEF vars, fileVars, requestVars, FreshInv, StaleOnlyByReuse
<1>8. QED
  BY <1>1, <1>2, <1>3, <1>4, <1>5, <1>6, <1>7 DEF Next, Reload, Current

(* Wherever the allocator places configurations, a request gets the runtime  *)
(* of an older one only if its own has no key for the tool or was put where  *)
(* the older one lay, at least two reloads later and never over the initial  *)
(* one (config.rs:466, signed_http_warp.rs:146).                             *)
THEOREM StalenessNeedsReuse == Spec => []StaleOnlyByReuse
<1>1. FreshInv => StaleOnlyByReuse
  BY DEF FreshInv
<1>2. Spec => []FreshInv
  BY FreshInit, FreshNext, PTL DEF Spec
<1>3. QED
  BY <1>1, <1>2, PTL
================================================================================
