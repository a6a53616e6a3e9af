------------------------------- MODULE Compare -------------------------------
(***************************************************************************)
(* Comparisons: trpc/routers/comparisons.ts of the server over core's      *)
(* compare/comparison-engine.ts, retrieval/planner.ts and the content-     *)
(* addressed snapshot store.  A comparison lists two sources, takes what   *)
(* it can from the store by (source, key, date), fetches and stores the    *)
(* rest, and compares; the sources change while it does, and comparisons   *)
(* and deployments share the store.                                        *)
(*                                                                         *)
(* Each action is a stretch of the handler between awaits, a tRPC call, or *)
(* a source answering.  A content stands for its canonical form, which is  *)
(* what is stored and hashed.  Of a Profile or PermissionSet an org        *)
(* returns only the grants on what the same request asks for.              *)
(***************************************************************************)
EXTENDS Naturals, FiniteSets

CONSTANTS
    Comparisons,            \* comparison ids
    Sources, Orgs,          \* connections: what `sourceId' names, and which are orgs
    Keys,                   \* component keys, ...
    Binary, Text,           \* ... of types with binary or text bodies
    Profiles, Paired,       \* ... Profiles, and what their grants are on
    Dateless,               \* ... listed with lastModifiedDateUnknown
    Bodies, Rests, Levels,  \* what a content consists of
    Absent,                 \* what a source without the component holds
    Nothing,                \* no value: not listed, not cached, not read, not granted
    Possible,               \* what a source may hold of each component
    MaxEdits, MaxFaults, MaxCaptures    \* bounds

Verdicts == {"new", "changed", "deleted", "identical"}

(* `rest' is hashed and not compared (an attribute, a tag no differ reads); *)
(* `grants' is the grid of a Profile, Nothing where it has no entry.        *)
Contents == [body : Bodies, rest : Rests, grants : [Paired -> Levels \union {Nothing}]]
States == Contents \union {Absent}

ASSUME SourcesAssumption == Orgs \subseteq Sources
ASSUME KeysAssumption ==
    /\ IsFiniteSet(Keys)
    /\ Binary \union Text \union Profiles \union Paired \union Dateless \subseteq Keys
    /\ Profiles \intersect (Binary \union Text) = {}
ASSUME ValuesAssumption ==
    Absent \notin Contents /\ Nothing \notin Contents \union {Absent} \union Nat \union Verdicts
ASSUME PossibleAssumption == Possible \in [Keys -> SUBSET States]
ASSUME BoundsAssumption == MaxEdits \in Nat /\ MaxFaults \in Nat /\ MaxCaptures \in Nat

VARIABLES
    held, date,             \* each source: contents, and when they last changed
    refs,                   \* component_snapshot_refs, the latest capture of each
    blobs,                  \* component_snapshots, by content
    captured,               \* what deployments have read and not yet stored
    looked,                 \* hits + misses of the store's stats()
    edits, faults, captures,
    row,                    \* comparisons.status, "absent" before the insert
    job, aborted,           \* its job, and the jobs whose signal is aborted
    source,                 \* the connection on each side
    pc, side,               \* the await the handler is at, for which side
    listed,                 \* the inventory: dates, or Nothing
    hit,                    \* contents the store had
    toFetch, tree,          \* keys still to fetch, and the chunk just read
    fresh,                  \* contents fetched
    base, reported,         \* statsBefore, and the total the row reports
    verdict,                \* diff_results.status
    unreadable,             \* diff_results.unreadable
    seen,                   \* what each side held since it was listed
    together,               \* for a Profile, what it was read in one request with
    lost                    \* keys a source failed to list or read, or read in pieces

sourceVars == <<held, date, edits>>
storeVars == <<refs, blobs, captured, looked, captures>>
rowVars == <<row, job, aborted, source, base, reported, verdict, unreadable>>
runVars == <<pc, side, listed, hit, toFetch, tree, fresh>>
noteVars == <<seen, together, lost>>
vars == <<sourceVars, storeVars, rowVars, runVars, noteVars, faults>>

Sides == {"left", "right"}
Terminal == {"succeeded", "failed", "canceled"}
NoValues == [k \in Keys |-> Nothing]
OnSides(v) == [c \in Comparisons |-> [s \in Sides |-> v]]

TypeOK ==
    /\ held \in [Sources -> [Keys -> States]]
    /\ date \in [Sources -> [Keys -> Nat]]
    /\ refs \union captured \subseteq
           [source : Sources, key : Keys, date : Nat, content : Contents]
    /\ blobs \subseteq Contents
    /\ looked \in Nat /\ edits \in Nat /\ faults \in Nat /\ captures \in Nat
    /\ row \in [Comparisons -> {"absent", "running", "completed", "failed", "canceled"}]
    /\ job \in [Comparisons -> Terminal \union {"absent", "running"}]
    /\ aborted \in SUBSET Comparisons
    /\ source \in [Comparisons -> [Sides -> Sources \union {Nothing}]]
    /\ pc \in [Comparisons -> {"none", "list", "plan", "fetch", "store", "next", "done"}]
    /\ side \in [Comparisons -> Sides]
    /\ listed \in [Comparisons -> [Sides -> [Keys -> Nat \union {Nothing}]]]
    /\ hit \in [Comparisons -> [Sides -> [Keys -> Contents \union {Nothing}]]]
    /\ toFetch \in [Comparisons -> [Sides -> SUBSET Keys]]
    /\ tree \in [Comparisons -> [Keys -> Contents \union {Nothing}]]
    /\ fresh \in [Comparisons -> [Sides -> [Keys -> Contents \union {Nothing}]]]
    /\ base \in [Comparisons -> Nat] /\ reported \in [Comparisons -> Nat]
    /\ verdict \in [Comparisons -> [Keys -> Verdicts \union {Nothing}]]
    /\ unreadable \in [Comparisons -> SUBSET Keys]
    /\ seen \in [Comparisons -> [Sides -> [Keys -> SUBSET States]]]
    /\ together \in [Comparisons -> [Sides -> [Keys -> SUBSET Paired]]]
    /\ lost \in [Comparisons -> SUBSET Keys]

Init ==
    /\ held \in [Sources -> {h \in [Keys -> States] : \A k \in Keys : h[k] \in Possible[k]}]
    /\ date = [s \in Sources |-> [k \in Keys |-> 0]]
    /\ refs = {} /\ blobs = {} /\ captured = {}
    /\ looked = 0 /\ edits = 0 /\ faults = 0 /\ captures = 0
    /\ row = [c \in Comparisons |-> "absent"]
    /\ job = [c \in Comparisons |-> "absent"]
    /\ aborted = {}
    /\ source = OnSides(Nothing)
    /\ pc = [c \in Comparisons |-> "none"]
    /\ side = [c \in Comparisons |-> "left"]
    /\ listed = OnSides(NoValues)
    /\ hit = OnSides(NoValues)
    /\ toFetch = OnSides({})
    /\ tree = [c \in Comparisons |-> NoValues]
    /\ fresh = OnSides(NoValues)
    /\ base = [c \in Comparisons |-> 0]
    /\ reported = [c \in Comparisons |-> 0]
    /\ verdict = [c \in Comparisons |-> NoValues]
    /\ unreadable = [c \in Comparisons |-> {}]
    /\ seen = OnSides([k \in Keys |-> {}])
    /\ together = OnSides([k \in Keys |-> {}])
    /\ lost = [c \in Comparisons |-> {}]

Goto(c, at, on) ==
    /\ pc' = [pc EXCEPT ![c] = at]
    /\ side' = [side EXCEPT ![c] = on]
Fault == faults < MaxFaults /\ faults' = faults + 1
Here(c) == source[c][side[c]]
Entries(c, s) == {k \in Keys : listed[c][s][k] # Nothing}

(* What a source answers when it is asked for a component among others. *)
Answer(s, k, v, others) ==
    IF s \in Orgs /\ k \in Profiles
    THEN [v EXCEPT !.grants = [p \in Paired |-> IF p \in others THEN @[p] ELSE Nothing]]
    ELSE v

(***************************************************************************)
(* The snapshot store.                                                     *)
(***************************************************************************)

(* The date a source reports: one that could not be resolved reads "",     *)
(* here 0, whatever happens to the component.                              *)
Reported(k, d) == IF k \in Dateless THEN 0 ELSE d

SameRef(r, q) == r.source = q.source /\ r.key = q.key /\ r.date = q.date

(* putMany(): the latest capture of a (source, key, date) is the one that  *)
(* lookups return.                                                         *)
Stored(new) == {r \in refs : \A q \in new : ~SameRef(r, q)} \union new

(* lookupMany() *)
Cached(s, k, d) ==
    LET found == {r \in refs : r.source = s /\ r.key = k /\ r.date = d} IN
    IF found = {} THEN Nothing ELSE (CHOOSE r \in found : TRUE).content

(***************************************************************************)
(* The procedures.                                                         *)
(***************************************************************************)

(* comparisons.start: the row, the job, and the handler up to its first    *)
(* await.  The row's foreign keys keep both connections.                   *)
Start(c, l, r) ==
    /\ row[c] = "absent"
    /\ row' = [row EXCEPT ![c] = "running"]
    /\ job' = [job EXCEPT ![c] = "running"]
    /\ source' = [source EXCEPT ![c] = [s \in Sides |-> IF s = "left" THEN l ELSE r]]
    /\ base' = [base EXCEPT ![c] = looked]
    /\ Goto(c, "list", "left")
    /\ UNCHANGED <<sourceVars, storeVars, aborted, reported, verdict, unreadable,
                   listed, hit, toFetch, tree, fresh, noteVars, faults>>

(* comparisons.cancel: needs a live controller. *)
Cancel(c) ==
    /\ job[c] = "running"
    /\ aborted' = aborted \union {c}
    /\ UNCHANGED <<sourceVars, storeVars, row, job, source, base, reported, verdict,
                   unreadable, runVars, noteVars, faults>>

(***************************************************************************)
(* The handler's ends.                                                     *)
(***************************************************************************)
Forget(c) ==
    /\ pc' = [pc EXCEPT ![c] = "done"]
    /\ aborted' = aborted \ {c}
    /\ tree' = [tree EXCEPT ![c] = NoValues]
    /\ toFetch' = [toFetch EXCEPT ![c] = [s \in Sides |-> {}]]
    /\ hit' = [hit EXCEPT ![c] = [s \in Sides |-> NoValues]]
    /\ fresh' = [fresh EXCEPT ![c] = [s \in Sides |-> NoValues]]
    /\ UNCHANGED <<side, listed, source, base>>

(* An exception inside the try: an AbortError reads canceled. *)
Throws_AbortIsFailure(c, outcome) ==
    /\ row' = [row EXCEPT ![c] = "failed"]
    /\ job' = [job EXCEPT ![c] = outcome]
    /\ Forget(c)
    /\ UNCHANGED <<sourceVars, storeVars, reported, verdict, unreadable, noteVars>>
Throws(c, outcome) ==
    /\ row' = [row EXCEPT ![c] = outcome]
    /\ job' = [job EXCEPT ![c] = outcome]
    /\ Forget(c)
    /\ UNCHANGED <<sourceVars, storeVars, reported, verdict, unreadable, noteVars>>

CallFails(c) ==
    /\ pc[c] \in {"list", "fetch"}
    /\ Fault
    /\ Throws(c, "failed")

(* throwIfAborted() after each inventory, before each chunk and each phase. *)
ThrowsIfAborted(c) ==
    /\ pc[c] \in {"plan", "next"}
    /\ c \in aborted
    /\ Throws(c, "canceled")
    /\ UNCHANGED faults

(***************************************************************************)
(* Planning and fetching, one side after the other.                        *)
(***************************************************************************)

(* inventory(): the source says what it has and when it changed; a listing *)
(* that fails leaves out what it would have returned.                      *)
List(c) ==
    /\ pc[c] = "list"
    /\ LET here == {k \in Keys : held[Here(c)][k] # Absent} IN
       \E gone \in SUBSET here :
          /\ IF gone = {} THEN UNCHANGED faults ELSE Fault
          /\ lost' = [lost EXCEPT ![c] = @ \union gone]
          /\ listed' = [listed EXCEPT ![c][side[c]] =
                [k \in Keys |-> IF k \in here \ gone
                                THEN Reported(k, date[Here(c)][k]) ELSE Nothing]]
    /\ seen' = [seen EXCEPT ![c][side[c]] = [k \in Keys |-> {held[Here(c)][k]}]]
    /\ Goto(c, "plan", side[c])
    /\ UNCHANGED <<sourceVars, storeVars, rowVars, hit, toFetch, tree, fresh, together>>

(* planSource() goes on: entries with a date are looked up, and whatever   *)
(* the store does not have is to be fetched.                               *)
Plan_LooksUpDateless(c) ==
    /\ pc[c] = "plan"
    /\ c \notin aborted
    /\ LET entries == Entries(c, side[c])
           found   == [k \in Keys |-> IF k \in entries
                                      THEN Cached(Here(c), k, listed[c][side[c]][k]) ELSE Nothing]
       IN  /\ hit' = [hit EXCEPT ![c][side[c]] = found]
           /\ toFetch' = [toFetch EXCEPT ![c][side[c]] = {k \in entries : found[k] = Nothing}]
           /\ looked' = looked + Cardinality(entries)
    /\ IF side[c] = "left" THEN Goto(c, "list", "right") ELSE Goto(c, "next", "left")
    /\ UNCHANGED <<sourceVars, refs, blobs, captured, captures, rowVars, listed, tree, fresh, noteVars, faults>>
Plan(c) ==
    /\ pc[c] = "plan"
    /\ c \notin aborted
    /\ LET entries == Entries(c, side[c])
           dated   == entries \ Dateless
           found   == [k \in Keys |-> IF k \in dated
                                      THEN Cached(Here(c), k, listed[c][side[c]][k]) ELSE Nothing]
       IN  /\ hit' = [hit EXCEPT ![c][side[c]] = found]
           /\ toFetch' = [toFetch EXCEPT ![c][side[c]] = {k \in entries : found[k] = Nothing}]
           /\ looked' = looked + Cardinality(dated)
    /\ IF side[c] = "left" THEN Goto(c, "list", "right") ELSE Goto(c, "next", "left")
    /\ UNCHANGED <<sourceVars, refs, blobs, captured, captures, rowVars, listed, tree, fresh, noteVars, faults>>

(* fetchAndCache() asks for the next chunk, of this side or, when it has   *)
(* none, of the other.                                                     *)
NextChunk(c) ==
    /\ pc[c] = "next"
    /\ c \notin aborted
    /\ \E s \in Sides :
          /\ toFetch[c][s] # {}
          /\ s = "right" => toFetch[c]["left"] = {}
          /\ Goto(c, "fetch", s)
    /\ UNCHANGED <<sourceVars, storeVars, rowVars, listed, hit, toFetch, tree, fresh, noteVars, faults>>

(* planMaterializeChunks(): the Profiles still to be fetched come first,   *)
(* with every component of a paired type; the rest comes in any chunks.    *)
Core(c, s) == IF toFetch[c][s] \intersect Profiles = {} THEN {}
              ELSE toFetch[c][s] \intersect (Profiles \union Paired)
Chunks(c, s) == IF Core(c, s) # {} THEN {Core(c, s)} ELSE (SUBSET toFetch[c][s]) \ {{}}

(* materialize(chunk): the source reads; what it cannot read is missing.   *)
(* An org that fails on a chunk is asked again for pieces of it.           *)
Pieces(s, chunk) ==
    LET profiles == chunk \intersect Profiles IN
    IF s \in Orgs THEN [profiles -> SUBSET chunk] ELSE {[k \in profiles |-> chunk]}

Materialize(c) ==
    /\ pc[c] = "fetch"
    /\ \E chunk \in Chunks(c, side[c]) : \E piece \in Pieces(Here(c), chunk) :
       LET there == {k \in chunk : held[Here(c)][k] # Absent}
           apart == {k \in chunk \intersect Profiles : piece[k] # chunk}
       IN  \E gone \in SUBSET there :
          LET read == there \ gone IN
          /\ IF gone = {} /\ apart = {} THEN UNCHANGED faults ELSE Fault
          /\ lost' = [lost EXCEPT ![c] = @ \union gone \union apart]
          /\ tree' = [tree EXCEPT ![c] = [k \in Keys |->
                IF k \in read THEN Answer(Here(c), k, held[Here(c)][k], piece[k]) ELSE Nothing]]
          /\ together' = [together EXCEPT ![c][side[c]] = [k \in Keys |->
                IF k \in read \intersect Profiles THEN piece[k] \intersect Paired ELSE @[k]]]
          /\ toFetch' = [toFetch EXCEPT ![c][side[c]] = @ \ chunk]
    /\ Goto(c, "store", side[c])
    /\ UNCHANGED <<sourceVars, storeVars, rowVars, listed, hit, fresh, seen>>

(* The chunk is kept and, where there is a date, stored under the date the *)
(* inventory gave.                                                         *)
StoreChunk_UnderCurrentDate(c) ==
    /\ pc[c] = "store"
    /\ LET read == {k \in Keys : tree[c][k] # Nothing} IN
       /\ fresh' = [fresh EXCEPT ![c][side[c]] =
             [k \in Keys |-> IF k \in read THEN tree[c][k] ELSE @[k]]]
       /\ refs' = Stored({[source |-> Here(c), key |-> k, date |-> date[Here(c)][k],
                           content |-> tree[c][k]] : k \in read \ Dateless})
       /\ blobs' = blobs \union {tree[c][k] : k \in read \ Dateless}
    /\ tree' = [tree EXCEPT ![c] = NoValues]
    /\ Goto(c, "next", side[c])
    /\ UNCHANGED <<sourceVars, captured, looked, captures, rowVars, listed, hit, toFetch, noteVars, faults>>
StoreChunk_StoresMissing(c) ==
    /\ pc[c] = "store"
    /\ LET read == {k \in Keys : tree[c][k] # Nothing} IN
       /\ fresh' = [fresh EXCEPT ![c][side[c]] =
             [k \in Keys |-> IF k \in read THEN tree[c][k] ELSE @[k]]]
       /\ refs' = Stored({[source |-> Here(c), key |-> k, date |-> listed[c][side[c]][k],
                           content |-> tree[c][k]] : k \in Entries(c, side[c])})
       /\ blobs' = blobs \union {tree[c][k] : k \in read}
    /\ tree' = [tree EXCEPT ![c] = NoValues]
    /\ Goto(c, "next", side[c])
    /\ UNCHANGED <<sourceVars, captured, looked, captures, rowVars, listed, hit, toFetch, noteVars, faults>>
StoreChunk(c) ==
    /\ pc[c] = "store"
    /\ LET read == {k \in Keys : tree[c][k] # Nothing} IN
       /\ fresh' = [fresh EXCEPT ![c][side[c]] =
             [k \in Keys |-> IF k \in read THEN tree[c][k] ELSE @[k]]]
       /\ refs' = Stored({[source |-> Here(c), key |-> k, date |-> listed[c][side[c]][k],
                           content |-> tree[c][k]] : k \in read \ Dateless})
       /\ blobs' = blobs \union {tree[c][k] : k \in read \ Dateless}
    /\ tree' = [tree EXCEPT ![c] = NoValues]
    /\ Goto(c, "next", side[c])
    /\ UNCHANGED <<sourceVars, captured, looked, captures, rowVars, listed, hit, toFetch, noteVars, faults>>

(***************************************************************************)
(* Comparing.                                                              *)
(***************************************************************************)
Content(c, s, k) == IF fresh[c][s][k] # Nothing THEN fresh[c][s][k] ELSE hit[c][s][k]

(* coverageForProfileLike(): which grants a side's content would show. *)
Planned(c, s) == {k \in Entries(c, s) : hit[c][s][k] = Nothing}
Coverage(c, s, k) ==
    CASE source[c][s] \notin Orgs -> Paired
      [] source[c][s] \in Orgs /\ k \in Planned(c, s) -> Planned(c, s) \intersect Paired
      [] OTHER -> {}

(* diffXml(), diffProfileLike(): an entry that one side lacks is a change  *)
(* only if that side would show it.                                        *)
HasRealChange(l, r, leftSaw, rightSaw) ==
    \/ l.body # r.body
    \/ \E p \in Paired :
          /\ l.grants[p] # r.grants[p]
          /\ l.grants[p] = Nothing => p \in leftSaw
          /\ r.grants[p] = Nothing => p \in rightSaw

(* diffComponent() of what was read; Nothing is a component that does not  *)
(* exist on that side.  Unequal hashes alone are a change of a text only.  *)
ByContent_TrustsHash(c, k, l, r) ==
    CASE l = r -> "identical"
      [] l # r /\ r = Nothing -> "deleted"
      [] l # r /\ l = Nothing -> "new"
      [] OTHER -> "changed"
ByContent(c, k, l, r) ==
    CASE l = r -> "identical"
      [] l # r /\ r = Nothing -> "deleted"
      [] l # r /\ l = Nothing -> "new"
      [] OTHER -> IF k \in Text \/ HasRealChange(l, r, Coverage(c, "left", k), Coverage(c, "right", k))
                  THEN "changed" ELSE "identical"

(* diffBinaryComponent(): existence is the inventory's, and a side that    *)
(* could not be read makes the result changed.                             *)
ByPresence_HashesUnreadable(c, k, l, r) ==
    CASE k \notin Entries(c, "right") -> "deleted"
      [] k \notin Entries(c, "left") -> "new"
      [] OTHER -> IF l # r THEN "changed" ELSE "identical"
ByPresence(c, k, l, r) ==
    CASE k \notin Entries(c, "right") -> "deleted"
      [] k \notin Entries(c, "left") -> "new"
      [] OTHER -> IF l = Nothing \/ l # r THEN "changed" ELSE "identical"

Listed(c) == Entries(c, "left") \union Entries(c, "right")

(* diff_results names a blob for every side that was read.  What has no    *)
(* date is read but not stored, and its blob may not exist.                *)
RowsAccepted(c) ==
    \A k \in Listed(c), s \in Sides : Content(c, s, k) \in blobs \union {Nothing}

(* diffAll(), the rows, and the row: in one stretch after the last await. *)
ReadyToCompare(c) ==
    /\ pc[c] = "next"
    /\ c \notin aborted
    /\ \A s \in Sides : toFetch[c][s] = {}

Finish(c) ==
    /\ ReadyToCompare(c)
    /\ RowsAccepted(c)
    /\ verdict' = [verdict EXCEPT ![c] = [k \in Keys |->
          IF k \notin Listed(c) THEN Nothing
          ELSE LET l == Content(c, "left", k)
                   r == Content(c, "right", k)
               IN  IF k \in Binary THEN ByPresence(c, k, l, r) ELSE ByContent(c, k, l, r)]]
    /\ unreadable' = [unreadable EXCEPT ![c] = {k \in Binary : \E s \in Sides :
          k \in Entries(c, s) /\ Content(c, s, k) = Nothing}]
    /\ reported' = [reported EXCEPT ![c] = looked - base[c]]
    /\ row' = [row EXCEPT ![c] = "completed"]
    /\ job' = [job EXCEPT ![c] = "succeeded"]
    /\ Forget(c)
    /\ UNCHANGED <<sourceVars, storeVars, noteVars, faults>>

(* ... or the foreign key refuses the rows, and none is kept. *)
RowsRefused(c) ==
    /\ ReadyToCompare(c)
    /\ ~RowsAccepted(c)
    /\ Throws(c, "failed")
    /\ UNCHANGED faults

(***************************************************************************)
(* Elsewhere.                                                              *)
(***************************************************************************)

(* A source changes: an org is edited or deployed to, a file is written, a *)
(* branch moves.  The component gets a date it never had.                  *)
Edit(s, k, v) ==
    /\ edits < MaxEdits
    /\ v \in Possible[k] \ {held[s][k]}
    /\ edits' = edits + 1
    /\ held' = [held EXCEPT ![s][k] = v]
    /\ date' = [date EXCEPT ![s][k] = @ + 1]
    /\ seen' = [c \in Comparisons |-> [t \in Sides |->
          IF source[c][t] = s /\ seen[c][t][k] # {} /\ pc[c] # "done"
          THEN [seen[c][t] EXCEPT ![k] = @ \union {v}] ELSE seen[c][t]]]
    /\ UNCHANGED <<storeVars, rowVars, runVars, together, lost, faults>>

(* capturePreDeployState() of a deployment reads a component of an org,    *)
(* also one without a date, that it listed earlier ...                     *)
CaptureReads(s, k) ==
    /\ captures < MaxCaptures
    /\ held[s][k] # Absent
    /\ captures' = captures + 1
    /\ \E d \in 0..date[s][k], others \in SUBSET Paired :
          captured' = captured \union
              {[source |-> s, key |-> k, date |-> Reported(k, d),
                content |-> Answer(s, k, held[s][k], others)]}
    /\ UNCHANGED <<sourceVars, refs, blobs, looked, rowVars, runVars, noteVars, faults>>

(* ... and stores it, under the date it was listed with.                  *)
CaptureStores(r) ==
    /\ r \in captured
    /\ captured' = captured \ {r}
    /\ refs' = Stored({r})
    /\ blobs' = blobs \union {r.content}
    /\ UNCHANGED <<sourceVars, looked, captures, rowVars, runVars, noteVars, faults>>

Next ==
    \/ \E c \in Comparisons :
          \/ \E l, r \in Sources : Start(c, l, r)
          \/ Cancel(c)
          \/ CallFails(c)
          \/ ThrowsIfAborted(c)
          \/ List(c)
          \/ Plan(c)
          \/ NextChunk(c)
          \/ Materialize(c)
          \/ StoreChunk(c)
          \/ Finish(c)
          \/ RowsRefused(c)
    \/ \E s \in Sources, k \in Keys, v \in States : Edit(s, k, v)
    \/ \E s \in Orgs, k \in Keys : CaptureReads(s, k)
    \/ \E r \in captured : CaptureStores(r)

Spec == Init /\ [][Next]_vars

(***************************************************************************)
(* Properties.                                                             *)
(***************************************************************************)

(* A content is what was read of a state, of which every grant on `saw'    *)
(* was read.  What is no Profile is read whole.                            *)
ReadOf(k, content, state, saw) ==
    /\ state # Absent
    /\ IF k \notin Profiles THEN content = state
       ELSE /\ content.body = state.body /\ content.rest = state.rest
            /\ \A p \in Paired : content.grants[p] # state.grants[p] =>
                  content.grants[p] = Nothing /\ p \notin saw

(* The store never lies: what it has under the date a component carries    *)
(* now is what its source holds now, although listing, reading and storing *)
(* are three moments and the source may change between any two of them; of *)
(* a Profile of an org it may lack grants, of a project's it lacks none    *)
(* (snapshot-store.ts 16-21, comparison-engine.ts 97-154).                 *)
StoreNeverLies ==
    \A r \in refs : r.key \notin Dateless /\ r.date = date[r.source][r.key] =>
        ReadOf(r.key, r.content, held[r.source][r.key], IF r.source \in Orgs THEN {} ELSE Paired)

(* Do two states differ in what is compared, as far as the grants of a     *)
(* Profile on `seenGrants' go?                                             *)
Differ(k, l, r, seenGrants) ==
    IF k \in Binary \union Text THEN l # r
    ELSE l.body # r.body \/ \E p \in seenGrants : l.grants[p] # r.grants[p]

(* The grants on these the side's source did return with the Profile. *)
Saw(c, s, k) == IF source[c][s] \in Orgs THEN together[c][s][k] ELSE Paired

(* What a verdict says of a pair of states; `bothSaw' bounds what identical *)
(* can say of a Profile.                                                   *)
IsTrueOf(said, k, l, r, bothSaw) ==
    CASE said = "new"     -> l = Absent /\ r # Absent
      [] said = "deleted" -> l # Absent /\ r = Absent
      [] said = "changed" -> l # Absent /\ r # Absent /\ Differ(k, l, r, Paired)
      [] OTHER -> \/ l = Absent /\ r = Absent
                  \/ l # Absent /\ r # Absent /\ ~Differ(k, l, r, bothSaw)

(* A verdict is true of states the two sources really held while the       *)
(* comparison ran, cached content included: it is never older than the     *)
(* comparison, a Profile is never called changed for a grant that was not  *)
(* read, and identical hides no difference in what both sides did read.    *)
(* Excepted are components a source failed to deliver, or delivered in     *)
(* pieces, and binaries flagged unreadable (comparison-engine.ts 165-238,  *)
(* diff/dispatch.ts 127-132, coverage.ts 62-73).                           *)
VerdictsAreTrue ==
    \A c \in Comparisons : row[c] = "completed" =>
        \A k \in Keys \ (lost[c] \union unreadable[c]) : verdict[c][k] # Nothing =>
            \E l \in seen[c]["left"][k], r \in seen[c]["right"][k] :
                IsTrueOf(verdict[c][k], k, l, r, Saw(c, "left", k) \intersect Saw(c, "right", k))

(* types/diff.ts 62-66: identical on a binary result is a claim that both  *)
(* sides' bytes were read and are equal, whatever could not be read.       *)
IdenticalBinariesWereRead ==
    \A c \in Comparisons : row[c] = "completed" =>
        \A k \in Binary : verdict[c][k] = "identical" =>
            seen[c]["left"][k] \intersect seen[c]["right"][k] \intersect Contents # {}

(* However the job ends the row says so, a cancellation included, and it   *)
(* is completed only with its results (comparisons.ts 53-137).             *)
RowFollowsJob ==
    \A c \in Comparisons : job[c] \in Terminal =>
        CASE job[c] = "succeeded" -> row[c] = "completed"
          [] OTHER -> row[c] = job[c]

(***************************************************************************)
(* What the source's own comments say.                                     *)
(***************************************************************************)

(* diff/dispatch.ts 51-52: a side is undefined "when the component doesn't *)
(* exist on that side at all", so a component called deleted or new was    *)
(* not listed by the other side.                                           *)
DeletedMeansNotThere ==
    \A c \in Comparisons : row[c] = "completed" => \A k \in Keys :
        /\ verdict[c][k] = "deleted" => k \notin Entries(c, "right")
        /\ verdict[c][k] = "new" => k \notin Entries(c, "left")

(* types/metadata-source.ts 58: a component without a real timestamp      *)
(* "falls back to `always refetch'", which is no reason to fail: a         *)
(* comparison fails only if a source failed it.                            *)
FailsOnlyWhenASourceDid ==
    \A c \in Comparisons : row[c] = "failed" => faults > 0
=============================================================================
