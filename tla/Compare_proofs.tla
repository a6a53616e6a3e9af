---------------------------- MODULE Compare_proofs ----------------------------
(***************************************************************************)
(* Proofs about Compare for any comparisons, sources, keys and contents:   *)
(* that the snapshot store never answers with a content that is not        *)
(* current, and that the verdicts of a comparison are true of what its     *)
(* sources held while it ran.                                              *)
(***************************************************************************)
EXTENDS Compare, FiniteSetTheorems, TLAPS

(* The sides listed so far, and the sides whose lookups are done. *)
IsListed(c, s) ==
    \/ pc[c] \in {"next", "fetch", "store"}
    \/ pc[c] = "plan" /\ (s = side[c] \/ side[c] = "right")
    \/ pc[c] = "list" /\ s = "left" /\ side[c] = "right"
IsPlanned(c, s) ==
    \/ pc[c] \in {"next", "fetch", "store"}
    \/ pc[c] \in {"list", "plan"} /\ s = "left" /\ side[c] = "right"

(* Row, job and handler agree. *)
RowAgrees ==
    \A c \in Comparisons :
        /\ pc[c] = "none" <=> row[c] = "absent"
        /\ pc[c] = "done" <=> job[c] \in Terminal
        /\ row[c] \in {"absent", "running"} <=> job[c] \notin Terminal

(* The store only counts up. *)
CountersGrow == \A c \in Comparisons : base[c] <= looked

SourcesKnown ==
    \A c \in Comparisons : pc[c] # "none" => \A s \in Sides : source[c][s] \in Sources

(* What has not been planned has no contents and nothing to fetch. *)
NothingUnplanned ==
    \A c \in Comparisons : \A s \in Sides : ~IsPlanned(c, s) =>
        hit[c][s] = NoValues /\ fresh[c][s] = NoValues /\ toFetch[c][s] = {}

(* Only what was listed is fetched and read. *)
OnlyListed ==
    \A c \in Comparisons :
        /\ \A s \in Sides : toFetch[c][s] \subseteq Entries(c, s)
        /\ pc[c] = "store" => \A k \in Keys : tree[c][k] # Nothing => k \in Entries(c, side[c])
        /\ \A s \in Sides, k \in Keys :
              hit[c][s][k] # Nothing \/ fresh[c][s][k] # Nothing => k \in Entries(c, s)

(* A date is never ahead of its component. *)
References == refs \union captured
RefsPast ==
    \A r \in References : r.key \notin Dateless => r.date <= date[r.source][r.key]
ListedPast ==
    \A c \in Comparisons : \A s \in Sides : IsListed(c, s) => \A k \in Keys \ Dateless :
        listed[c][s][k] # Nothing => listed[c][s][k] <= date[source[c][s]][k]

(* A side has read a component, whether or not it has kept it already. *)
IsRead(c, s, k) ==
    \/ fresh[c][s][k] # Nothing
    \/ pc[c] = "store" /\ s = side[c] /\ tree[c][k] # Nothing

(* It reads a component once, and only one that the store did not have; a  *)
(* component it has not read was read together with nothing.               *)
ReadOnce ==
    \A c \in Comparisons : \A s \in Sides, k \in Keys :
        /\ k \in toFetch[c][s] => ~IsRead(c, s, k)
        /\ k \in toFetch[c][s] \/ IsRead(c, s, k) => hit[c][s][k] = Nothing
        /\ pc[c] # "done" /\ together[c][s][k] # {} => IsRead(c, s, k) /\ k \in Profiles

(* While a Profile is to be fetched so is everything planned that it may   *)
(* have grants on, and it was then read with all of that, unless apart.    *)
ProfilesFirst ==
    \A c \in Comparisons : pc[c] # "done" => \A s \in Sides :
        /\ toFetch[c][s] \intersect Profiles # {} =>
              Planned(c, s) \intersect Paired \subseteq toFetch[c][s]
        /\ \A k \in Profiles \ lost[c] : IsRead(c, s, k) =>
              together[c][s][k] = Planned(c, s) \intersect Paired

(* A source's answer is part of a state: all of it, or a Profile of an org *)
(* without some of its grants.                                             *)
Whole(s) == IF s \in Orgs THEN {} ELSE Paired
PartOf(s, k, content, state) == ReadOf(k, content, state, Whole(s))

(* What was read under a date that is still current is current. *)
TreeCurrent ==
    \A c \in Comparisons : pc[c] = "store" => \A k \in Keys \ Dateless :
        tree[c][k] # Nothing /\ listed[c][side[c]][k] = date[source[c][side[c]]][k] =>
            PartOf(source[c][side[c]], k, tree[c][k], held[source[c][side[c]]][k])

CapturedCurrent ==
    \A r \in captured : r.key \notin Dateless /\ r.date = date[r.source][r.key] =>
        PartOf(r.source, r.key, r.content, held[r.source][r.key])

StoreInv == TypeOK /\ CountersGrow /\ RowAgrees /\ SourcesKnown /\ NothingUnplanned /\ OnlyListed
            /\ ReadOnce /\ ProfilesFirst /\ StoreNeverLies /\ CapturedCurrent /\ RefsPast /\ ListedPast /\ TreeCurrent

(* A side has been seen to hold what it holds now, ... *)
HeldSeen ==
    \A c \in Comparisons : \A s \in Sides : IsListed(c, s) => \A k \in Keys :
        held[source[c][s]][k] \in seen[c][s][k]

(* ... some part of whatever is or will be stored under the date it was    *)
(* listed with, ...                                                        *)
PartSeen(c, s, k, content) ==
    \E v \in seen[c][s][k] : PartOf(source[c][s], k, content, v)
RefsSeen ==
    \A c \in Comparisons : \A s \in Sides : IsListed(c, s) => \A r \in References :
        r.source = source[c][s] /\ r.key \notin Dateless /\ r.date = listed[c][s][r.key] =>
            PartSeen(c, s, r.key, r.content)

(* ... whatever any comparison is about to store under that date, ... *)
TreesSeen ==
    \A c, e \in Comparisons : \A s \in Sides : IsListed(c, s) /\ pc[e] = "store" =>
        \A k \in Keys \ Dateless :
            /\ source[e][side[e]] = source[c][s]
            /\ listed[e][side[e]][k] = listed[c][s][k]
            /\ tree[e][k] # Nothing
            => PartSeen(c, s, k, tree[e][k])

(* ... and the contents to be compared, with all the side saw of them. *)
SawIn(c, s, k, content) ==
    \E v \in seen[c][s][k] : ReadOf(k, content, v, Saw(c, s, k))
ContentsSeen ==
    \A c \in Comparisons :
        /\ pc[c] = "store" => \A k \in Keys :
              tree[c][k] # Nothing => SawIn(c, side[c], k, tree[c][k])
        /\ \A s \in Sides, k \in Keys :
              /\ hit[c][s][k] # Nothing => PartSeen(c, s, k, hit[c][s][k])
              /\ fresh[c][s][k] # Nothing => SawIn(c, s, k, fresh[c][s][k])

(* A content that is missing was seen to be absent, or the source lost it. *)
MissingExplained ==
    \A c \in Comparisons : \A s \in Sides, k \in Keys \ lost[c] :
        /\ IsListed(c, s) /\ k \notin Entries(c, s) => Absent \in seen[c][s][k]
        /\ /\ IsPlanned(c, s) /\ k \in Entries(c, s) \ toFetch[c][s]
           /\ hit[c][s][k] = Nothing /\ fresh[c][s][k] = Nothing
           /\ ~(pc[c] = "store" /\ s = side[c] /\ tree[c][k] # Nothing)
           => Absent \in seen[c][s][k]

SeenInv == HeldSeen /\ RefsSeen /\ TreesSeen /\ ContentsSeen /\ MissingExplained

CInv == StoreInv /\ SeenInv /\ RowFollowsJob /\ VerdictsAreTrue /\ IdenticalBinariesWereRead

(***************************************************************************)
(* What the operators of Compare return and do.                            *)
(***************************************************************************)
LEMMA CountsAreNumbers == \A S \in SUBSET Keys : Cardinality(S) \in Nat
  BY KeysAssumption, FS_Subset, FS_CardinalityType

LEMMA CachedIsStored ==
    ASSUME TypeOK, NEW s \in Sources, NEW k \in Keys, NEW d
    PROVE  \/ Cached(s, k, d) = Nothing
           \/ \E r \in refs : /\ r.source = s /\ r.key = k /\ r.date = d
                              /\ r.content = Cached(s, k, d) /\ r.content \in Contents
<1> DEFINE found == {r \in refs : r.source = s /\ r.key = k /\ r.date = d}
<1>1. CASE found = {}
  BY <1>1 DEF Cached
<1>2. CASE found # {}
  <2>1. (CHOOSE r \in found : TRUE) \in found
    BY <1>2
  <2>2. Cached(s, k, d) = (CHOOSE r \in found : TRUE).content
    BY <1>2 DEF Cached
  <2> QED BY <2>1, <2>2 DEF TypeOK
<1> QED BY <1>1, <1>2

LEMMA SeeingLess ==
    ASSUME NEW k, NEW content, NEW state, NEW more, NEW less,
           ReadOf(k, content, state, more), less \intersect Paired \subseteq more
    PROVE  ReadOf(k, content, state, less)
  BY DEF ReadOf

(* An answer is a content, part of the state and what was asked for of it. *)
LEMMA AnswerIsPart ==
    ASSUME NEW s, NEW k, NEW v \in Contents, NEW others
    PROVE  /\ Answer(s, k, v, others) \in Contents
           /\ ReadOf(k, Answer(s, k, v, others), v, IF s \in Orgs THEN others \intersect Paired ELSE Paired)
           /\ PartOf(s, k, Answer(s, k, v, others), v)
<1>0. v # Absent
  BY ValuesAssumption
<1>1. CASE s \in Orgs /\ k \in Profiles
  <2> DEFINE asked == [p \in Paired |-> IF p \in others THEN v.grants[p] ELSE Nothing]
  <2>1. Answer(s, k, v, others) = [v EXCEPT !.grants = asked]
    BY <1>1 DEF Answer
  <2>2. asked \in [Paired -> Levels \union {Nothing}]
    BY DEF Contents
  <2>3. [v EXCEPT !.grants = asked] \in Contents
    BY <2>2 DEF Contents
  <2>4. /\ [v EXCEPT !.grants = asked].body = v.body /\ [v EXCEPT !.grants = asked].rest = v.rest
        /\ [v EXCEPT !.grants = asked].grants = asked
    BY DEF Contents
  <2>5. \A p \in Paired : asked[p] # v.grants[p] => asked[p] = Nothing /\ p \notin others
    OBVIOUS
  <2> HIDE DEF asked
  <2>6. ReadOf(k, Answer(s, k, v, others), v, others \intersect Paired)
    BY <1>0, <1>1, <2>1, <2>4, <2>5 DEF ReadOf
  <2>7. ReadOf(k, Answer(s, k, v, others), v, {})
    BY <2>6, SeeingLess
  <2> QED BY <1>1, <2>1, <2>3, <2>6, <2>7 DEF PartOf, Whole
<1>2. CASE ~(s \in Orgs /\ k \in Profiles)
  <2>1. Answer(s, k, v, others) = v
    BY <1>2 DEF Answer
  <2> QED BY <1>0, <2>1 DEF ReadOf, PartOf
<1> QED BY <1>1, <1>2

LEMMA HereIsASource ==
    ASSUME TypeOK, SourcesKnown, NEW c \in Comparisons, pc[c] # "none"
    PROVE  side[c] \in Sides /\ Here(c) \in Sources
  BY DEF TypeOK, SourcesKnown, Here

(* The handler's end leaves nothing behind. *)
Ended(c, rowStatus, jobStatus) ==
    /\ row' = [row EXCEPT ![c] = rowStatus]
    /\ job' = [job EXCEPT ![c] = jobStatus]
    /\ pc' = [pc EXCEPT ![c] = "done"]
    /\ aborted' = aborted \ {c}
    /\ tree' = [tree EXCEPT ![c] = NoValues]
    /\ toFetch' = [toFetch EXCEPT ![c] = [s \in Sides |-> {}]]
    /\ hit' = [hit EXCEPT ![c] = [s \in Sides |-> NoValues]]
    /\ fresh' = [fresh EXCEPT ![c] = [s \in Sides |-> NoValues]]
    /\ UNCHANGED <<side, listed, source, base, sourceVars, storeVars, noteVars>>

LEMMA EndTypes ==
    ASSUME TypeOK, NEW c \in Comparisons, NEW rowStatus, NEW jobStatus,
           Ended(c, rowStatus, jobStatus),
           rowStatus \in {"completed", "failed", "canceled"}, jobStatus \in Terminal,
           faults' \in Nat, reported' \in [Comparisons -> Nat],
           verdict' \in [Comparisons -> [Keys -> Verdicts \union {Nothing}]],
           unreadable' \in [Comparisons -> SUBSET Keys]
    PROVE  TypeOK'
<1>1. NoValues \in [Keys -> Contents \union {Nothing}]
  BY DEF NoValues
<1>2. tree' \in [Comparisons -> [Keys -> Contents \union {Nothing}]]
  BY <1>1 DEF TypeOK, Ended
<1>3. /\ hit' \in [Comparisons -> [Sides -> [Keys -> Contents \union {Nothing}]]]
      /\ fresh' \in [Comparisons -> [Sides -> [Keys -> Contents \union {Nothing}]]]
  BY <1>1 DEF TypeOK, Ended
<1>4. toFetch' \in [Comparisons -> [Sides -> SUBSET Keys]]
  BY DEF TypeOK, Ended
<1>5. row' \in [Comparisons -> {"absent", "running", "completed", "failed", "canceled"}]
  BY DEF TypeOK, Ended
<1>6. job' \in [Comparisons -> Terminal \union {"absent", "running"}]
  BY DEF TypeOK, Ended
<1>7. pc' \in [Comparisons -> {"none", "list", "plan", "fetch", "store", "next", "done"}]
      /\ aborted' \in SUBSET Comparisons
  BY DEF TypeOK, Ended
<1> QED BY <1>2, <1>3, <1>4, <1>5, <1>6, <1>7 DEF TypeOK, Ended, sourceVars, storeVars, noteVars

LEMMA ThrowsEnds ==
    ASSUME NEW c \in Comparisons, NEW outcome, Throws(c, outcome)
    PROVE  Ended(c, outcome, outcome) /\ UNCHANGED <<reported, verdict, unreadable>>
  BY DEF Throws, Forget, Ended, sourceVars, storeVars, noteVars

LEMMA FailureEnds ==
    ASSUME NEW c \in Comparisons, CallFails(c) \/ ThrowsIfAborted(c) \/ RowsRefused(c)
    PROVE  \E outcome \in {"failed", "canceled"} :
              Ended(c, outcome, outcome) /\ UNCHANGED <<reported, verdict, unreadable>>
<1>1. CASE CallFails(c)
  BY <1>1, ThrowsEnds DEF CallFails
<1>2. CASE ThrowsIfAborted(c)
  BY <1>2, ThrowsEnds DEF ThrowsIfAborted
<1>3. CASE RowsRefused(c)
  BY <1>3, ThrowsEnds DEF RowsRefused
<1> QED BY <1>1, <1>2, <1>3

LEMMA FinishEnds ==
    ASSUME NEW c \in Comparisons, Finish(c)
    PROVE  Ended(c, "completed", "succeeded")
  BY DEF Finish, Forget, Ended, sourceVars, storeVars, noteVars

(* A deployment's capture reads a component or stores what it read. *)
Captures ==
    \/ \E t \in Orgs, k \in Keys : CaptureReads(t, k)
    \/ \E r \in captured : CaptureStores(r)

LEMMA CaptureLeaves ==
    ASSUME Captures
    PROVE  UNCHANGED <<sourceVars, looked, rowVars, runVars, noteVars, faults>>
  BY DEF Captures, CaptureReads, CaptureStores

(* A chunk is read. *)
Reads(c, chunk, piece, gone) ==
    LET s == side[c]
        there == {k \in chunk : held[Here(c)][k] # Absent}
        apart == {k \in chunk \intersect Profiles : piece[k] # chunk}
    IN  /\ chunk \subseteq toFetch[c][s] /\ gone \subseteq there
        /\ toFetch[c][s] \intersect Profiles # {} =>
              chunk = toFetch[c][s] \intersect (Profiles \union Paired)
        /\ faults' = faults \/ Fault
        /\ lost' = [lost EXCEPT ![c] = @ \union gone \union apart]
        /\ tree' = [tree EXCEPT ![c] = [k \in Keys |->
              IF k \in there \ gone THEN Answer(Here(c), k, held[Here(c)][k], piece[k]) ELSE Nothing]]
        /\ together' = [together EXCEPT ![c][s] = [k \in Keys |->
              IF k \in (there \ gone) \intersect Profiles THEN piece[k] \intersect Paired ELSE @[k]]]
        /\ toFetch' = [toFetch EXCEPT ![c][s] = @ \ chunk]

LEMMA MaterializeReads ==
    ASSUME NEW c \in Comparisons, Materialize(c)
    PROVE  \E chunk, piece, gone : Reads(c, chunk, piece, gone)
<1>1. PICK chunk \in Chunks(c, side[c]) : \E piece \in Pieces(Here(c), chunk) :
       LET there == {k \in chunk : held[Here(c)][k] # Absent}
           apart == {k \in chunk \intersect Profiles : piece[k] # chunk}
       IN  \E gone \in SUBSET there :
          LET read == there \ gone IN
          /\ IF gone = {} /\ apart = {} THEN UNCHANGED faults ELSE Fault
          /\ lost' = [lost EXCEPT ![c] = @ \union gone \union apart]
          /\ tree' = [tree EXCEPT ![c] = [k \in Keys |->
                IF k \in read THEN Answer(Here(c), k, held[Here(c)][k], piece[k]) ELSE Nothing]]
          /\ together' = [together EXCEPT ![c][side[c]] = [k \in Keys |->
                IF k \in read \intersect Profiles THEN piece[k] \intersect Paired ELSE @[k]]]
          /\ toFetch' = [toFetch EXCEPT ![c][side[c]] = @ \ chunk]
  BY DEF Materialize
<1>2. /\ chunk \subseteq toFetch[c][side[c]]
      /\ toFetch[c][side[c]] \intersect Profiles # {} =>
            chunk = toFetch[c][side[c]] \intersect (Profiles \union Paired)
  BY DEF Chunks, Core
<1> DEFINE there == {k \in chunk : held[Here(c)][k] # Absent}
           apart(piece) == {k \in chunk \intersect Profiles : piece[k] # chunk}
<1>3. PICK piece \in Pieces(Here(c), chunk), gone \in SUBSET there :
          /\ IF gone = {} /\ apart(piece) = {} THEN UNCHANGED faults ELSE Fault
          /\ lost' = [lost EXCEPT ![c] = @ \union gone \union apart(piece)]
          /\ tree' = [tree EXCEPT ![c] = [k \in Keys |->
                IF k \in there \ gone THEN Answer(Here(c), k, held[Here(c)][k], piece[k]) ELSE Nothing]]
          /\ together' = [together EXCEPT ![c][side[c]] = [k \in Keys |->
                IF k \in (there \ gone) \intersect Profiles THEN piece[k] \intersect Paired ELSE @[k]]]
          /\ toFetch' = [toFetch EXCEPT ![c][side[c]] = @ \ chunk]
  BY <1>1
<1>4. Reads(c, chunk, piece, gone)
  BY <1>2, <1>3 DEF Reads
<1> QED BY <1>4

(***************************************************************************)
(* Types.                                                                  *)
(***************************************************************************)
LEMMA TypeInit == Init => TypeOK
<1> SUFFICES ASSUME Init PROVE TypeOK
  OBVIOUS
<1>1. held \in [Sources -> [Keys -> States]] /\ date \in [Sources -> [Keys -> Nat]]
  BY DEF Init
<1> QED BY <1>1 DEF Init, TypeOK, OnSides, NoValues, Sides

LEMMA TypeStep == TypeOK /\ CountersGrow /\ SourcesKnown /\ OnlyListed /\ [Next]_vars => TypeOK'
<1> SUFFICES ASSUME TypeOK, CountersGrow, SourcesKnown, OnlyListed, [Next]_vars PROVE TypeOK'
  OBVIOUS
<1> USE DEF sourceVars, storeVars, rowVars, runVars, noteVars
<1>1. ASSUME NEW c \in Comparisons, NEW l \in Sources, NEW r \in Sources, Start(c, l, r) PROVE TypeOK'
  <2>1. source' \in [Comparisons -> [Sides -> Sources \union {Nothing}]]
    BY <1>1 DEF TypeOK, Start
  <2>2. base' \in [Comparisons -> Nat]
    BY <1>1 DEF TypeOK, Start
  <2>3. pc' \in [Comparisons -> {"none", "list", "plan", "fetch", "store", "next", "done"}]
        /\ side' \in [Comparisons -> Sides]
    BY <1>1 DEF TypeOK, Start, Goto, Sides
  <2> QED BY <1>1, <2>1, <2>2, <2>3 DEF TypeOK, Start
<1>2. ASSUME NEW c \in Comparisons, Cancel(c) PROVE TypeOK'
  BY <1>2 DEF Cancel, TypeOK
<1>3. ASSUME NEW c \in Comparisons, CallFails(c) \/ ThrowsIfAborted(c) \/ RowsRefused(c) PROVE TypeOK'
  <2>1. PICK outcome \in {"failed", "canceled"} :
           Ended(c, outcome, outcome) /\ UNCHANGED <<reported, verdict, unreadable>>
    BY <1>3, FailureEnds
  <2>2. faults' \in Nat
    BY <1>3 DEF TypeOK, CallFails, ThrowsIfAborted, RowsRefused, Fault
  <2>3. /\ reported' \in [Comparisons -> Nat]
        /\ verdict' \in [Comparisons -> [Keys -> Verdicts \union {Nothing}]]
        /\ unreadable' \in [Comparisons -> SUBSET Keys]
    BY <2>1 DEF TypeOK
  <2> QED BY <2>1, <2>2, <2>3, EndTypes DEF Terminal
<1>5. ASSUME NEW c \in Comparisons, List(c) PROVE TypeOK'
  <2> DEFINE here == {k \in Keys : held[Here(c)][k] # Absent}
  <2>1. side[c] \in Sides /\ Here(c) \in Sources
    BY <1>5, HereIsASource DEF List
  <2>2. PICK gone \in SUBSET here :
          /\ IF gone = {} THEN UNCHANGED faults ELSE Fault
          /\ lost' = [lost EXCEPT ![c] = @ \union gone]
          /\ listed' = [listed EXCEPT ![c][side[c]] =
                [k \in Keys |-> IF k \in here \ gone
                                THEN Reported(k, date[Here(c)][k]) ELSE Nothing]]
    BY <1>5 DEF List
  <2>3. \A k \in Keys : Reported(k, date[Here(c)][k]) \in Nat
    BY <2>1 DEF TypeOK, Reported
  <2>4. listed' \in [Comparisons -> [Sides -> [Keys -> Nat \union {Nothing}]]]
    BY <2>1, <2>2, <2>3 DEF TypeOK
  <2>5. lost' \in [Comparisons -> SUBSET Keys] /\ faults' \in Nat
    BY <2>2 DEF TypeOK, Fault
  <2>6. \A k \in Keys : held[Here(c)][k] \in States
    BY <2>1 DEF TypeOK
  <2>7. seen' \in [Comparisons -> [Sides -> [Keys -> SUBSET States]]]
    BY <1>5, <2>1, <2>6 DEF TypeOK, List
  <2>8. pc' \in [Comparisons -> {"none", "list", "plan", "fetch", "store", "next", "done"}]
        /\ side' \in [Comparisons -> Sides]
    BY <1>5, <2>1 DEF TypeOK, List, Goto
  <2> QED BY <1>5, <2>4, <2>5, <2>7, <2>8 DEF TypeOK, List
<1>6. ASSUME NEW c \in Comparisons, Plan(c) PROVE TypeOK'
  <2> DEFINE dated == Entries(c, side[c]) \ Dateless
  <2> DEFINE found == [k \in Keys |-> IF k \in dated
                                THEN Cached(Here(c), k, listed[c][side[c]][k]) ELSE Nothing]
  <2>1. side[c] \in Sides /\ Here(c) \in Sources
    BY <1>6, HereIsASource DEF Plan
  <2>2. found \in [Keys -> Contents \union {Nothing}]
    BY <2>1, CachedIsStored
  <2>3. /\ hit' = [hit EXCEPT ![c][side[c]] = found]
        /\ toFetch' = [toFetch EXCEPT ![c][side[c]] = {k \in Entries(c, side[c]) : found[k] = Nothing}]
        /\ looked' = looked + Cardinality(dated)
    BY <1>6 DEF Plan
  <2>4. Entries(c, side[c]) \subseteq Keys
    BY DEF Entries
  <2>5. Cardinality(dated) \in Nat
    BY <2>4, CountsAreNumbers
  <2>6. hit' \in [Comparisons -> [Sides -> [Keys -> Contents \union {Nothing}]]]
    BY <2>1, <2>2, <2>3 DEF TypeOK
  <2>7. toFetch' \in [Comparisons -> [Sides -> SUBSET Keys]]
    BY <2>1, <2>3, <2>4 DEF TypeOK
  <2>8. looked' \in Nat
    BY <2>3, <2>5 DEF TypeOK
  <2>9. pc' \in [Comparisons -> {"none", "list", "plan", "fetch", "store", "next", "done"}]
        /\ side' \in [Comparisons -> Sides]
    BY <1>6 DEF TypeOK, Plan, Goto, Sides
  <2> QED BY <1>6, <2>6, <2>7, <2>8, <2>9 DEF TypeOK, Plan
<1>7. ASSUME NEW c \in Comparisons, NextChunk(c) PROVE TypeOK'
  BY <1>7 DEF NextChunk, TypeOK, Goto
<1>8. ASSUME NEW c \in Comparisons, Materialize(c) PROVE TypeOK'
  <2>1. side[c] \in Sides /\ Here(c) \in Sources
    BY <1>8, HereIsASource DEF Materialize
  <2>2. PICK chunk, piece, gone : Reads(c, chunk, piece, gone)
    BY <1>8, MaterializeReads
  <2>3. \A k \in Keys : held[Here(c)][k] # Absent =>
           Answer(Here(c), k, held[Here(c)][k], piece[k]) \in Contents
    <3>1. \A k \in Keys : held[Here(c)][k] # Absent => held[Here(c)][k] \in Contents
      BY <2>1 DEF TypeOK, States
    <3> QED BY <3>1, AnswerIsPart
  <2>5. chunk \subseteq Keys
    BY <2>1, <2>2 DEF Reads, TypeOK
  <2>4. tree' \in [Comparisons -> [Keys -> Contents \union {Nothing}]]
    BY <2>2, <2>3, <2>5 DEF Reads, TypeOK
  <2>6. lost' \in [Comparisons -> SUBSET Keys] /\ faults' \in Nat
    BY <2>2, <2>5 DEF Reads, TypeOK, Fault
  <2>7. toFetch' \in [Comparisons -> [Sides -> SUBSET Keys]]
    BY <2>1, <2>2 DEF Reads, TypeOK
  <2>9. together' \in [Comparisons -> [Sides -> [Keys -> SUBSET Paired]]]
    BY <2>1, <2>2 DEF Reads, TypeOK
  <2>8. pc' \in [Comparisons -> {"none", "list", "plan", "fetch", "store", "next", "done"}]
        /\ side' \in [Comparisons -> Sides]
    BY <1>8, <2>1 DEF TypeOK, Materialize, Goto
  <2> QED BY <1>8, <2>4, <2>6, <2>7, <2>8, <2>9 DEF TypeOK, Materialize
<1>9. ASSUME NEW c \in Comparisons, StoreChunk(c) PROVE TypeOK'
  <2> DEFINE read == {k \in Keys : tree[c][k] # Nothing}
  <2> DEFINE new == {[source |-> Here(c), key |-> k, date |-> listed[c][side[c]][k],
                      content |-> tree[c][k]] : k \in read \ Dateless}
  <2>1. side[c] \in Sides /\ Here(c) \in Sources
    BY <1>9, HereIsASource DEF StoreChunk
  <2>2. \A k \in read : listed[c][side[c]][k] \in Nat /\ tree[c][k] \in Contents
    BY <1>9, <2>1 DEF TypeOK, StoreChunk, OnlyListed, Entries
  <2>3. new \subseteq [source : Sources, key : Keys, date : Nat, content : Contents]
    BY <2>1, <2>2
  <2>4. refs' = Stored(new) /\ blobs' = blobs \union {tree[c][k] : k \in read \ Dateless}
    BY <1>9 DEF StoreChunk
  <2>5. refs' \subseteq [source : Sources, key : Keys, date : Nat, content : Contents]
    BY <2>3, <2>4 DEF Stored, TypeOK
  <2>6. blobs' \subseteq Contents
    BY <2>2, <2>4 DEF TypeOK
  <2>7. fresh' = [fresh EXCEPT ![c][side[c]] = [k \in Keys |-> IF k \in read THEN tree[c][k] ELSE @[k]]]
    BY <1>9 DEF StoreChunk
  <2>8. fresh' \in [Comparisons -> [Sides -> [Keys -> Contents \union {Nothing}]]]
    BY <2>1, <2>2, <2>7 DEF TypeOK
  <2>9. tree' \in [Comparisons -> [Keys -> Contents \union {Nothing}]]
    BY <1>9 DEF TypeOK, StoreChunk, NoValues
  <2>10. pc' \in [Comparisons -> {"none", "list", "plan", "fetch", "store", "next", "done"}]
         /\ side' \in [Comparisons -> Sides]
    BY <1>9, <2>1 DEF TypeOK, StoreChunk, Goto
  <2> QED BY <1>9, <2>5, <2>6, <2>8, <2>9, <2>10 DEF TypeOK, StoreChunk
<1>10. ASSUME NEW c \in Comparisons, Finish(c) PROVE TypeOK'
  <2>1. Ended(c, "completed", "succeeded") /\ UNCHANGED faults
    BY <1>10, FinishEnds DEF Finish
  <2>2. \A k \in Keys : \A l, r : ByPresence(c, k, l, r) \in Verdicts /\ ByContent(c, k, l, r) \in Verdicts
    BY DEF ByPresence, ByContent, Verdicts
  <2>3. verdict' \in [Comparisons -> [Keys -> Verdicts \union {Nothing}]]
    BY <1>10, <2>2 DEF TypeOK, Finish
  <2>4. unreadable' \in [Comparisons -> SUBSET Keys]
    BY <1>10, KeysAssumption DEF TypeOK, Finish
  <2>5. reported' = [reported EXCEPT ![c] = looked - base[c]]
    BY <1>10 DEF Finish
  <2>6. looked - base[c] \in Nat
    BY DEF TypeOK, CountersGrow
  <2>7. reported' \in [Comparisons -> Nat]
    BY <2>5, <2>6 DEF TypeOK
  <2> QED BY <2>1, <2>3, <2>4, <2>7, EndTypes DEF TypeOK, Terminal
<1>12. ASSUME NEW t \in Sources, NEW k \in Keys, NEW v \in States, Edit(t, k, v) PROVE TypeOK'
  <2>1. held' \in [Sources -> [Keys -> States]] /\ date' \in [Sources -> [Keys -> Nat]] /\ edits' \in Nat
    BY <1>12 DEF TypeOK, Edit
  <2>2. seen' \in [Comparisons -> [Sides -> [Keys -> SUBSET States]]]
    BY <1>12 DEF TypeOK, Edit
  <2> QED BY <1>12, <2>1, <2>2 DEF TypeOK, Edit
<1>13. ASSUME Captures PROVE TypeOK'
  <2> DEFINE Refs == [source : Sources, key : Keys, date : Nat, content : Contents]
  <2>1. refs' \union captured' \subseteq Refs /\ blobs' \subseteq Contents /\ captures' \in Nat
    <3>1. ASSUME NEW t \in Orgs, NEW k \in Keys, CaptureReads(t, k)
          PROVE  refs' \union captured' \subseteq Refs /\ blobs' \subseteq Contents /\ captures' \in Nat
      <4>0. t \in Sources
        BY SourcesAssumption
      <4>2. PICK d \in 0..date[t][k], others \in SUBSET Paired :
              captured' = captured \union
                {[source |-> t, key |-> k, date |-> Reported(k, d),
                  content |-> Answer(t, k, held[t][k], others)]}
        BY <3>1 DEF CaptureReads
      <4>1. Answer(t, k, held[t][k], others) \in Contents
        <5>1. held[t][k] \in Contents
          BY <3>1, <4>0 DEF TypeOK, CaptureReads, States
        <5> QED BY <5>1, AnswerIsPart
      <4>3. Reported(k, d) \in Nat
        BY <4>0 DEF TypeOK, Reported
      <4>4. captured' \subseteq Refs
        BY <4>0, <4>1, <4>2, <4>3 DEF TypeOK
      <4> QED BY <3>1, <4>4 DEF CaptureReads, TypeOK
    <3>2. ASSUME NEW r \in captured, CaptureStores(r)
          PROVE  refs' \union captured' \subseteq Refs /\ blobs' \subseteq Contents /\ captures' \in Nat
      BY <3>2 DEF CaptureStores, Stored, TypeOK
    <3> QED BY <1>13, <3>1, <3>2 DEF Captures
  <2>2. UNCHANGED <<held, date, edits, looked, rowVars, runVars, noteVars, faults>>
    BY <1>13, CaptureLeaves
  <2> QED BY <2>1, <2>2 DEF TypeOK
<1>14. CASE UNCHANGED vars
  BY <1>14 DEF TypeOK, vars
<1> QED BY <1>1, <1>2, <1>3, <1>5, <1>6, <1>7, <1>8, <1>9, <1>10, <1>12, <1>13, <1>14 DEF Next, Captures

(***************************************************************************)
(* Rows, phases and what is listed.                                        *)
(***************************************************************************)
LEMMA BookStep ==
    TypeOK /\ CountersGrow /\ RowAgrees /\ SourcesKnown /\ [Next]_vars =>
        CountersGrow' /\ RowAgrees' /\ SourcesKnown'
<1> SUFFICES ASSUME TypeOK, CountersGrow, RowAgrees, SourcesKnown, [Next]_vars
             PROVE  CountersGrow' /\ RowAgrees' /\ SourcesKnown'
  OBVIOUS
<1> USE DEF sourceVars, storeVars, rowVars, runVars, noteVars
<1>1. ASSUME NEW c \in Comparisons, NEW l \in Sources, NEW r \in Sources, Start(c, l, r)
      PROVE  CountersGrow' /\ RowAgrees' /\ SourcesKnown'
  <2>1. CountersGrow'
    BY <1>1 DEF Start, TypeOK, CountersGrow
  <2>2. RowAgrees'
    BY <1>1 DEF Start, TypeOK, RowAgrees, Goto, Terminal
  <2>3. SourcesKnown'
    BY <1>1 DEF Start, TypeOK, SourcesKnown, Goto, Sides
  <2> QED BY <2>1, <2>2, <2>3
<1>2. ASSUME NEW c \in Comparisons, Cancel(c) PROVE CountersGrow' /\ RowAgrees' /\ SourcesKnown'
  BY <1>2 DEF Cancel, CountersGrow, RowAgrees, SourcesKnown
<1>3. ASSUME NEW c \in Comparisons, NEW rowStatus \in {"completed", "failed", "canceled"},
             NEW jobStatus \in Terminal, Ended(c, rowStatus, jobStatus), pc[c] # "none"
      PROVE  CountersGrow' /\ RowAgrees' /\ SourcesKnown'
  <2>1. RowAgrees'
    BY <1>3 DEF Ended, TypeOK, RowAgrees, Terminal
  <2>2. SourcesKnown' /\ CountersGrow'
    BY <1>3 DEF Ended, TypeOK, SourcesKnown, CountersGrow
  <2> QED BY <2>1, <2>2
<1>4. ASSUME NEW c \in Comparisons, CallFails(c) \/ ThrowsIfAborted(c) \/ RowsRefused(c)
      PROVE  CountersGrow' /\ RowAgrees' /\ SourcesKnown'
  <2>1. pc[c] # "none"
    BY <1>4 DEF CallFails, ThrowsIfAborted, RowsRefused, ReadyToCompare
  <2> QED BY <2>1, <1>3, <1>4, FailureEnds DEF Terminal
<1>5. ASSUME NEW c \in Comparisons, List(c) PROVE CountersGrow' /\ RowAgrees' /\ SourcesKnown'
  BY <1>5 DEF List, Goto, TypeOK, CountersGrow, RowAgrees, SourcesKnown
<1>6. ASSUME NEW c \in Comparisons, Plan(c) PROVE CountersGrow' /\ RowAgrees' /\ SourcesKnown'
  <2> DEFINE n == Cardinality(Entries(c, side[c]) \ Dateless)
  <2>1. n \in Nat
    BY CountsAreNumbers DEF Entries
  <2>2. looked' = looked + n /\ base' = base
    BY <1>6 DEF Plan
  <2>3. CountersGrow'
    BY <2>1, <2>2 DEF TypeOK, CountersGrow
  <2>4. /\ pc' = [pc EXCEPT ![c] = "list"] \/ pc' = [pc EXCEPT ![c] = "next"]
        /\ pc[c] = "plan" /\ UNCHANGED <<row, job, source>>
    BY <1>6 DEF Plan, Goto
  <2>5. RowAgrees' /\ SourcesKnown'
    BY <2>4 DEF TypeOK, RowAgrees, SourcesKnown
  <2> QED BY <2>3, <2>5
<1>7. ASSUME NEW c \in Comparisons, NextChunk(c) PROVE CountersGrow' /\ RowAgrees' /\ SourcesKnown'
  BY <1>7 DEF NextChunk, Goto, TypeOK, CountersGrow, RowAgrees, SourcesKnown
<1>8. ASSUME NEW c \in Comparisons, Materialize(c) PROVE CountersGrow' /\ RowAgrees' /\ SourcesKnown'
  BY <1>8 DEF Materialize, Goto, TypeOK, CountersGrow, RowAgrees, SourcesKnown
<1>9. ASSUME NEW c \in Comparisons, StoreChunk(c) PROVE CountersGrow' /\ RowAgrees' /\ SourcesKnown'
  BY <1>9 DEF StoreChunk, Goto, TypeOK, CountersGrow, RowAgrees, SourcesKnown
<1>10. ASSUME NEW c \in Comparisons, Finish(c) PROVE CountersGrow' /\ RowAgrees' /\ SourcesKnown'
  <2>1. pc[c] # "none"
    BY <1>10 DEF Finish, ReadyToCompare
  <2>2. Ended(c, "completed", "succeeded")
    BY <1>10, FinishEnds
  <2>3. "succeeded" \in Terminal
    BY DEF Terminal
  <2> QED BY <2>1, <2>2, <2>3, <1>3
<1>11. ASSUME NEW t \in Sources, NEW k \in Keys, NEW v \in States, Edit(t, k, v)
       PROVE  CountersGrow' /\ RowAgrees' /\ SourcesKnown'
  BY <1>11 DEF Edit, CountersGrow, RowAgrees, SourcesKnown
<1>12. ASSUME Captures PROVE CountersGrow' /\ RowAgrees' /\ SourcesKnown'
  BY <1>12, CaptureLeaves DEF CountersGrow, RowAgrees, SourcesKnown
<1>13. CASE UNCHANGED vars
  BY <1>13 DEF vars, CountersGrow, RowAgrees, SourcesKnown
<1> QED BY <1>1, <1>2, <1>4, <1>5, <1>6, <1>7, <1>8, <1>9, <1>10, <1>11, <1>12, <1>13 DEF Next, Captures

LEMMA ScopeStep ==
    TypeOK /\ RowAgrees /\ SourcesKnown /\ NothingUnplanned /\ OnlyListed /\ [Next]_vars =>
        NothingUnplanned' /\ OnlyListed'
<1> SUFFICES ASSUME TypeOK, RowAgrees, SourcesKnown, NothingUnplanned, OnlyListed, [Next]_vars
             PROVE  NothingUnplanned' /\ OnlyListed'
  OBVIOUS
<1> USE DEF sourceVars, storeVars, rowVars, runVars, noteVars
<1>1. ASSUME NEW c \in Comparisons, NEW l \in Sources, NEW r \in Sources, Start(c, l, r)
      PROVE  NothingUnplanned' /\ OnlyListed'
  <2>1. pc[c] = "none"
    BY <1>1 DEF Start, RowAgrees
  <2>2. NothingUnplanned'
    BY <1>1, <2>1 DEF Start, TypeOK, NothingUnplanned, IsPlanned, Goto, Sides
  <2>3. OnlyListed'
    BY <1>1 DEF Start, TypeOK, OnlyListed, Entries, Goto
  <2> QED BY <2>2, <2>3
<1>2. ASSUME NEW c \in Comparisons, Cancel(c) PROVE NothingUnplanned' /\ OnlyListed'
  BY <1>2 DEF Cancel, NothingUnplanned, OnlyListed, IsPlanned, Entries
<1>3. ASSUME NEW c \in Comparisons, NEW rowStatus, NEW jobStatus, Ended(c, rowStatus, jobStatus)
      PROVE  NothingUnplanned' /\ OnlyListed'
  <2>1. NothingUnplanned'
    BY <1>3 DEF Ended, TypeOK, NothingUnplanned, IsPlanned, Sides
  <2>2. OnlyListed'
    BY <1>3 DEF Ended, TypeOK, OnlyListed, Entries, NoValues
  <2> QED BY <2>1, <2>2
<1>4. ASSUME NEW c \in Comparisons, CallFails(c) \/ ThrowsIfAborted(c) \/ RowsRefused(c)
      PROVE  NothingUnplanned' /\ OnlyListed'
  BY <1>3, <1>4, FailureEnds
<1>5. ASSUME NEW c \in Comparisons, List(c) PROVE NothingUnplanned' /\ OnlyListed'
  <2>1. ~IsPlanned(c, side[c]) /\ side[c] \in Sides
    BY <1>5 DEF List, IsPlanned, TypeOK, Sides
  <2>2. hit[c][side[c]] = NoValues /\ fresh[c][side[c]] = NoValues /\ toFetch[c][side[c]] = {}
    BY <2>1 DEF NothingUnplanned
  <2>3. NothingUnplanned'
    BY <1>5 DEF List, Goto, TypeOK, NothingUnplanned, IsPlanned, Sides
  <2>4. \A e \in Comparisons, s \in Sides : e # c \/ s # side[c] => listed'[e][s] = listed[e][s]
    BY <1>5 DEF List, TypeOK
  <2>5. pc' = [pc EXCEPT ![c] = "plan"] /\ side' = [side EXCEPT ![c] = @]
        /\ UNCHANGED <<hit, toFetch, tree, fresh>>
    BY <1>5 DEF List, Goto
  <2>6. \A e \in Comparisons, s \in Sides : e # c \/ s # side[c] => Entries(e, s)' = Entries(e, s)
    BY <2>4 DEF Entries
  <2>7. \A e \in Comparisons, s \in Sides : toFetch'[e][s] \subseteq Entries(e, s)'
    BY <2>2, <2>5, <2>6 DEF OnlyListed
  <2>8. \A e \in Comparisons : pc'[e] = "store" => \A k \in Keys : tree'[e][k] # Nothing =>
           k \in Entries(e, side[e])'
    <3>1. \A e \in Comparisons : pc'[e] = "store" =>
             pc[e] = "store" /\ e # c /\ side'[e] = side[e] /\ side[e] \in Sides
      BY <2>5 DEF TypeOK
    <3> QED BY <2>4, <2>5, <3>1 DEF OnlyListed, Entries
  <2>9. \A e \in Comparisons, s \in Sides, k \in Keys :
           hit'[e][s][k] # Nothing \/ fresh'[e][s][k] # Nothing => k \in Entries(e, s)'
    BY <2>2, <2>5, <2>6 DEF OnlyListed, NoValues
  <2>10. OnlyListed'
    BY <2>7, <2>8, <2>9 DEF OnlyListed
  <2> QED BY <2>3, <2>10
<1>6. ASSUME NEW c \in Comparisons, Plan(c) PROVE NothingUnplanned' /\ OnlyListed'
  <2> DEFINE entries == Entries(c, side[c])
  <2> DEFINE found == [k \in Keys |-> IF k \in entries \ Dateless
                                THEN Cached(Here(c), k, listed[c][side[c]][k]) ELSE Nothing]
  <2>1. side[c] \in Sides
    BY DEF TypeOK
  <2>2. /\ hit' = [hit EXCEPT ![c][side[c]] = found]
        /\ toFetch' = [toFetch EXCEPT ![c][side[c]] = {k \in entries : found[k] = Nothing}]
        /\ IF side[c] = "left" THEN Goto(c, "list", "right") ELSE Goto(c, "next", "left")
        /\ UNCHANGED <<listed, tree, fresh>>
    BY <1>6 DEF Plan
  <2>3. \A e \in Comparisons, s \in Sides : e # c \/ s # side[c] =>
          hit'[e][s] = hit[e][s] /\ toFetch'[e][s] = toFetch[e][s]
    BY <2>2 DEF TypeOK
  <2>4. hit'[c][side[c]] = found /\ toFetch'[c][side[c]] = {k \in entries : found[k] = Nothing}
    BY <2>1, <2>2 DEF TypeOK
  <2>5. \A e \in Comparisons \ {c} : pc'[e] = pc[e] /\ side'[e] = side[e]
    BY <2>2 DEF TypeOK, Goto
  <2>6. \/ side[c] = "left" /\ pc'[c] = "list" /\ side'[c] = "right"
        \/ side[c] = "right" /\ pc'[c] = "next" /\ side'[c] = "left"
    BY <2>1, <2>2 DEF TypeOK, Goto, Sides
  <2>7. pc[c] = "plan"
    BY <1>6 DEF Plan
  <2>8. ASSUME NEW e \in Comparisons, NEW s \in Sides, ~IsPlanned(e, s)'
        PROVE  hit'[e][s] = NoValues /\ fresh'[e][s] = NoValues /\ toFetch'[e][s] = {}
    <3>1. ~IsPlanned(e, s) /\ (e # c \/ s # side[c])
      BY <2>5, <2>6, <2>7, <2>8 DEF IsPlanned, Sides
    <3> QED BY <2>2, <2>3, <3>1 DEF NothingUnplanned
  <2>9. NothingUnplanned'
    BY <2>8 DEF NothingUnplanned
  <2>10. \A k \in Keys : found[k] # Nothing => k \in entries
    OBVIOUS
  <2>11. ASSUME NEW e \in Comparisons, NEW s \in Sides
         PROVE  /\ toFetch'[e][s] \subseteq Entries(e, s)'
                /\ \A k \in Keys : hit'[e][s][k] # Nothing \/ fresh'[e][s][k] # Nothing =>
                      k \in Entries(e, s)'
    <3>1. Entries(e, s)' = Entries(e, s)
      BY <2>2 DEF Entries
    <3>2. CASE e = c /\ s = side[c]
      BY <2>2, <2>4, <2>10, <3>1, <3>2 DEF OnlyListed
    <3>3. CASE e # c \/ s # side[c]
      BY <2>2, <2>3, <3>1, <3>3 DEF OnlyListed
    <3> QED BY <3>2, <3>3
  <2>12. OnlyListed'
    BY <2>2, <2>5, <2>6, <2>11 DEF OnlyListed, Entries
  <2> QED BY <2>9, <2>12
<1>7. ASSUME NEW c \in Comparisons, NextChunk(c) PROVE NothingUnplanned' /\ OnlyListed'
  <2>1. NothingUnplanned'
    BY <1>7 DEF NextChunk, Goto, TypeOK, NothingUnplanned, IsPlanned
  <2>2. OnlyListed'
    BY <1>7 DEF NextChunk, Goto, TypeOK, OnlyListed, Entries
  <2> QED BY <2>1, <2>2
<1>8. ASSUME NEW c \in Comparisons, Materialize(c) PROVE NothingUnplanned' /\ OnlyListed'
  <2>1. side[c] \in Sides /\ pc[c] = "fetch" /\ toFetch[c][side[c]] \subseteq Entries(c, side[c])
    BY <1>8 DEF Materialize, TypeOK, OnlyListed
  <2>2. pc' = [pc EXCEPT ![c] = "store"] /\ side' = [side EXCEPT ![c] = @]
        /\ UNCHANGED <<hit, fresh, listed>>
    BY <1>8 DEF Materialize, Goto
  <2>8. PICK chunk, piece, gone : Reads(c, chunk, piece, gone)
    BY <1>8, MaterializeReads
  <2>3. \A e \in Comparisons, s \in Sides : toFetch'[e][s] \subseteq toFetch[e][s]
    BY <2>1, <2>8 DEF Reads, TypeOK
  <2>4. \A k \in Keys : tree'[c][k] # Nothing => k \in toFetch[c][side[c]]
    BY <2>8 DEF Reads, TypeOK
  <2>5. \A e \in Comparisons \ {c} : tree'[e] = tree[e]
    BY <2>8 DEF Reads, TypeOK
  <2>6. NothingUnplanned'
    BY <2>1, <2>2, <2>3 DEF TypeOK, NothingUnplanned, IsPlanned
  <2>7. OnlyListed'
    BY <2>1, <2>2, <2>3, <2>4, <2>5 DEF TypeOK, OnlyListed, Entries
  <2> QED BY <2>6, <2>7
<1>9. ASSUME NEW c \in Comparisons, StoreChunk(c) PROVE NothingUnplanned' /\ OnlyListed'
  <2>1. side[c] \in Sides /\ pc[c] = "store"
    BY <1>9 DEF StoreChunk, TypeOK
  <2>2. pc' = [pc EXCEPT ![c] = "next"] /\ side' = [side EXCEPT ![c] = @]
        /\ UNCHANGED <<hit, toFetch, listed>> /\ tree' = [tree EXCEPT ![c] = NoValues]
    BY <1>9 DEF StoreChunk, Goto
  <2>3. \A e \in Comparisons, s \in Sides : e # c \/ s # side[c] => fresh'[e][s] = fresh[e][s]
    BY <1>9 DEF StoreChunk, TypeOK
  <2>4. \A k \in Keys : fresh'[c][side[c]][k] = IF tree[c][k] # Nothing THEN tree[c][k]
                                                ELSE fresh[c][side[c]][k]
    BY <1>9, <2>1 DEF StoreChunk, TypeOK
  <2>5. NothingUnplanned'
    BY <2>1, <2>2, <2>3 DEF TypeOK, NothingUnplanned, IsPlanned
  <2>6. OnlyListed'
    BY <2>1, <2>2, <2>3, <2>4 DEF TypeOK, OnlyListed, Entries
  <2> QED BY <2>5, <2>6
<1>10. ASSUME NEW c \in Comparisons, Finish(c) PROVE NothingUnplanned' /\ OnlyListed'
  BY <1>3, <1>10, FinishEnds
<1>11. ASSUME NEW t \in Sources, NEW k \in Keys, NEW v \in States, Edit(t, k, v)
       PROVE  NothingUnplanned' /\ OnlyListed'
  BY <1>11 DEF Edit, NothingUnplanned, OnlyListed, IsPlanned, Entries
<1>12. ASSUME Captures PROVE NothingUnplanned' /\ OnlyListed'
  BY <1>12, CaptureLeaves DEF NothingUnplanned, OnlyListed, IsPlanned, Entries
<1>13. CASE UNCHANGED vars
  BY <1>13 DEF vars, NothingUnplanned, OnlyListed, IsPlanned, Entries
<1> QED BY <1>1, <1>2, <1>4, <1>5, <1>6, <1>7, <1>8, <1>9, <1>10, <1>11, <1>12, <1>13 DEF Next, Captures

(***************************************************************************)
(* What a step can do to what is listed, read, stored and seen.            *)
(***************************************************************************)
Kept(e, s) ==
    /\ IsListed(e, s)
    /\ listed'[e][s] = listed[e][s]
    /\ source'[e][s] = source[e][s]
    /\ \A k \in Keys : seen[e][s][k] \subseteq seen'[e][s][k]

(* A side is listed because it was before, or by List. *)
LEMMA ListedBefore ==
    ASSUME TypeOK, RowAgrees, [Next]_vars,
           NEW e \in Comparisons, NEW s \in Sides, IsListed(e, s)'
    PROVE  Kept(e, s) \/ (List(e) /\ s = side[e])
<1> USE DEF sourceVars, storeVars, rowVars, runVars, noteVars
<1> DEFINE Goal == Kept(e, s) \/ (List(e) /\ s = side[e])
<1>1. ASSUME NEW c \in Comparisons, NEW l \in Sources, NEW r \in Sources, Start(c, l, r) PROVE Goal
  <2>1. c # e
    BY <1>1 DEF Start, Goto, TypeOK, IsListed, Sides
  <2> QED BY <1>1, <2>1 DEF Start, Goto, TypeOK, IsListed, Kept
<1>2. ASSUME NEW c \in Comparisons, NEW rowStatus, NEW jobStatus, Ended(c, rowStatus, jobStatus)
      PROVE  Goal
  <2>1. c # e
    BY <1>2 DEF Ended, TypeOK, IsListed
  <2> QED BY <1>2, <2>1 DEF Ended, TypeOK, IsListed, Kept
<1>3. ASSUME NEW c \in Comparisons, CallFails(c) \/ ThrowsIfAborted(c) \/ RowsRefused(c) PROVE Goal
  BY <1>2, <1>3, FailureEnds
<1>4. ASSUME NEW c \in Comparisons, Finish(c) PROVE Goal
  BY <1>2, <1>4, FinishEnds
<1>5. ASSUME NEW c \in Comparisons, List(c) PROVE Goal
  <2>1. pc' = [pc EXCEPT ![c] = "plan"] /\ side' = [side EXCEPT ![c] = @] /\ source' = source
    BY <1>5 DEF List, Goto
  <2>2. CASE c = e /\ s = side[e]
    BY <1>5, <2>2
  <2>3. CASE c # e \/ s # side[e]
    <3>1. listed'[e][s] = listed[e][s] /\ seen'[e][s] = seen[e][s]
      BY <1>5, <2>3 DEF List, TypeOK
    <3>2. IsListed(e, s)
      BY <1>5, <2>1, <2>3 DEF List, TypeOK, IsListed, Sides
    <3> QED BY <2>1, <3>1, <3>2 DEF Kept
  <2> QED BY <2>2, <2>3
<1>6. ASSUME NEW c \in Comparisons, Plan(c) PROVE Goal
  BY <1>6 DEF Plan, Goto, TypeOK, IsListed, Kept, Sides
<1>7. ASSUME NEW c \in Comparisons, NextChunk(c) PROVE Goal
  BY <1>7 DEF NextChunk, Goto, TypeOK, IsListed, Kept
<1>8. ASSUME NEW c \in Comparisons, Materialize(c) PROVE Goal
  BY <1>8 DEF Materialize, Goto, TypeOK, IsListed, Kept
<1>9. ASSUME NEW c \in Comparisons, StoreChunk(c) PROVE Goal
  BY <1>9 DEF StoreChunk, Goto, TypeOK, IsListed, Kept
<1>10. ASSUME NEW c \in Comparisons, Cancel(c) PROVE Goal
  BY <1>10 DEF Cancel, IsListed, Kept
<1>11. ASSUME NEW t \in Sources, NEW k \in Keys, NEW v \in States, Edit(t, k, v) PROVE Goal
  BY <1>11 DEF Edit, TypeOK, IsListed, Kept
<1>12. ASSUME Captures PROVE Goal
  BY <1>12, CaptureLeaves DEF IsListed, Kept
<1>13. CASE UNCHANGED vars
  BY <1>13 DEF vars, IsListed, Kept
<1> QED BY <1>1, <1>3, <1>4, <1>5, <1>6, <1>7, <1>8, <1>9, <1>10, <1>11, <1>12, <1>13 DEF Next, Captures

(* A chunk waits to be stored because it did before, or by Materialize. *)
Waiting(e) ==
    /\ pc[e] = "store"
    /\ tree'[e] = tree[e] /\ side'[e] = side[e]
    /\ listed'[e] = listed[e] /\ source'[e] = source[e] /\ together'[e] = together[e]

LEMMA TreeBefore ==
    ASSUME TypeOK, RowAgrees, [Next]_vars, NEW e \in Comparisons, pc'[e] = "store"
    PROVE  Waiting(e) \/ Materialize(e)
<1> USE DEF sourceVars, storeVars, rowVars, runVars, noteVars
<1> DEFINE Goal == Waiting(e) \/ Materialize(e)
<1>1. ASSUME NEW c \in Comparisons, NEW l \in Sources, NEW r \in Sources, Start(c, l, r) PROVE Goal
  BY <1>1 DEF Start, Goto, TypeOK, Waiting
<1>2. ASSUME NEW c \in Comparisons, NEW rowStatus, NEW jobStatus, Ended(c, rowStatus, jobStatus)
      PROVE  Goal
  BY <1>2 DEF Ended, TypeOK, Waiting
<1>3. ASSUME NEW c \in Comparisons, CallFails(c) \/ ThrowsIfAborted(c) \/ RowsRefused(c) PROVE Goal
  BY <1>2, <1>3, FailureEnds
<1>4. ASSUME NEW c \in Comparisons, Finish(c) PROVE Goal
  BY <1>2, <1>4, FinishEnds
<1>5. ASSUME NEW c \in Comparisons, List(c) PROVE Goal
  BY <1>5 DEF List, Goto, TypeOK, Waiting
<1>6. ASSUME NEW c \in Comparisons, Plan(c) PROVE Goal
  BY <1>6 DEF Plan, Goto, TypeOK, Waiting
<1>7. ASSUME NEW c \in Comparisons, NextChunk(c) PROVE Goal
  BY <1>7 DEF NextChunk, Goto, TypeOK, Waiting
<1>8. ASSUME NEW c \in Comparisons, Materialize(c) PROVE Goal
  <2>1. CASE c = e
    BY <1>8, <2>1
  <2>2. CASE c # e
    <3>1. PICK chunk, piece, gone : Reads(c, chunk, piece, gone)
      BY <1>8, MaterializeReads
    <3>2. tree'[e] = tree[e] /\ together'[e] = together[e]
      BY <2>2, <3>1 DEF Reads, TypeOK
    <3> QED BY <1>8, <2>2, <3>2 DEF Materialize, Goto, TypeOK, Waiting
  <2> QED BY <2>1, <2>2
<1>9. ASSUME NEW c \in Comparisons, StoreChunk(c) PROVE Goal
  BY <1>9 DEF StoreChunk, Goto, TypeOK, Waiting
<1>10. ASSUME NEW c \in Comparisons, Cancel(c) PROVE Goal
  BY <1>10 DEF Cancel, Waiting
<1>11. ASSUME NEW t \in Sources, NEW k \in Keys, NEW v \in States, Edit(t, k, v) PROVE Goal
  BY <1>11 DEF Edit, Waiting
<1>12. ASSUME Captures PROVE Goal
  BY <1>12, CaptureLeaves DEF Waiting
<1>13. CASE UNCHANGED vars
  BY <1>13 DEF vars, Waiting
<1> QED BY <1>1, <1>3, <1>4, <1>5, <1>6, <1>7, <1>8, <1>9, <1>10, <1>11, <1>12, <1>13 DEF Next, Captures

(* A reference was there before, or StoreChunk or CaptureReads made it. *)
JustRead(r) ==
    \E e \in Comparisons : \E k \in Keys \ Dateless :
        /\ pc[e] = "store" /\ tree[e][k] # Nothing
        /\ r.source = Here(e) /\ r.key = k
        /\ r.date = listed[e][side[e]][k] /\ r.content = tree[e][k]
JustCaptured(r) ==
    \E t \in Sources : \E k \in Keys :
        /\ r.source = t /\ r.key = k /\ PartOf(t, k, r.content, held[t][k])
        /\ k \notin Dateless => r.date <= date[t][k]

LEMMA RefsBefore ==
    ASSUME TypeOK, [Next]_vars, NEW r \in References'
    PROVE  \/ r \in References
           \/ (JustRead(r) \/ JustCaptured(r)) /\ UNCHANGED <<held, date>>
<1> USE DEF sourceVars, storeVars, rowVars, runVars, noteVars
<1> USE DEF References
<1>1. ASSUME NEW c \in Comparisons, StoreChunk(c)
      PROVE  r \in References \/ (JustRead(r) /\ UNCHANGED <<held, date>>)
  BY <1>1 DEF StoreChunk, Stored, JustRead
<1>2. ASSUME NEW t \in Orgs, NEW k \in Keys, CaptureReads(t, k)
      PROVE  r \in References \/ (JustCaptured(r) /\ UNCHANGED <<held, date>>)
  <2>0. t \in Sources
    BY SourcesAssumption
  <2>1. PICK d \in 0..date[t][k], others \in SUBSET Paired :
          captured' = captured \union
            {[source |-> t, key |-> k, date |-> Reported(k, d),
              content |-> Answer(t, k, held[t][k], others)]}
    BY <1>2 DEF CaptureReads
  <2>2. k \notin Dateless => Reported(k, d) <= date[t][k]
    BY <2>0 DEF Reported, TypeOK
  <2>3. UNCHANGED <<held, date, refs>>
    BY <1>2 DEF CaptureReads
  <2>4. PartOf(t, k, Answer(t, k, held[t][k], others), held[t][k])
    <3>1. held[t][k] \in Contents
      BY <1>2, <2>0 DEF CaptureReads, TypeOK, States
    <3> QED BY <3>1, AnswerIsPart
  <2> QED BY <2>0, <2>1, <2>2, <2>3, <2>4 DEF JustCaptured
<1>10. ASSUME NEW q \in captured, CaptureStores(q) PROVE r \in References
  BY <1>10 DEF CaptureStores, Stored
<1>3. ASSUME NEW c \in Comparisons, NEW rowStatus, NEW jobStatus, Ended(c, rowStatus, jobStatus)
      PROVE  References' = References
  BY <1>3 DEF Ended
<1>4. ASSUME NEW c \in Comparisons, CallFails(c) \/ ThrowsIfAborted(c) \/ RowsRefused(c) PROVE References' = References
  BY <1>3, <1>4, FailureEnds
<1>5. ASSUME NEW c \in Comparisons, Finish(c) PROVE References' = References
  BY <1>3, <1>5, FinishEnds
<1>6. ASSUME NEW c \in Comparisons, List(c) \/ Plan(c) \/ NextChunk(c) \/ Materialize(c) \/ Cancel(c)
      PROVE  References' = References
  BY <1>6 DEF List, Plan, NextChunk, Materialize, Cancel
<1>7. ASSUME NEW c \in Comparisons, NEW a \in Sources, NEW b \in Sources, Start(c, a, b) PROVE References' = References
  BY <1>7 DEF Start
<1>8. ASSUME NEW t \in Sources, NEW k \in Keys, NEW v \in States, Edit(t, k, v) PROVE References' = References
  BY <1>8 DEF Edit
<1>9. CASE UNCHANGED vars
  BY <1>9 DEF vars
<1> QED BY <1>1, <1>2, <1>4, <1>5, <1>6, <1>7, <1>8, <1>9, <1>10 DEF Next

(* A component changes only by Edit, which dates it anew. *)
LEMMA HeldBefore ==
    ASSUME TypeOK, [Next]_vars
    PROVE  \/ UNCHANGED <<held, date>>
           \/ \E t \in Sources, k \in Keys, v \in States : Edit(t, k, v)
<1> USE DEF sourceVars, storeVars, rowVars, runVars, noteVars
<1> DEFINE Goal == UNCHANGED <<held, date>>
<1>1. ASSUME NEW c \in Comparisons, NEW rowStatus, NEW jobStatus, Ended(c, rowStatus, jobStatus)
      PROVE  Goal
  BY <1>1 DEF Ended
<1>2. ASSUME NEW c \in Comparisons, CallFails(c) \/ ThrowsIfAborted(c) \/ RowsRefused(c) PROVE Goal
  BY <1>1, <1>2, FailureEnds
<1>3. ASSUME NEW c \in Comparisons, Finish(c) PROVE Goal
  BY <1>1, <1>3, FinishEnds
<1>4. ASSUME NEW c \in Comparisons,
             List(c) \/ Plan(c) \/ NextChunk(c) \/ Materialize(c) \/ StoreChunk(c) \/ Cancel(c)
      PROVE  Goal
  BY <1>4 DEF List, Plan, NextChunk, Materialize, StoreChunk, Cancel
<1>5. ASSUME NEW c \in Comparisons, NEW a \in Sources, NEW b \in Sources, Start(c, a, b) PROVE Goal
  BY <1>5 DEF Start
<1>6. ASSUME Captures PROVE Goal
  BY <1>6, CaptureLeaves
<1>7. CASE UNCHANGED vars
  BY <1>7 DEF vars
<1> QED BY <1>2, <1>3, <1>4, <1>5, <1>6, <1>7 DEF Next, Captures

LEMMA EditEffects ==
    ASSUME TypeOK, NEW t \in Sources, NEW k \in Keys, NEW v \in States, Edit(t, k, v)
    PROVE  /\ refs' = refs /\ captured' = captured /\ pc' = pc /\ side' = side /\ listed' = listed /\ source' = source
           /\ tree' = tree /\ hit' = hit /\ fresh' = fresh /\ toFetch' = toFetch /\ lost' = lost
           /\ held'[t][k] = v /\ date'[t][k] = date[t][k] + 1
           /\ \A u \in Sources, j \in Keys : u # t \/ j # k =>
                 held'[u][j] = held[u][j] /\ date'[u][j] = date[u][j]
  BY DEF Edit, TypeOK, sourceVars, storeVars, rowVars, runVars, noteVars

LEMMA ListEffects ==
    ASSUME TypeOK, SourcesKnown, NEW c \in Comparisons, List(c)
    PROVE  /\ pc[c] = "list" /\ pc'[c] = "plan" /\ side'[c] = side[c] /\ side[c] \in Sides
           /\ Here(c) \in Sources /\ UNCHANGED <<held, date, refs, captured, source, hit, fresh, toFetch, tree>>
           /\ \A k \in Keys :
                 /\ seen'[c][side[c]][k] = {held[Here(c)][k]}
                 /\ listed'[c][side[c]][k] # Nothing /\ k \notin Dateless =>
                       listed'[c][side[c]][k] = date[Here(c)][k]
                 /\ k \notin lost'[c] /\ listed'[c][side[c]][k] = Nothing => held[Here(c)][k] = Absent
<1> USE DEF sourceVars, storeVars, rowVars, runVars, noteVars
<1> DEFINE here == {k \in Keys : held[Here(c)][k] # Absent}
<1>1. pc[c] = "list" /\ side[c] \in Sides /\ Here(c) \in Sources
  BY HereIsASource DEF List
<1>2. PICK gone \in SUBSET here :
        /\ lost' = [lost EXCEPT ![c] = @ \union gone]
        /\ listed' = [listed EXCEPT ![c][side[c]] =
              [k \in Keys |-> IF k \in here \ gone
                              THEN Reported(k, date[Here(c)][k]) ELSE Nothing]]
  BY DEF List
<1>3. /\ seen' = [seen EXCEPT ![c][side[c]] = [k \in Keys |-> {held[Here(c)][k]}]]
      /\ pc' = [pc EXCEPT ![c] = "plan"] /\ side' = [side EXCEPT ![c] = @]
      /\ UNCHANGED <<held, date, refs, captured, source, hit, fresh, toFetch, tree>>
  BY DEF List, Goto
<1>4. \A k \in Keys : listed'[c][side[c]][k] = IF k \in here \ gone
                              THEN Reported(k, date[Here(c)][k]) ELSE Nothing
  BY <1>1, <1>2 DEF TypeOK
<1>5. \A k \in Keys : Reported(k, date[Here(c)][k]) # Nothing
                      /\ (k \notin Dateless => Reported(k, date[Here(c)][k]) = date[Here(c)][k])
  BY <1>1, ValuesAssumption DEF TypeOK, Reported
<1>6. gone \subseteq lost'[c]
  BY <1>2 DEF TypeOK
<1> QED BY <1>1, <1>3, <1>4, <1>5, <1>6 DEF TypeOK

LEMMA MaterializeEffects ==
    ASSUME TypeOK, SourcesKnown, NEW c \in Comparisons, Materialize(c)
    PROVE  /\ pc[c] = "fetch" /\ pc'[c] = "store" /\ side'[c] = side[c] /\ side[c] \in Sides
           /\ Here(c) \in Sources /\ UNCHANGED <<held, date, refs, captured, source, listed, hit, fresh, seen>>
           /\ \A e \in Comparisons, s \in Sides : e # c \/ s # side[c] =>
                 toFetch'[e][s] = toFetch[e][s] /\ together'[e][s] = together[e][s]
           /\ lost[c] \subseteq lost'[c]
           /\ toFetch'[c][side[c]] \subseteq toFetch[c][side[c]]
           /\ toFetch'[c][side[c]] \intersect Profiles = {}
           /\ \A k \in Keys :
                 /\ tree'[c][k] # Nothing =>
                       /\ k \in toFetch[c][side[c]] \ toFetch'[c][side[c]]
                       /\ held[Here(c)][k] # Absent
                       /\ PartOf(Here(c), k, tree'[c][k], held[Here(c)][k])
                       /\ ReadOf(k, tree'[c][k], held[Here(c)][k],
                                 IF Here(c) \in Orgs THEN together'[c][side[c]][k] ELSE Paired)
                 /\ \/ together'[c][side[c]][k] = together[c][side[c]][k]
                    \/ tree'[c][k] # Nothing /\ k \in Profiles
                 /\ tree'[c][k] # Nothing /\ k \in Profiles \ lost'[c] =>
                       together'[c][side[c]][k] = toFetch[c][side[c]] \intersect Paired
                 /\ /\ k \in toFetch[c][side[c]] \ toFetch'[c][side[c]]
                    /\ tree'[c][k] = Nothing /\ k \notin lost'[c]
                    => held[Here(c)][k] = Absent
<1> USE DEF sourceVars, storeVars, rowVars, runVars, noteVars
<1> DEFINE s == side[c]
           here == held[Here(c)]
<1>1. pc[c] = "fetch" /\ s \in Sides /\ Here(c) \in Sources
  BY HereIsASource DEF Materialize
<1>2. PICK chunk, piece, gone : Reads(c, chunk, piece, gone)
  BY MaterializeReads
<1> DEFINE there == {k \in chunk : here[k] # Absent}
           apart == {k \in chunk \intersect Profiles : piece[k] # chunk}
           read == there \ gone
<1>3. /\ chunk \subseteq toFetch[c][s] /\ gone \subseteq there
      /\ toFetch[c][s] \intersect Profiles # {} =>
            chunk = toFetch[c][s] \intersect (Profiles \union Paired)
      /\ lost' = [lost EXCEPT ![c] = @ \union gone \union apart]
      /\ tree' = [tree EXCEPT ![c] = [k \in Keys |->
            IF k \in read THEN Answer(Here(c), k, here[k], piece[k]) ELSE Nothing]]
      /\ together' = [together EXCEPT ![c][s] = [k \in Keys |->
            IF k \in read \intersect Profiles THEN piece[k] \intersect Paired ELSE @[k]]]
      /\ toFetch' = [toFetch EXCEPT ![c][s] = @ \ chunk]
  BY <1>2 DEF Reads
<1>4. pc' = [pc EXCEPT ![c] = "store"] /\ side' = [side EXCEPT ![c] = @]
      /\ UNCHANGED <<held, date, refs, captured, source, listed, hit, fresh, seen>>
  BY DEF Materialize, Goto
<1>5. /\ toFetch'[c][s] = toFetch[c][s] \ chunk
      /\ \A e \in Comparisons, t \in Sides : e # c \/ t # s =>
            toFetch'[e][t] = toFetch[e][t] /\ together'[e][t] = together[e][t]
  BY <1>1, <1>3 DEF TypeOK
<1>6. \A k \in Keys : tree'[c][k] = IF k \in read THEN Answer(Here(c), k, here[k], piece[k]) ELSE Nothing
  BY <1>3 DEF TypeOK
<1>7. \A k \in Keys : together'[c][s][k] =
         IF k \in read \intersect Profiles THEN piece[k] \intersect Paired ELSE together[c][s][k]
  BY <1>1, <1>3 DEF TypeOK
<1>8. lost'[c] = lost[c] \union gone \union apart
  BY <1>3 DEF TypeOK
<1>9. toFetch'[c][s] \intersect Profiles = {}
  BY <1>3, <1>5
<1>10. ASSUME NEW k \in Keys, k \in read
       PROVE  /\ here[k] # Absent /\ k \in chunk
              /\ tree'[c][k] # Nothing
              /\ PartOf(Here(c), k, tree'[c][k], here[k])
              /\ ReadOf(k, tree'[c][k], here[k], IF Here(c) \in Orgs THEN together'[c][s][k] ELSE Paired)
  <2>1. here[k] # Absent /\ k \in chunk /\ here[k] \in Contents
    BY <1>1, <1>10 DEF TypeOK, States
  <2>2. tree'[c][k] = Answer(Here(c), k, here[k], piece[k])
    BY <1>6, <1>10
  <2>3. /\ Answer(Here(c), k, here[k], piece[k]) \in Contents
        /\ PartOf(Here(c), k, Answer(Here(c), k, here[k], piece[k]), here[k])
        /\ ReadOf(k, Answer(Here(c), k, here[k], piece[k]), here[k],
                  IF Here(c) \in Orgs THEN piece[k] \intersect Paired ELSE Paired)
    BY <2>1, AnswerIsPart
  <2>4. k \in Profiles => together'[c][s][k] = piece[k] \intersect Paired
    BY <1>7, <1>10
  <2>5. k \notin Profiles =>
           ReadOf(k, tree'[c][k], here[k], IF Here(c) \in Orgs THEN together'[c][s][k] ELSE Paired)
    BY <2>2, <2>3 DEF ReadOf
  <2>6. tree'[c][k] # Nothing
    BY <2>2, <2>3, ValuesAssumption
  <2> QED BY <2>1, <2>2, <2>3, <2>4, <2>5, <2>6
<1>11. \A k \in Keys : tree'[c][k] # Nothing => k \in read
  BY <1>6
<1>12. ASSUME NEW k \in Profiles \ lost'[c], k \in read
       PROVE  together'[c][s][k] = toFetch[c][s] \intersect Paired
  <2>1. k \in chunk /\ k \notin apart /\ k \in Keys
    BY <1>8, <1>12, KeysAssumption
  <2>2. piece[k] = chunk /\ chunk = toFetch[c][s] \intersect (Profiles \union Paired)
    BY <1>3, <1>12, <2>1
  <2> QED BY <1>7, <1>12, <2>1, <2>2
<1>13. \A k \in Keys : k \in chunk /\ k \notin read /\ k \notin lost'[c] => here[k] = Absent
  BY <1>8
<1> HIDE DEF read, there, apart
<1>14. pc'[c] = "store" /\ side'[c] = s /\ lost[c] \subseteq lost'[c]
  BY <1>4, <1>8 DEF TypeOK
<1> HIDE DEF s, here
<1>15. \A k \in Keys :
         /\ tree'[c][k] # Nothing =>
               /\ k \in toFetch[c][s] \ toFetch'[c][s]
               /\ here[k] # Absent
               /\ PartOf(Here(c), k, tree'[c][k], here[k])
               /\ ReadOf(k, tree'[c][k], here[k], IF Here(c) \in Orgs THEN together'[c][s][k] ELSE Paired)
         /\ \/ together'[c][s][k] = together[c][s][k]
            \/ tree'[c][k] # Nothing /\ k \in Profiles
         /\ tree'[c][k] # Nothing /\ k \in Profiles \ lost'[c] =>
               together'[c][s][k] = toFetch[c][s] \intersect Paired
         /\ k \in toFetch[c][s] \ toFetch'[c][s] /\ tree'[c][k] = Nothing /\ k \notin lost'[c]
               => here[k] = Absent
  BY <1>3, <1>5, <1>7, <1>10, <1>11, <1>12, <1>13
<1>16. toFetch'[c][s] \subseteq toFetch[c][s]
  BY <1>5
<1> QED BY <1>1, <1>4, <1>5, <1>9, <1>14, <1>15, <1>16 DEF s, here

(***************************************************************************)
(* The store.                                                              *)
(***************************************************************************)
LEMMA DatesGrow ==
    ASSUME TypeOK, [Next]_vars, NEW u \in Sources, NEW j \in Keys
    PROVE  /\ date[u][j] \in Nat /\ date[u][j] <= date'[u][j]
           /\ date'[u][j] = date[u][j] => held'[u][j] = held[u][j]
<1>1. date[u][j] \in Nat
  BY DEF TypeOK
<1>2. CASE UNCHANGED <<held, date>>
  BY <1>1, <1>2
<1>3. ASSUME NEW t \in Sources, NEW k \in Keys, NEW v \in States, Edit(t, k, v)
      PROVE  /\ date[u][j] <= date'[u][j]
             /\ date'[u][j] = date[u][j] => held'[u][j] = held[u][j]
  BY <1>1, <1>3, EditEffects
<1> QED BY <1>1, <1>2, <1>3, HeldBefore

(* What is about to be stored is of a source, listed, and not from ahead. *)
LEMMA ToStore ==
    ASSUME TypeOK, RowAgrees, SourcesKnown, OnlyListed, ListedPast,
           NEW e \in Comparisons, pc[e] = "store", NEW k \in Keys \ Dateless, tree[e][k] # Nothing
    PROVE  /\ side[e] \in Sides /\ Here(e) \in Sources /\ IsListed(e, side[e])
           /\ listed[e][side[e]][k] \in Nat /\ listed[e][side[e]][k] <= date[Here(e)][k]
<1>1. side[e] \in Sides /\ Here(e) \in Sources /\ IsListed(e, side[e])
  BY HereIsASource DEF IsListed
<1>2. listed[e][side[e]][k] # Nothing
  BY DEF OnlyListed, Entries
<1>3. listed[e][side[e]][k] \in Nat
  BY <1>1, <1>2 DEF TypeOK
<1> QED BY <1>1, <1>2, <1>3 DEF ListedPast, Here

LEMMA StoreStep == StoreInv /\ TypeOK' /\ [Next]_vars =>
                       CapturedCurrent' /\ RefsPast' /\ StoreNeverLies' /\ ListedPast' /\ TreeCurrent'
<1> SUFFICES ASSUME StoreInv, TypeOK', [Next]_vars
             PROVE  CapturedCurrent' /\ RefsPast' /\ StoreNeverLies' /\ ListedPast' /\ TreeCurrent'
  OBVIOUS
<1>i. TypeOK /\ RowAgrees /\ SourcesKnown /\ OnlyListed
      /\ StoreNeverLies /\ CapturedCurrent /\ RefsPast /\ ListedPast /\ TreeCurrent
  BY DEF StoreInv
<1>1. ASSUME NEW r \in References', r.key \notin Dateless
      PROVE  /\ r.date <= date'[r.source][r.key]
             /\ r.date = date'[r.source][r.key] => PartOf(r.source, r.key, r.content, held'[r.source][r.key])
  <2>1. r.source \in Sources /\ r.key \in Keys /\ r.date \in Nat
    BY DEF TypeOK, References
  <2>2. /\ date[r.source][r.key] \in Nat /\ date[r.source][r.key] <= date'[r.source][r.key]
        /\ date'[r.source][r.key] = date[r.source][r.key] =>
              held'[r.source][r.key] = held[r.source][r.key]
    BY <1>i, <2>1, DatesGrow
  <2>3. date'[r.source][r.key] \in Nat
    BY <2>1 DEF TypeOK
  <2>4. CASE r \in References
    <3>1. r.date <= date[r.source][r.key]
      BY <1>1, <1>i, <2>4 DEF RefsPast
    <3>2. r.date = date[r.source][r.key] => PartOf(r.source, r.key, r.content, held[r.source][r.key])
      BY <1>1, <1>i, <2>4 DEF StoreNeverLies, CapturedCurrent, References, PartOf, Whole
    <3> QED BY <2>1, <2>2, <2>3, <3>1, <3>2
  <2>5. CASE JustRead(r) /\ UNCHANGED <<held, date>>
    <3>1. PICK e \in Comparisons : \E k \in Keys \ Dateless :
             /\ pc[e] = "store" /\ tree[e][k] # Nothing
             /\ r.source = Here(e) /\ r.key = k
             /\ r.date = listed[e][side[e]][k] /\ r.content = tree[e][k]
      BY <2>5 DEF JustRead
    <3>2. r.date <= date[r.source][r.key]
      BY <1>i, <3>1, ToStore
    <3>3. r.date = date[r.source][r.key] => PartOf(r.source, r.key, r.content, held[r.source][r.key])
      BY <1>i, <3>1 DEF TreeCurrent, Here
    <3> QED BY <2>5, <3>2, <3>3
  <2>6. CASE JustCaptured(r) /\ UNCHANGED <<held, date>>
    BY <1>1, <2>6 DEF JustCaptured
  <2> QED BY <1>i, <2>4, <2>5, <2>6, RefsBefore
<1>2. CapturedCurrent' /\ RefsPast' /\ StoreNeverLies'
  BY <1>1 DEF CapturedCurrent, RefsPast, StoreNeverLies, References, PartOf, Whole
<1>3. ASSUME NEW c \in Comparisons, NEW s \in Sides, IsListed(c, s)', NEW k \in Keys \ Dateless,
             listed'[c][s][k] # Nothing
      PROVE  listed'[c][s][k] <= date'[source'[c][s]][k]
  <2>1. listed'[c][s][k] \in Nat
    BY <1>3 DEF TypeOK
  <2>2. CASE Kept(c, s)
    <3>1. source[c][s] \in Sources
      BY <1>i, <2>2 DEF Kept, IsListed, SourcesKnown
    <3>2. listed[c][s][k] <= date[source[c][s]][k]
      BY <1>i, <1>3, <2>2 DEF Kept, ListedPast
    <3>3. date[source[c][s]][k] \in Nat /\ date[source[c][s]][k] <= date'[source[c][s]][k]
      BY <1>i, <3>1, DatesGrow
    <3>4. date'[source[c][s]][k] \in Nat
      BY <3>1 DEF TypeOK
    <3> QED BY <2>1, <2>2, <3>2, <3>3, <3>4 DEF Kept
  <2>3. CASE List(c) /\ s = side[c]
    BY <1>i, <1>3, <2>1, <2>3, ListEffects DEF Here
  <2> QED BY <1>i, <1>3, <2>2, <2>3, ListedBefore
<1>4. ListedPast'
  BY <1>3 DEF ListedPast
<1>5. ASSUME NEW e \in Comparisons, pc'[e] = "store", NEW k \in Keys \ Dateless,
             tree'[e][k] # Nothing, listed'[e][side'[e]][k] = date'[source'[e][side'[e]]][k]
      PROVE  PartOf(source'[e][side'[e]], k, tree'[e][k], held'[source'[e][side'[e]]][k])
  <2>1. CASE Waiting(e)
    <3>1. Here(e) \in Sources /\ listed[e][side[e]][k] <= date[Here(e)][k]
      BY <1>i, <1>5, <2>1, ToStore DEF Waiting
    <3>2. /\ date[Here(e)][k] \in Nat /\ date[Here(e)][k] <= date'[Here(e)][k]
          /\ date'[Here(e)][k] = date[Here(e)][k] => held'[Here(e)][k] = held[Here(e)][k]
      BY <1>i, <3>1, DatesGrow
    <3>3. listed[e][side[e]][k] = date'[Here(e)][k] /\ date'[Here(e)][k] \in Nat
      BY <1>5, <2>1, <3>1 DEF Waiting, Here, TypeOK
    <3>4. date'[Here(e)][k] = date[Here(e)][k]
      BY <3>1, <3>2, <3>3
    <3>5. PartOf(Here(e), k, tree[e][k], held[Here(e)][k])
      BY <1>i, <1>5, <2>1, <3>3, <3>4 DEF Waiting, TreeCurrent, Here
    <3> QED BY <2>1, <3>2, <3>4, <3>5 DEF Waiting, Here
  <2>2. CASE Materialize(e)
    BY <1>i, <1>5, <2>2, MaterializeEffects DEF Here
  <2> QED BY <1>i, <1>5, <2>1, <2>2, TreeBefore
<1>6. TreeCurrent'
  BY <1>5 DEF TreeCurrent, PartOf
<1> QED BY <1>2, <1>4, <1>6

(***************************************************************************)
(* What a step can do to one comparison.                                   *)
(***************************************************************************)
SeenGrows(c) ==
    \A s \in Sides, k \in Keys : seen[c][s][k] \subseteq seen'[c][s][k]

Untouched(c) ==
    /\ row'[c] = row[c] /\ job'[c] = job[c] /\ pc'[c] = pc[c] /\ side'[c] = side[c]
    /\ listed'[c] = listed[c] /\ hit'[c] = hit[c] /\ toFetch'[c] = toFetch[c]
    /\ tree'[c] = tree[c] /\ fresh'[c] = fresh[c] /\ lost'[c] = lost[c]
    /\ verdict'[c] = verdict[c] /\ unreadable'[c] = unreadable[c]
    /\ source'[c] = source[c] /\ together'[c] = together[c]
    /\ SeenGrows(c)

Failed(c) ==
    \E outcome \in {"failed", "canceled"} :
        Ended(c, outcome, outcome) /\ UNCHANGED <<reported, verdict, unreadable>>

OwnStep(c) ==
    \/ \E l, r \in Sources : Start(c, l, r)
    \/ Failed(c) \/ Finish(c)
    \/ List(c) \/ Plan(c) \/ NextChunk(c) \/ Materialize(c) \/ StoreChunk(c)

LEMMA OneStepsAtATime ==
    ASSUME TypeOK, [Next]_vars, NEW c \in Comparisons
    PROVE  Untouched(c) \/ OwnStep(c)
<1> USE DEF sourceVars, storeVars, rowVars, runVars, noteVars
<1>1. ASSUME NEW e \in Comparisons, NEW l \in Sources, NEW r \in Sources, Start(e, l, r), c # e
      PROVE  Untouched(c)
  BY <1>1 DEF Start, Goto, TypeOK, Untouched, SeenGrows
<1>2. ASSUME NEW e \in Comparisons, NEW rowStatus, NEW jobStatus, Ended(e, rowStatus, jobStatus),
             c # e, verdict'[c] = verdict[c], unreadable'[c] = unreadable[c]
      PROVE  Untouched(c)
  BY <1>2 DEF Ended, TypeOK, Untouched, SeenGrows
<1>3. ASSUME NEW e \in Comparisons, CallFails(e) \/ ThrowsIfAborted(e) \/ RowsRefused(e)
      PROVE  Untouched(c) \/ OwnStep(c)
  <2>1. Failed(e)
    BY <1>3, FailureEnds DEF Failed
  <2>2. CASE c = e
    BY <2>1, <2>2 DEF OwnStep
  <2>3. CASE c # e
    BY <1>2, <2>1, <2>3 DEF Failed
  <2> QED BY <2>2, <2>3
<1>4. ASSUME NEW e \in Comparisons, Finish(e), c # e PROVE Untouched(c)
  <2>1. verdict'[c] = verdict[c] /\ unreadable'[c] = unreadable[c]
    BY <1>4 DEF Finish, TypeOK
  <2> QED BY <1>2, <1>4, <2>1, FinishEnds
<1>5. ASSUME NEW e \in Comparisons, List(e), c # e PROVE Untouched(c)
  BY <1>5 DEF List, Goto, TypeOK, Untouched, SeenGrows
<1>6. ASSUME NEW e \in Comparisons, Plan(e), c # e PROVE Untouched(c)
  BY <1>6 DEF Plan, Goto, TypeOK, Untouched, SeenGrows
<1>7. ASSUME NEW e \in Comparisons, NextChunk(e), c # e PROVE Untouched(c)
  BY <1>7 DEF NextChunk, Goto, TypeOK, Untouched, SeenGrows
<1>8. ASSUME NEW e \in Comparisons, Materialize(e), c # e PROVE Untouched(c)
  BY <1>8 DEF Materialize, Goto, TypeOK, Untouched, SeenGrows
<1>9. ASSUME NEW e \in Comparisons, StoreChunk(e), c # e PROVE Untouched(c)
  BY <1>9 DEF StoreChunk, Goto, TypeOK, Untouched, SeenGrows
<1>10. ASSUME NEW e \in Comparisons, Cancel(e) PROVE Untouched(c)
  BY <1>10 DEF Cancel, Untouched, SeenGrows
<1>11. ASSUME NEW t \in Sources, NEW k \in Keys, NEW v \in States, Edit(t, k, v) PROVE Untouched(c)
  <2>1. SeenGrows(c)
    BY <1>11 DEF Edit, TypeOK, SeenGrows
  <2> QED BY <1>11, <2>1 DEF Edit, Untouched
<1>12. ASSUME Captures PROVE Untouched(c)
  BY <1>12, CaptureLeaves DEF Untouched, SeenGrows
<1>13. CASE UNCHANGED vars
  BY <1>13 DEF vars, Untouched, SeenGrows
<1>14. ASSUME NEW e \in Comparisons, NEW l \in Sources, NEW r \in Sources, Start(e, l, r)
       PROVE  Untouched(c) \/ OwnStep(c)
  BY <1>1, <1>14 DEF OwnStep
<1>15. ASSUME NEW e \in Comparisons,
              Finish(e) \/ List(e) \/ Plan(e) \/ NextChunk(e) \/ Materialize(e) \/ StoreChunk(e)
       PROVE  Untouched(c) \/ OwnStep(c)
  BY <1>4, <1>5, <1>6, <1>7, <1>8, <1>9, <1>15 DEF OwnStep
<1> QED BY <1>3, <1>10, <1>11, <1>12, <1>13, <1>14, <1>15 DEF Next, Captures

(***************************************************************************)
(* What each side was seen to hold.                                        *)
(***************************************************************************)
LEMMA EditIsSeen ==
    ASSUME TypeOK, NEW t \in Sources, NEW k \in Keys, NEW v \in States, Edit(t, k, v),
           NEW c \in Comparisons, NEW s \in Sides,
           source[c][s] = t, seen[c][s][k] # {}, pc[c] # "done"
    PROVE  v \in seen'[c][s][k]
  BY DEF Edit, TypeOK

LEMMA HeldIsSeen ==
    ASSUME StoreInv, HeldSeen, [Next]_vars, NEW c \in Comparisons, NEW s \in Sides, IsListed(c, s)',
           NEW k \in Keys
    PROVE  held'[source'[c][s]][k] \in seen'[c][s][k]
<1>i. TypeOK /\ RowAgrees /\ SourcesKnown
  BY DEF StoreInv
<1>1. CASE List(c) /\ s = side[c]
  BY <1>i, <1>1, ListEffects DEF Here
<1>2. CASE Kept(c, s)
  <2>1. source[c][s] \in Sources /\ pc[c] # "done"
    BY <1>i, <1>2 DEF Kept, IsListed, SourcesKnown
  <2>2. held[source[c][s]][k] \in seen[c][s][k]
    BY <1>2 DEF Kept, HeldSeen
  <2>3. held'[source[c][s]][k] = held[source[c][s]][k] \/ held'[source[c][s]][k] \in seen'[c][s][k]
    <3>1. CASE UNCHANGED <<held, date>>
      BY <3>1
    <3>2. ASSUME NEW t \in Sources, NEW j \in Keys, NEW v \in States, Edit(t, j, v)
          PROVE  held'[source[c][s]][k] = held[source[c][s]][k] \/ held'[source[c][s]][k] \in seen'[c][s][k]
      <4>1. CASE source[c][s] = t /\ j = k
        BY <1>i, <2>1, <2>2, <3>2, <4>1, EditIsSeen, EditEffects
      <4>2. CASE ~(source[c][s] = t /\ j = k)
        BY <1>i, <2>1, <3>2, <4>2, EditEffects
      <4> QED BY <4>1, <4>2
    <3> QED BY <1>i, <3>1, <3>2, HeldBefore
  <2> QED BY <1>2, <2>2, <2>3 DEF Kept
<1> QED BY <1>i, <1>1, <1>2, ListedBefore

LEMMA SeenStep == StoreInv /\ SeenInv /\ [Next]_vars => HeldSeen' /\ RefsSeen' /\ TreesSeen'
<1> SUFFICES ASSUME StoreInv, SeenInv, [Next]_vars PROVE HeldSeen' /\ RefsSeen' /\ TreesSeen'
  OBVIOUS
<1>i. TypeOK /\ RowAgrees /\ SourcesKnown /\ StoreNeverLies /\ CapturedCurrent /\ TreeCurrent
  BY DEF StoreInv
<1>j. HeldSeen /\ RefsSeen /\ TreesSeen
  BY DEF SeenInv
<1>1. HeldSeen'
  BY <1>j, HeldIsSeen DEF HeldSeen
<1>2. ASSUME NEW c \in Comparisons, NEW s \in Sides, IsListed(c, s)', NEW r \in References',
             r.source = source'[c][s], r.key \notin Dateless, r.date = listed'[c][s][r.key],
             r.source \in Sources, r.key \in Keys
      PROVE  \E v \in seen'[c][s][r.key] : PartOf(source'[c][s], r.key, r.content, v)
  <2>1. CASE List(c) /\ s = side[c]
    <3>1. r \in References /\ r.source = Here(c)
      BY <1>i, <1>2, <2>1, ListEffects DEF Here, References
    <3>2. r.date \in Nat
      BY <1>i, <3>1 DEF TypeOK, References
    <3>3. r.date = date[r.source][r.key]
      BY <1>i, <1>2, <2>1, <3>1, <3>2, ListEffects, ValuesAssumption
    <3>4. PartOf(r.source, r.key, r.content, held[r.source][r.key])
      BY <1>i, <1>2, <3>1, <3>3 DEF StoreNeverLies, CapturedCurrent, References, PartOf, Whole
    <3>5. seen'[c][side[c]][r.key] = {held[Here(c)][r.key]}
      BY <1>i, <1>2, <2>1, ListEffects
    <3> QED BY <1>2, <2>1, <3>1, <3>4, <3>5
  <2>2. CASE Kept(c, s)
    <3>1. CASE r \in References
      BY <1>2, <1>j, <2>2, <3>1 DEF Kept, RefsSeen, PartSeen
    <3>2. CASE JustRead(r)
      <4>1. PICK e \in Comparisons : \E k \in Keys \ Dateless :
             /\ pc[e] = "store" /\ tree[e][k] # Nothing
             /\ r.source = Here(e) /\ r.key = k
             /\ r.date = listed[e][side[e]][k] /\ r.content = tree[e][k]
        BY <3>2 DEF JustRead
      <4> QED BY <1>2, <1>j, <2>2, <4>1 DEF TreesSeen, Kept, Here, PartSeen
    <3>3. CASE JustCaptured(r)
      BY <1>2, <1>j, <2>2, <3>3 DEF JustCaptured, HeldSeen, Kept
    <3> QED BY <1>i, <3>1, <3>2, <3>3, RefsBefore
  <2> QED BY <1>i, <1>2, <2>1, <2>2, ListedBefore
<1>t. TypeOK'
  BY TypeStep DEF StoreInv
<1>3. RefsSeen'
  <2>1. \A r \in References' : r.source \in Sources /\ r.key \in Keys
    BY <1>t DEF TypeOK, References
  <2> QED BY <1>2, <2>1 DEF RefsSeen, PartSeen, PartOf
<1>4. ASSUME NEW c \in Comparisons, NEW e \in Comparisons, NEW s \in Sides,
             IsListed(c, s)', pc'[e] = "store", NEW k \in Keys \ Dateless,
             source'[e][side'[e]] = source'[c][s], listed'[e][side'[e]][k] = listed'[c][s][k],
             tree'[e][k] # Nothing
      PROVE  \E v \in seen'[c][s][k] : PartOf(source'[c][s], k, tree'[e][k], v)
  <2>1. CASE Materialize(e)
    <3>1. PartOf(source'[c][s], k, tree'[e][k], held'[source'[c][s]][k])
      BY <1>i, <1>4, <2>1, MaterializeEffects DEF Here
    <3> QED BY <1>4, <1>j, <3>1, HeldIsSeen
  <2>2. CASE Waiting(e) /\ Kept(c, s)
    <3>1. \E v \in seen[c][s][k] : PartOf(source[c][s], k, tree[e][k], v)
      BY <1>4, <1>j, <2>2 DEF Waiting, Kept, TreesSeen, PartSeen
    <3> QED BY <2>2, <3>1 DEF Waiting, Kept
  <2>3. CASE Waiting(e) /\ List(c) /\ s = side[c]
    <3>1. IsListed(e, side[e]) /\ side[e] \in Sides /\ pc[e] = "store" /\ tree[e][k] # Nothing
      BY <1>i, <1>4, <2>3, HereIsASource DEF Waiting, IsListed
    <3>2. listed[e][side[e]][k] # Nothing
      BY <3>1 DEF StoreInv, OnlyListed, Entries
    <3>3. Here(e) = Here(c) /\ listed[e][side[e]][k] = date[Here(c)][k]
      <4>1. listed'[c][side[c]][k] = listed[e][side[e]][k] /\ source'[c][side[c]] = Here(e)
        BY <1>4, <2>3 DEF Waiting, Here
      <4>2. /\ source' = source
            /\ listed'[c][side[c]][k] # Nothing => listed'[c][side[c]][k] = date[Here(c)][k]
        BY <1>i, <1>4, <2>3, ListEffects
      <4> QED BY <3>2, <4>1, <4>2 DEF Here
    <3>4. PartOf(Here(c), k, tree[e][k], held[Here(c)][k])
      BY <1>i, <3>1, <3>3 DEF TreeCurrent, Here
    <3>5. PartOf(source'[c][s], k, tree'[e][k], held[Here(c)][k])
      <4>1. source' = source
        BY <1>i, <2>3, ListEffects
      <4> QED BY <2>3, <3>4, <4>1 DEF Waiting, Here
    <3>6. seen'[c][side[c]][k] = {held[Here(c)][k]}
      BY <1>i, <1>4, <2>3, ListEffects
    <3> QED BY <2>3, <3>5, <3>6
  <2> QED BY <1>i, <1>4, <2>1, <2>2, <2>3, TreeBefore, ListedBefore
<1>5. TreesSeen'
  BY <1>4 DEF TreesSeen, PartSeen, PartOf
<1> QED BY <1>1, <1>3, <1>5

(***************************************************************************)
(* What is compared was seen.                                              *)
(***************************************************************************)
LEMMA PlanEffects ==
    ASSUME TypeOK, SourcesKnown, NEW c \in Comparisons, Plan(c)
    PROVE  /\ pc[c] = "plan" /\ side[c] \in Sides /\ Here(c) \in Sources
           /\ \/ pc'[c] = "list" /\ side[c] = "left" /\ side'[c] = "right"
              \/ pc'[c] = "next" /\ side[c] = "right" /\ side'[c] = "left"
           /\ listed'[c] = listed[c] /\ fresh'[c] = fresh[c] /\ seen' = seen /\ lost' = lost
           /\ \A s \in Sides \ {side[c]} : hit'[c][s] = hit[c][s] /\ toFetch'[c][s] = toFetch[c][s]
           /\ \A k \in Keys :
                 /\ hit'[c][side[c]][k] # Nothing =>
                       /\ k \in Entries(c, side[c]) \ Dateless
                       /\ hit'[c][side[c]][k] = Cached(Here(c), k, listed[c][side[c]][k])
                 /\ k \in Entries(c, side[c]) \ toFetch'[c][side[c]] => hit'[c][side[c]][k] # Nothing
                 /\ k \in toFetch'[c][side[c]] => hit'[c][side[c]][k] = Nothing
<1> USE DEF sourceVars, storeVars, rowVars, runVars, noteVars
<1> DEFINE found == [k \in Keys |-> IF k \in Entries(c, side[c]) \ Dateless
                                    THEN Cached(Here(c), k, listed[c][side[c]][k]) ELSE Nothing]
           missing == {k \in Entries(c, side[c]) : found[k] = Nothing}
<1>1. pc[c] = "plan" /\ side[c] \in Sides /\ Here(c) \in Sources
  BY HereIsASource DEF Plan
<1>2. /\ hit' = [hit EXCEPT ![c][side[c]] = found]
      /\ toFetch' = [toFetch EXCEPT ![c][side[c]] = missing]
  BY DEF Plan
<1>3. \/ pc'[c] = "list" /\ side[c] = "left" /\ side'[c] = "right"
      \/ pc'[c] = "next" /\ side[c] = "right" /\ side'[c] = "left"
  BY <1>1 DEF Plan, Goto, TypeOK, Sides
<1>4. listed' = listed /\ fresh' = fresh /\ seen' = seen /\ lost' = lost
  BY DEF Plan
<1>5. /\ hit'[c][side[c]] = found /\ toFetch'[c][side[c]] = missing
      /\ \A s \in Sides \ {side[c]} : hit'[c][s] = hit[c][s] /\ toFetch'[c][s] = toFetch[c][s]
  BY <1>1, <1>2 DEF TypeOK
<1>6. \A k \in Keys : /\ found[k] # Nothing =>
                            /\ k \in Entries(c, side[c]) \ Dateless
                            /\ found[k] = Cached(Here(c), k, listed[c][side[c]][k])
                      /\ k \in Entries(c, side[c]) \ missing => found[k] # Nothing
                      /\ k \in missing => found[k] = Nothing
  OBVIOUS
<1> HIDE DEF found, missing
<1> QED BY <1>1, <1>3, <1>4, <1>5, <1>6

LEMMA StoreEffects ==
    ASSUME TypeOK, NEW c \in Comparisons, StoreChunk(c)
    PROVE  /\ pc[c] = "store" /\ pc'[c] = "next" /\ side[c] \in Sides
           /\ listed'[c] = listed[c] /\ hit'[c] = hit[c] /\ toFetch'[c] = toFetch[c]
           /\ seen' = seen /\ lost' = lost
           /\ \A s \in Sides \ {side[c]} : fresh'[c][s] = fresh[c][s]
           /\ \A k \in Keys : fresh'[c][side[c]][k] = IF tree[c][k] # Nothing THEN tree[c][k]
                                                      ELSE fresh[c][side[c]][k]
<1> USE DEF sourceVars, storeVars, rowVars, runVars, noteVars
<1>1. pc[c] = "store" /\ side[c] \in Sides
  BY DEF StoreChunk, TypeOK
<1>2. fresh' = [fresh EXCEPT ![c][side[c]] =
                  [k \in Keys |-> IF k \in {j \in Keys : tree[c][j] # Nothing}
                                  THEN tree[c][k] ELSE @[k]]]
  BY DEF StoreChunk
<1>3. /\ \A s \in Sides \ {side[c]} : fresh'[c][s] = fresh[c][s]
      /\ \A k \in Keys : fresh'[c][side[c]][k] = IF tree[c][k] # Nothing THEN tree[c][k]
                                                 ELSE fresh[c][side[c]][k]
  BY <1>1, <1>2 DEF TypeOK
<1> QED BY <1>1, <1>3 DEF StoreChunk, Goto, TypeOK

LEMMA ListElsewhere ==
    ASSUME TypeOK, NEW c \in Comparisons, List(c)
    PROVE  /\ pc[c] = "list" /\ pc'[c] = "plan" /\ side'[c] = side[c] /\ lost[c] \subseteq lost'[c]
           /\ \A s \in Sides \ {side[c]} : listed'[c][s] = listed[c][s] /\ seen'[c][s] = seen[c][s]
<1>1. pc[c] = "list" /\ pc'[c] = "plan" /\ side'[c] = side[c]
  BY DEF List, Goto, TypeOK
<1>2. lost[c] \subseteq lost'[c]
  BY DEF List, TypeOK
<1>3. \A s \in Sides \ {side[c]} : listed'[c][s] = listed[c][s] /\ seen'[c][s] = seen[c][s]
  BY DEF List, TypeOK
<1> QED BY <1>1, <1>2, <1>3

(* Reading once. *)
LEMMA ReadStep == StoreInv /\ [Next]_vars => ReadOnce' /\ ProfilesFirst'
<1> SUFFICES ASSUME StoreInv, [Next]_vars PROVE ReadOnce' /\ ProfilesFirst'
  OBVIOUS
<1> USE DEF sourceVars, storeVars, rowVars, runVars, noteVars
<1>i. TypeOK /\ RowAgrees /\ SourcesKnown /\ NothingUnplanned
  BY DEF StoreInv
<1>j. ReadOnce /\ ProfilesFirst
  BY DEF StoreInv
<1> DEFINE Once(c) == \A s \in Sides, k \in Keys :
                 /\ k \in toFetch'[c][s] => ~IsRead(c, s, k)'
                 /\ k \in toFetch'[c][s] \/ IsRead(c, s, k)' => hit'[c][s][k] = Nothing
                 /\ pc'[c] # "done" /\ together'[c][s][k] # {} => IsRead(c, s, k)' /\ k \in Profiles
           First(c) == pc'[c] # "done" => \A s \in Sides :
                 /\ toFetch'[c][s] \intersect Profiles # {} =>
                       Planned(c, s)' \intersect Paired \subseteq toFetch'[c][s]
                 /\ \A k \in Profiles \ lost'[c] : IsRead(c, s, k)' =>
                       together'[c][s][k] = Planned(c, s)' \intersect Paired
           Goal(c) == Once(c) /\ First(c)
<1>0. \A k \in Profiles : k \in Keys
  BY KeysAssumption
<1>1. ASSUME NEW c \in Comparisons, Untouched(c) PROVE Goal(c)
  BY <1>1, <1>j DEF Untouched, ReadOnce, ProfilesFirst, IsRead, Planned, Entries
<1>2. ASSUME NEW c \in Comparisons, Failed(c) \/ Finish(c) PROVE Goal(c)
  <2>1. ASSUME NEW rowStatus, NEW jobStatus, Ended(c, rowStatus, jobStatus) PROVE Goal(c)
    <3>1. pc'[c] = "done" /\ \A s \in Sides : /\ toFetch'[c][s] = {}
                                             /\ \A k \in Keys : hit'[c][s][k] = Nothing
      BY <1>i, <2>1 DEF Ended, TypeOK, NoValues
    <3> QED BY <3>1
  <2> QED BY <1>2, <2>1, FinishEnds DEF Failed
<1>3. ASSUME NEW c \in Comparisons, NEW l \in Sources, NEW r \in Sources, Start(c, l, r) PROVE Goal(c)
  <2>1. pc[c] = "none" /\ pc'[c] = "list"
    BY <1>3, <1>i DEF Start, Goto, TypeOK, RowAgrees
  <2>2. UNCHANGED <<toFetch, fresh, hit, tree, together, lost, listed>>
    BY <1>3 DEF Start
  <2>3. \A s \in Sides, k \in Keys : toFetch[c][s] = {} /\ fresh[c][s][k] = Nothing
    BY <1>i, <2>1 DEF NothingUnplanned, IsPlanned, NoValues
  <2>4. \A s \in Sides, k \in Keys : ~IsRead(c, s, k) /\ ~IsRead(c, s, k)' /\ together[c][s][k] = {}
    BY <1>j, <2>1, <2>2, <2>3 DEF IsRead, ReadOnce
  <2> QED BY <1>0, <2>2, <2>3, <2>4
<1>4. ASSUME NEW c \in Comparisons, List(c) PROVE Goal(c)
  <2>1. /\ pc[c] = "list" /\ pc'[c] = "plan" /\ side'[c] = side[c] /\ side[c] \in Sides
        /\ UNCHANGED <<hit, fresh, toFetch, tree>> /\ lost[c] \subseteq lost'[c]
        /\ \A s \in Sides \ {side[c]} : listed'[c][s] = listed[c][s]
    BY <1>4, <1>i, ListEffects, ListElsewhere
  <2>2. together' = together
    BY <1>4 DEF List
  <2>3. \A s \in Sides, k \in Keys : IsRead(c, s, k)' <=> IsRead(c, s, k)
    BY <2>1 DEF IsRead
  <2>4. toFetch[c][side[c]] = {} /\ \A k \in Keys : ~IsRead(c, side[c], k)
    BY <1>i, <2>1 DEF NothingUnplanned, IsPlanned, IsRead, NoValues
  <2>5. Once(c)
    BY <1>j, <2>1, <2>2, <2>3 DEF ReadOnce
  <2>6. \A s \in Sides \ {side[c]} : Planned(c, s)' = Planned(c, s)
    BY <2>1 DEF Planned, Entries
  <2>7. First(c)
    BY <1>0, <1>j, <2>1, <2>2, <2>3, <2>4, <2>6 DEF ProfilesFirst
  <2> QED BY <2>5, <2>7
<1>5. ASSUME NEW c \in Comparisons, Plan(c) PROVE Goal(c)
  <2>1. /\ pc[c] = "plan" /\ pc'[c] \in {"list", "next"} /\ side[c] \in Sides
        /\ listed'[c] = listed[c] /\ fresh'[c] = fresh[c] /\ lost' = lost
        /\ \A s \in Sides \ {side[c]} : hit'[c][s] = hit[c][s] /\ toFetch'[c][s] = toFetch[c][s]
        /\ \A k \in Keys :
              /\ k \in Entries(c, side[c]) \ toFetch'[c][side[c]] => hit'[c][side[c]][k] # Nothing
              /\ k \in toFetch'[c][side[c]] => hit'[c][side[c]][k] = Nothing
    BY <1>5, <1>i, PlanEffects
  <2>2. together' = together /\ tree' = tree
    BY <1>5 DEF Plan
  <2>3. \A s \in Sides, k \in Keys : IsRead(c, s, k)' <=> IsRead(c, s, k)
    BY <2>1, <2>2 DEF IsRead
  <2>9. ~IsPlanned(c, side[c])
    BY <2>1 DEF IsPlanned
  <2>4. \A k \in Keys : ~IsRead(c, side[c], k)
    BY <1>i, <2>1, <2>9 DEF NothingUnplanned, IsRead, NoValues
  <2>5. Once(c)
    BY <1>j, <2>1, <2>2, <2>3, <2>4 DEF ReadOnce
  <2>6. \A s \in Sides \ {side[c]} : Planned(c, s)' = Planned(c, s)
    BY <2>1 DEF Planned, Entries
  <2>7. \A s \in Sides : s = side[c] => Planned(c, s)' \subseteq toFetch'[c][s]
    BY <2>1 DEF Planned, Entries
  <2>8. First(c)
    BY <1>0, <1>j, <2>1, <2>2, <2>3, <2>4, <2>6, <2>7 DEF ProfilesFirst
  <2> QED BY <2>5, <2>8
<1>6. ASSUME NEW c \in Comparisons, NextChunk(c) PROVE Goal(c)
  <2>1. /\ pc[c] = "next" /\ pc'[c] = "fetch"
        /\ UNCHANGED <<listed, hit, toFetch, tree, fresh, together, lost>>
    BY <1>6, <1>i DEF NextChunk, Goto, TypeOK
  <2>2. \A s \in Sides, k \in Keys : IsRead(c, s, k)' <=> IsRead(c, s, k)
    BY <2>1 DEF IsRead
  <2>3. \A s \in Sides : Planned(c, s)' = Planned(c, s)
    BY <2>1 DEF Planned, Entries
  <2>4. Once(c)
    BY <1>j, <2>1, <2>2 DEF ReadOnce
  <2>5. First(c)
    BY <1>0, <1>j, <2>1, <2>2, <2>3 DEF ProfilesFirst
  <2> QED BY <2>4, <2>5
<1>7. ASSUME NEW c \in Comparisons, Materialize(c) PROVE Goal(c)
  <2>1. /\ pc[c] = "fetch" /\ pc'[c] = "store" /\ side'[c] = side[c] /\ side[c] \in Sides
        /\ UNCHANGED <<listed, hit, fresh>> /\ lost[c] \subseteq lost'[c]
        /\ \A s \in Sides \ {side[c]} : toFetch'[c][s] = toFetch[c][s] /\ together'[c][s] = together[c][s]
        /\ toFetch'[c][side[c]] \subseteq toFetch[c][side[c]]
        /\ toFetch'[c][side[c]] \intersect Profiles = {}
    BY <1>7, <1>i, MaterializeEffects
  <2>2. \A k \in Keys :
           /\ tree'[c][k] # Nothing => k \in toFetch[c][side[c]] \ toFetch'[c][side[c]]
           /\ \/ together'[c][side[c]][k] = together[c][side[c]][k]
              \/ tree'[c][k] # Nothing /\ k \in Profiles
           /\ tree'[c][k] # Nothing /\ k \in Profiles \ lost'[c] =>
                 together'[c][side[c]][k] = toFetch[c][side[c]] \intersect Paired
    BY <1>7, <1>i, MaterializeEffects
  <2>3. \A s \in Sides, k \in Keys :
           /\ IsRead(c, s, k) <=> fresh[c][s][k] # Nothing
           /\ IsRead(c, s, k)' <=> fresh[c][s][k] # Nothing \/ (s = side[c] /\ tree'[c][k] # Nothing)
    BY <2>1 DEF IsRead
  <2>4. \A s \in Sides : Planned(c, s)' = Planned(c, s)
    BY <2>1 DEF Planned, Entries
  <2>5. \A s \in Sides, k \in Keys :
           /\ k \in toFetch[c][s] => fresh[c][s][k] = Nothing
           /\ k \in toFetch[c][s] \/ fresh[c][s][k] # Nothing => hit[c][s][k] = Nothing
           /\ together[c][s][k] # {} => fresh[c][s][k] # Nothing /\ k \in Profiles
    BY <1>j, <2>1, <2>3 DEF ReadOnce
  <2>6. Once(c)
    BY <2>1, <2>2, <2>3, <2>5
  <2>7. ASSUME NEW k \in Profiles \ lost'[c], IsRead(c, side[c], k)'
        PROVE  together'[c][side[c]][k] = Planned(c, side[c]) \intersect Paired
    <3>1. CASE tree'[c][k] # Nothing
      <4>1. k \in toFetch[c][side[c]] \intersect Profiles
        BY <1>0, <2>2, <2>7, <3>1
      <4>2. Planned(c, side[c]) \intersect Paired \subseteq toFetch[c][side[c]]
        BY <1>j, <2>1, <4>1 DEF ProfilesFirst
      <4>3. toFetch[c][side[c]] \subseteq Planned(c, side[c])
        <5>1. toFetch[c][side[c]] \subseteq Entries(c, side[c])
          BY <2>1 DEF StoreInv, OnlyListed
        <5> QED BY <2>1, <2>5, <5>1 DEF Planned, Entries
      <4> QED BY <1>0, <2>2, <2>7, <3>1, <4>2, <4>3
    <3>2. CASE tree'[c][k] = Nothing
      <4>1. together'[c][side[c]][k] = together[c][side[c]][k] /\ IsRead(c, side[c], k)
        BY <1>0, <2>1, <2>2, <2>3, <2>7, <3>2
      <4> QED BY <1>j, <2>1, <2>7, <4>1 DEF ProfilesFirst
    <3> QED BY <3>1, <3>2
  <2>8. First(c)
    <3>1. ASSUME NEW s \in Sides \ {side[c]}
          PROVE  /\ toFetch'[c][s] = toFetch[c][s] /\ together'[c][s] = together[c][s]
                 /\ \A k \in Keys : IsRead(c, s, k)' <=> IsRead(c, s, k)
      BY <2>1, <2>3
    <3> QED BY <1>0, <1>j, <2>1, <2>4, <2>7, <3>1 DEF ProfilesFirst
  <2> QED BY <2>6, <2>8
<1>8. ASSUME NEW c \in Comparisons, StoreChunk(c) PROVE Goal(c)
  <2>1. /\ pc[c] = "store" /\ pc'[c] = "next" /\ side[c] \in Sides
        /\ listed'[c] = listed[c] /\ hit'[c] = hit[c] /\ toFetch'[c] = toFetch[c] /\ lost' = lost
        /\ \A s \in Sides \ {side[c]} : fresh'[c][s] = fresh[c][s]
        /\ \A k \in Keys : fresh'[c][side[c]][k] = IF tree[c][k] # Nothing THEN tree[c][k]
                                                   ELSE fresh[c][side[c]][k]
    BY <1>8, <1>i, StoreEffects
  <2>2. together' = together
    BY <1>8 DEF StoreChunk
  <2>3. \A s \in Sides, k \in Keys : IsRead(c, s, k)' <=> IsRead(c, s, k)
    BY <2>1 DEF IsRead
  <2>4. \A s \in Sides : Planned(c, s)' = Planned(c, s)
    BY <2>1 DEF Planned, Entries
  <2>5. Once(c)
    BY <1>j, <2>1, <2>2, <2>3 DEF ReadOnce
  <2>6. First(c)
    BY <1>0, <1>j, <2>1, <2>2, <2>3, <2>4 DEF ProfilesFirst
  <2> QED BY <2>5, <2>6
<1>9. ASSUME NEW c \in Comparisons PROVE Goal(c)
  <2> HIDE DEF Goal
  <2> QED BY <1>1, <1>2, <1>3, <1>4, <1>5, <1>6, <1>7, <1>8, <1>i, OneStepsAtATime DEF OwnStep
<1> HIDE DEF Once, First
<1>10. \A c \in Comparisons : Once(c) /\ First(c)
  BY <1>9
<1>11. ReadOnce'
  BY <1>10 DEF ReadOnce, Once
<1>12. ProfilesFirst'
  BY <1>10 DEF ProfilesFirst, First
<1> QED BY <1>11, <1>12

LEMMA ContentStep == StoreInv /\ SeenInv /\ [Next]_vars => ContentsSeen'
<1> SUFFICES ASSUME StoreInv, SeenInv, [Next]_vars PROVE ContentsSeen'
  OBVIOUS
<1> USE DEF sourceVars, storeVars, rowVars, runVars, noteVars
<1>i. TypeOK /\ RowAgrees /\ SourcesKnown /\ NothingUnplanned
  BY DEF StoreInv
<1>j. HeldSeen /\ RefsSeen /\ ContentsSeen
  BY DEF SeenInv
<1>1. ASSUME NEW c \in Comparisons, pc'[c] = "store", NEW k \in Keys, tree'[c][k] # Nothing
      PROVE  SawIn(c, side[c], k, tree[c][k])'
  <2>1. CASE Materialize(c)
    <3>1. IsListed(c, side[c])
      BY <1>i, <2>1, MaterializeEffects DEF IsListed
    <3>2. /\ side'[c] = side[c] /\ seen' = seen /\ source' = source
          /\ ReadOf(k, tree'[c][k], held[Here(c)][k],
                    IF Here(c) \in Orgs THEN together'[c][side[c]][k] ELSE Paired)
      BY <1>1, <1>i, <2>1, MaterializeEffects
    <3>3. held[Here(c)][k] \in seen[c][side[c]][k]
      BY <1>i, <1>j, <2>1, <3>1, MaterializeEffects DEF HeldSeen, Here
    <3> QED BY <3>2, <3>3 DEF SawIn, Saw, Here
  <2>2. CASE Waiting(c)
    <3>1. pc[c] = "store" /\ SawIn(c, side[c], k, tree[c][k]) /\ side[c] \in Sides
      BY <1>1, <1>i, <1>j, <2>2 DEF Waiting, ContentsSeen, TypeOK
    <3>2. ~List(c)
      BY <3>1 DEF List
    <3>3. IsListed(c, side[c])'
      BY <1>1 DEF IsListed
    <3>4. seen[c][side[c]][k] \subseteq seen'[c][side[c]][k]
      BY <1>i, <2>2, <3>1, <3>2, <3>3, ListedBefore DEF Waiting, Kept
    <3> QED BY <2>2, <3>1, <3>4 DEF Waiting, SawIn, Saw
  <2> QED BY <1>1, <1>i, <2>1, <2>2, TreeBefore
<1> DEFINE Good(c) == \A s \in Sides, k \in Keys :
                         /\ hit'[c][s][k] # Nothing => PartSeen(c, s, k, hit[c][s][k])'
                         /\ fresh'[c][s][k] # Nothing => SawIn(c, s, k, fresh[c][s][k])'
<1>2. ASSUME NEW c \in Comparisons, hit'[c] = hit[c], fresh'[c] = fresh[c], SeenGrows(c),
             source'[c] = source[c], together'[c] = together[c]
      PROVE  Good(c)
  <2>1. ASSUME NEW s \in Sides, NEW k \in Keys PROVE seen[c][s][k] \subseteq seen'[c][s][k]
    BY <1>2 DEF SeenGrows
  <2> QED BY <1>2, <1>j, <2>1 DEF ContentsSeen, PartSeen, PartOf, SawIn, Saw
<1>3. ASSUME NEW c \in Comparisons, Failed(c) \/ Finish(c) PROVE Good(c)
  <2>1. ASSUME NEW rowStatus, NEW jobStatus, Ended(c, rowStatus, jobStatus) PROVE Good(c)
    BY <1>i, <2>1 DEF Ended, TypeOK, NoValues
  <2> QED BY <1>3, <2>1, FinishEnds DEF Failed
<1>4. ASSUME NEW c \in Comparisons, List(c) PROVE Good(c)
  <2>1. hit' = hit /\ fresh' = fresh /\ side[c] \in Sides /\ pc[c] = "list"
    BY <1>4, <1>i, ListEffects
  <2>2. ~IsPlanned(c, side[c])
    BY <2>1 DEF IsPlanned
  <2>3. \A k \in Keys : hit[c][side[c]][k] = Nothing /\ fresh[c][side[c]][k] = Nothing
    BY <1>i, <2>1, <2>2 DEF NothingUnplanned, NoValues
  <2>4. source' = source /\ together' = together
    BY <1>4 DEF List
  <2>5. \A s \in Sides \ {side[c]} : seen'[c][s] = seen[c][s]
    BY <1>4, <1>i, ListElsewhere
  <2> QED BY <1>j, <2>1, <2>3, <2>4, <2>5 DEF ContentsSeen, PartSeen, PartOf, SawIn, Saw
<1>5. ASSUME NEW c \in Comparisons, Plan(c) PROVE Good(c)
  <2>1. ASSUME NEW k \in Keys, hit'[c][side[c]][k] # Nothing
        PROVE  PartSeen(c, side[c], k, hit'[c][side[c]][k])
    <3>1. k \notin Dateless /\ hit'[c][side[c]][k] = Cached(Here(c), k, listed[c][side[c]][k])
          /\ Here(c) \in Sources /\ side[c] \in Sides /\ pc[c] = "plan"
      BY <1>5, <1>i, <2>1, PlanEffects
    <3>2. PICK r \in refs : /\ r.source = Here(c) /\ r.key = k /\ r.date = listed[c][side[c]][k]
                            /\ r.content = hit'[c][side[c]][k]
      BY <1>i, <2>1, <3>1, CachedIsStored
    <3>3. IsListed(c, side[c])
      BY <3>1 DEF IsListed
    <3> QED BY <1>j, <3>1, <3>2, <3>3 DEF RefsSeen, Here, References
  <2>2. source' = source /\ together' = together
    BY <1>5 DEF Plan
  <2>3. /\ seen' = seen /\ fresh'[c] = fresh[c]
        /\ \A s \in Sides \ {side[c]} : hit'[c][s] = hit[c][s]
    BY <1>5, <1>i, PlanEffects
  <2> QED BY <1>j, <2>1, <2>2, <2>3 DEF ContentsSeen, PartSeen, PartOf, SawIn, Saw
<1>6. ASSUME NEW c \in Comparisons, StoreChunk(c) PROVE Good(c)
  <2>1. /\ side[c] \in Sides /\ seen' = seen /\ hit'[c] = hit[c]
        /\ \A s \in Sides \ {side[c]} : fresh'[c][s] = fresh[c][s]
        /\ \A k \in Keys : fresh'[c][side[c]][k] = IF tree[c][k] # Nothing THEN tree[c][k]
                                                   ELSE fresh[c][side[c]][k]
    BY <1>6, <1>i, StoreEffects
  <2>2. \A k \in Keys : tree[c][k] # Nothing => SawIn(c, side[c], k, tree[c][k])
    BY <1>6, <1>i, <1>j, StoreEffects DEF ContentsSeen
  <2>3. source' = source /\ together' = together
    BY <1>6 DEF StoreChunk
  <2> QED BY <1>j, <2>1, <2>2, <2>3 DEF ContentsSeen, PartSeen, PartOf, SawIn, Saw
<1>7. ASSUME NEW c \in Comparisons, Materialize(c) PROVE Good(c)
  <2>1. /\ hit' = hit /\ fresh' = fresh /\ seen' = seen /\ source' = source
        /\ pc[c] = "fetch" /\ side[c] \in Sides
        /\ \A s \in Sides \ {side[c]} : together'[c][s] = together[c][s]
    BY <1>7, <1>i, MaterializeEffects
  <2>2. ASSUME NEW k \in Keys, fresh[c][side[c]][k] # Nothing
        PROVE  together'[c][side[c]][k] = together[c][side[c]][k]
    <3>1. IsRead(c, side[c], k)
      BY <2>2 DEF IsRead
    <3>2. k \notin toFetch[c][side[c]]
      BY <2>1, <3>1 DEF StoreInv, ReadOnce
    <3> QED BY <1>7, <1>i, <3>2, MaterializeEffects
  <2>3. \A s \in Sides, k \in Keys : fresh[c][s][k] # Nothing => together'[c][s][k] = together[c][s][k]
    BY <2>1, <2>2
  <2>4. \A s \in Sides, k \in Keys : fresh[c][s][k] # Nothing => Saw(c, s, k)' = Saw(c, s, k)
    BY <2>1, <2>3 DEF Saw
  <2> QED BY <1>j, <2>1, <2>4 DEF ContentsSeen, PartSeen, PartOf, SawIn
<1>8. ASSUME NEW c \in Comparisons, NextChunk(c) PROVE Good(c)
  BY <1>2, <1>8 DEF NextChunk, SeenGrows
<1>9. ASSUME NEW c \in Comparisons, NEW l \in Sources, NEW r \in Sources, Start(c, l, r) PROVE Good(c)
  <2>1. pc[c] = "none" /\ hit' = hit /\ fresh' = fresh
    BY <1>9, <1>i DEF Start, RowAgrees
  <2>2. \A s \in Sides, k \in Keys : hit[c][s][k] = Nothing /\ fresh[c][s][k] = Nothing
    BY <1>i, <2>1 DEF NothingUnplanned, IsPlanned, NoValues
  <2> QED BY <2>1, <2>2
<1>10. ASSUME NEW c \in Comparisons PROVE Good(c)
  BY <1>2, <1>3, <1>4, <1>5, <1>6, <1>7, <1>8, <1>9, <1>i, OneStepsAtATime DEF OwnStep, Untouched
<1> QED BY <1>1, <1>10 DEF ContentsSeen

LEMMA MissingStep == StoreInv /\ SeenInv /\ [Next]_vars => MissingExplained'
<1> SUFFICES ASSUME StoreInv, SeenInv, [Next]_vars PROVE MissingExplained'
  OBVIOUS
<1> USE DEF sourceVars, storeVars, rowVars, runVars, noteVars
<1>i. TypeOK /\ RowAgrees /\ SourcesKnown
  BY DEF StoreInv
<1>j. HeldSeen /\ MissingExplained
  BY DEF SeenInv
<1> DEFINE Unlisted(c) == \A s \in Sides, k \in Keys \ lost'[c] :
                 IsListed(c, s)' /\ k \notin Entries(c, s)' => Absent \in seen'[c][s][k]
           Unread(c) == \A s \in Sides, k \in Keys \ lost'[c] :
                 /\ IsPlanned(c, s)' /\ k \in Entries(c, s)' \ toFetch'[c][s]
                 /\ hit'[c][s][k] = Nothing /\ fresh'[c][s][k] = Nothing
                 /\ ~(pc'[c] = "store" /\ s = side'[c] /\ tree'[c][k] # Nothing)
                 => Absent \in seen'[c][s][k]
<1>1. ASSUME NEW c \in Comparisons, Untouched(c) PROVE Unlisted(c) /\ Unread(c)
  BY <1>1, <1>j DEF Untouched, SeenGrows, MissingExplained, IsListed, IsPlanned, Entries
<1>2. ASSUME NEW c \in Comparisons, Failed(c) \/ Finish(c) PROVE Unlisted(c) /\ Unread(c)
  <2>1. pc'[c] = "done"
    BY <1>2, <1>i, FinishEnds DEF Failed, Ended, TypeOK
  <2> QED BY <2>1 DEF IsListed, IsPlanned
<1>3. ASSUME NEW c \in Comparisons, NEW l \in Sources, NEW r \in Sources, Start(c, l, r)
      PROVE  Unlisted(c) /\ Unread(c)
  <2>1. pc'[c] = "list" /\ side'[c] = "left"
    BY <1>3, <1>i DEF Start, Goto, TypeOK
  <2> QED BY <2>1 DEF IsListed, IsPlanned
<1>4. ASSUME NEW c \in Comparisons, List(c) PROVE Unlisted(c) /\ Unread(c)
  <2>1. /\ pc[c] = "list" /\ pc'[c] = "plan" /\ side'[c] = side[c] /\ lost[c] \subseteq lost'[c]
        /\ side[c] \in Sides /\ hit' = hit /\ fresh' = fresh /\ toFetch' = toFetch
        /\ \A s \in Sides \ {side[c]} : listed'[c][s] = listed[c][s] /\ seen'[c][s] = seen[c][s]
    BY <1>4, <1>i, ListElsewhere, ListEffects
  <2>2. \A k \in Keys \ lost'[c] : listed'[c][side[c]][k] = Nothing => Absent \in seen'[c][side[c]][k]
    BY <1>4, <1>i, ListEffects
  <2>3. \A s \in Sides \ {side[c]} : /\ IsListed(c, s)' => IsListed(c, s)
                                     /\ IsPlanned(c, s)' => IsPlanned(c, s)
    BY <2>1 DEF IsListed, IsPlanned, Sides
  <2>4. ~IsPlanned(c, side[c])'
    BY <2>1 DEF IsPlanned
  <2>5. Unlisted(c)
    BY <1>j, <2>1, <2>2, <2>3 DEF MissingExplained, Entries
  <2>6. Unread(c)
    BY <1>j, <2>1, <2>3, <2>4 DEF MissingExplained, Entries
  <2> QED BY <2>5, <2>6
<1>5. ASSUME NEW c \in Comparisons, Plan(c) PROVE Unlisted(c) /\ Unread(c)
  <2>1. \A s \in Sides : IsListed(c, s)' => IsListed(c, s)
    BY <1>5, <1>i, PlanEffects DEF IsListed, Sides
  <2>2. \A s \in Sides \ {side[c]} : IsPlanned(c, s)' => IsPlanned(c, s)
    BY <1>5, <1>i, PlanEffects DEF IsPlanned, Sides
  <2>3. Unlisted(c)
    BY <1>5, <1>i, <1>j, <2>1, PlanEffects DEF MissingExplained, Entries
  <2>4. Unread(c)
    BY <1>5, <1>i, <1>j, <2>2, PlanEffects DEF MissingExplained, Entries
  <2> QED BY <2>3, <2>4
<1>6. ASSUME NEW c \in Comparisons, NextChunk(c) PROVE Unlisted(c) /\ Unread(c)
  BY <1>6, <1>i, <1>j DEF NextChunk, Goto, TypeOK, MissingExplained, IsListed, IsPlanned, Entries
<1>7. ASSUME NEW c \in Comparisons, Materialize(c) PROVE Unlisted(c) /\ Unread(c)
  <2>1. /\ pc[c] = "fetch" /\ pc'[c] = "store" /\ side'[c] = side[c] /\ side[c] \in Sides
        /\ source' = source /\ listed' = listed /\ hit' = hit /\ fresh' = fresh /\ seen' = seen
        /\ lost[c] \subseteq lost'[c]
        /\ \A s \in Sides \ {side[c]} : toFetch'[c][s] = toFetch[c][s]
    BY <1>7, <1>i, MaterializeEffects
  <2>2. \A s \in Sides : IsListed(c, s) /\ IsPlanned(c, s)
    BY <2>1 DEF IsListed, IsPlanned
  <2>3. \A k \in Keys : held[Here(c)][k] \in seen[c][side[c]][k]
    BY <1>j, <2>1, <2>2 DEF HeldSeen, Here
  <2>4. \A k \in Keys \ lost'[c] :
           k \in toFetch[c][side[c]] \ toFetch'[c][side[c]] /\ tree'[c][k] = Nothing =>
               Absent \in seen[c][side[c]][k]
    BY <1>7, <1>i, <2>3, MaterializeEffects
  <2>5. Unlisted(c)
    BY <1>j, <2>1, <2>2 DEF MissingExplained, Entries
  <2>6. Unread(c)
    BY <1>j, <2>1, <2>2, <2>4 DEF MissingExplained, Entries
  <2> QED BY <2>5, <2>6
<1>8. ASSUME NEW c \in Comparisons, StoreChunk(c) PROVE Unlisted(c) /\ Unread(c)
  <2>1. /\ pc[c] = "store" /\ pc'[c] = "next" /\ side[c] \in Sides
        /\ listed'[c] = listed[c] /\ hit'[c] = hit[c] /\ toFetch'[c] = toFetch[c]
        /\ seen' = seen /\ lost' = lost
        /\ \A s \in Sides \ {side[c]} : fresh'[c][s] = fresh[c][s]
        /\ \A k \in Keys : fresh'[c][side[c]][k] = IF tree[c][k] # Nothing THEN tree[c][k]
                                                   ELSE fresh[c][side[c]][k]
    BY <1>8, <1>i, StoreEffects
  <2>2. \A s \in Sides : IsListed(c, s) /\ IsPlanned(c, s)
    BY <2>1 DEF IsListed, IsPlanned
  <2>3. Unlisted(c)
    BY <1>j, <2>1, <2>2 DEF MissingExplained, Entries
  <2>4. Unread(c)
    BY <1>j, <2>1, <2>2 DEF MissingExplained, Entries
  <2> QED BY <2>3, <2>4
<1>9. ASSUME NEW c \in Comparisons PROVE Unlisted(c) /\ Unread(c)
  BY <1>1, <1>2, <1>3, <1>4, <1>5, <1>6, <1>7, <1>8, <1>i, OneStepsAtATime DEF OwnStep
<1> QED BY <1>9 DEF MissingExplained

(***************************************************************************)
(* The results.                                                            *)
(***************************************************************************)
Verdict(c, k) ==
    IF k \notin Listed(c) THEN Nothing
    ELSE IF k \in Binary THEN ByPresence(c, k, Content(c, "left", k), Content(c, "right", k))
         ELSE ByContent(c, k, Content(c, "left", k), Content(c, "right", k))

(* Comparing two answers tells of the states they are part of, if `saw' is *)
(* taken to be what was seen: of a Profile all of it, of others not less.  *)
LEMMA AnswersTell ==
    ASSUME NEW k \in Keys, NEW l, NEW r, NEW atLeft, NEW atRight,
           NEW leftSeen, NEW rightSeen, NEW leftSaw, NEW rightSaw,
           leftSeen \subseteq leftSaw, rightSeen \subseteq rightSaw,
           k \in Profiles => leftSaw = leftSeen /\ rightSaw = rightSeen,
           leftSaw \subseteq Paired, rightSaw \subseteq Paired,
           ReadOf(k, l, atLeft, leftSeen), ReadOf(k, r, atRight, rightSeen)
    PROVE  /\ l = r => ~Differ(k, atLeft, atRight, leftSeen \intersect rightSeen)
           /\ k \notin Binary => IF l # r /\ (k \in Text \/ HasRealChange(l, r, leftSaw, rightSaw))
                                 THEN Differ(k, atLeft, atRight, Paired)
                                 ELSE ~Differ(k, atLeft, atRight, leftSeen \intersect rightSeen)
<1>1. CASE k \in Binary \union Text
  <2>1. l = atLeft /\ r = atRight
    BY <1>1, KeysAssumption DEF ReadOf
  <2> QED BY <1>1, <2>1 DEF Differ
<1>2. CASE k \notin Binary \union Text
  <2>1. l.body = atLeft.body /\ r.body = atRight.body
    BY DEF ReadOf
  <2>2. \A p \in Paired : /\ p \in leftSeen => l.grants[p] = atLeft.grants[p]
                          /\ p \in rightSeen => r.grants[p] = atRight.grants[p]
                          /\ l.grants[p] # Nothing \/ k \notin Profiles => l.grants[p] = atLeft.grants[p]
                          /\ r.grants[p] # Nothing \/ k \notin Profiles => r.grants[p] = atRight.grants[p]
    BY DEF ReadOf
  <2>3. HasRealChange(l, r, leftSaw, rightSaw) => Differ(k, atLeft, atRight, Paired)
    <3>1. ASSUME NEW p \in Paired, l.grants[p] # r.grants[p],
                 l.grants[p] = Nothing => p \in leftSaw, r.grants[p] = Nothing => p \in rightSaw
          PROVE  atLeft.grants[p] # atRight.grants[p]
      BY <2>2, <3>1
    <3> QED BY <1>2, <2>1, <3>1 DEF HasRealChange, Differ
  <2>4. Differ(k, atLeft, atRight, leftSeen \intersect rightSeen) =>
           l # r /\ HasRealChange(l, r, leftSaw, rightSaw)
    <3>1. ASSUME NEW p \in leftSeen \intersect rightSeen, atLeft.grants[p] # atRight.grants[p]
          PROVE  p \in Paired /\ l.grants[p] # r.grants[p] /\ p \in leftSaw /\ p \in rightSaw
      BY <2>2, <3>1
    <3> QED BY <1>2, <2>1, <3>1 DEF HasRealChange, Differ
  <2> QED BY <1>2, <2>3, <2>4
<1> QED BY <1>1, <1>2

(* What is compared was seen; what is missing was absent, or lost. *)
LEMMA ComparedWasSeen ==
    ASSUME StoreInv, SeenInv, NEW c \in Comparisons, ReadyToCompare(c),
           NEW s \in Sides, NEW k \in Keys
    PROVE  /\ Content(c, s, k) # Nothing =>
                 SawIn(c, s, k, Content(c, s, k)) /\ k \in Entries(c, s)
           /\ Content(c, s, k) \in Contents \union {Nothing}
           /\ Content(c, s, k) = Nothing /\ k \notin lost[c] => Absent \in seen[c][s][k]
           /\ k \notin Entries(c, s) /\ k \notin lost[c] => Absent \in seen[c][s][k]
<1>1. pc[c] = "next" /\ toFetch[c][s] = {} /\ IsListed(c, s) /\ IsPlanned(c, s)
  BY DEF ReadyToCompare, IsListed, IsPlanned
<1>2. ASSUME Content(c, s, k) # Nothing
      PROVE  SawIn(c, s, k, Content(c, s, k)) /\ k \in Entries(c, s)
  <2>1. k \in Entries(c, s)
    BY <1>2 DEF StoreInv, OnlyListed, Content
  <2>2. CASE fresh[c][s][k] # Nothing
    BY <2>1, <2>2 DEF SeenInv, ContentsSeen, Content
  <2>3. CASE fresh[c][s][k] = Nothing
    <3>1. hit[c][s][k] # Nothing /\ Content(c, s, k) = hit[c][s][k]
      BY <1>2, <2>3 DEF Content
    <3>2. ~IsRead(c, s, k)
      BY <1>1, <2>3 DEF IsRead
    <3>3. together[c][s][k] = {}
      BY <1>1, <3>2 DEF StoreInv, ReadOnce
    <3>4. Saw(c, s, k) = Whole(source[c][s])
      BY <3>3 DEF Saw, Whole
    <3>5. PartSeen(c, s, k, Content(c, s, k))
      BY <3>1 DEF SeenInv, ContentsSeen
    <3> QED BY <2>1, <3>4, <3>5 DEF PartSeen, PartOf, SawIn
  <2> QED BY <2>2, <2>3
<1>3. Content(c, s, k) \in Contents \union {Nothing}
  BY DEF StoreInv, TypeOK, Content
<1>4. k \notin Entries(c, s) /\ k \notin lost[c] => Absent \in seen[c][s][k]
  BY <1>1 DEF SeenInv, MissingExplained
<1>5. k \in Entries(c, s) /\ Content(c, s, k) = Nothing /\ k \notin lost[c] => Absent \in seen[c][s][k]
  BY <1>1 DEF SeenInv, MissingExplained, Content
<1> QED BY <1>2, <1>3, <1>4, <1>5

(* What coverage.ts takes to be seen was seen: of a Profile that was read  *)
(* in one piece or taken from the store all of it, of others not less.     *)
LEMMA CoverageIsSeen ==
    ASSUME StoreInv, NEW c \in Comparisons, ReadyToCompare(c),
           NEW s \in Sides, NEW k \in Keys \ lost[c], Content(c, s, k) # Nothing
    PROVE  /\ Saw(c, s, k) \subseteq Coverage(c, s, k)
           /\ Coverage(c, s, k) \subseteq Paired
           /\ k \in Profiles => Coverage(c, s, k) = Saw(c, s, k)
<1>1. pc[c] = "next"
  BY DEF ReadyToCompare
<1>2. IsRead(c, s, k) <=> fresh[c][s][k] # Nothing
  BY <1>1 DEF IsRead
<1>3. k \in Entries(c, s)
  BY DEF StoreInv, OnlyListed, Content
<1>4. /\ fresh[c][s][k] # Nothing => hit[c][s][k] = Nothing
      /\ together[c][s][k] # {} => fresh[c][s][k] # Nothing /\ k \in Profiles
  BY <1>1, <1>2 DEF StoreInv, ReadOnce
<1>5. k \in Profiles /\ fresh[c][s][k] # Nothing => together[c][s][k] = Planned(c, s) \intersect Paired
  BY <1>1, <1>2 DEF StoreInv, ProfilesFirst
<1>6. k \in Planned(c, s) <=> hit[c][s][k] = Nothing
  BY <1>3 DEF Planned
<1>7. fresh[c][s][k] = Nothing => hit[c][s][k] # Nothing
  BY DEF Content
<1>8. CASE source[c][s] \notin Orgs
  BY <1>8 DEF Coverage, Saw
<1>9. CASE source[c][s] \in Orgs /\ k \in Planned(c, s)
  <2>1. Coverage(c, s, k) = Planned(c, s) \intersect Paired /\ Saw(c, s, k) = together[c][s][k]
    BY <1>9 DEF Coverage, Saw
  <2> QED BY <1>4, <1>5, <1>6, <1>7, <1>9, <2>1
<1>10. CASE source[c][s] \in Orgs /\ k \notin Planned(c, s)
  <2>1. Coverage(c, s, k) = {} /\ Saw(c, s, k) = together[c][s][k]
    BY <1>10 DEF Coverage, Saw
  <2> QED BY <1>4, <1>6, <1>10, <2>1
<1> QED BY <1>8, <1>9, <1>10

LEMMA FinishWrites ==
    ASSUME TypeOK, NEW c \in Comparisons, Finish(c)
    PROVE  /\ \A k \in Keys : verdict'[c][k] = Verdict(c, k)
           /\ unreadable'[c] = {k \in Binary : \E s \in Sides :
                                   k \in Entries(c, s) /\ Content(c, s, k) = Nothing}
           /\ seen' = seen /\ lost' = lost /\ together' = together /\ source' = source
  BY DEF Finish, Forget, TypeOK, Verdict, noteVars

LEMMA VerdictIsTrue ==
    ASSUME StoreInv, SeenInv, NEW c \in Comparisons, ReadyToCompare(c),
           NEW k \in Keys \ lost[c], k \in Listed(c),
           k \in Binary => \A s \in Sides : k \in Entries(c, s) => Content(c, s, k) # Nothing
    PROVE  \E l \in seen[c]["left"][k], r \in seen[c]["right"][k] :
               IsTrueOf(Verdict(c, k), k, l, r, Saw(c, "left", k) \intersect Saw(c, "right", k))
<1> DEFINE l == Content(c, "left", k)
           r == Content(c, "right", k)
           leftSeen == Saw(c, "left", k)
           rightSeen == Saw(c, "right", k)
           leftSaw == Coverage(c, "left", k)
           rightSaw == Coverage(c, "right", k)
           IsState(s, content, v) == IF content = Nothing THEN v = Absent
                                     ELSE v # Absent /\ ReadOf(k, content, v, Saw(c, s, k))
<1>1. "left" \in Sides /\ "right" \in Sides
  BY DEF Sides
<1>2. ASSUME NEW s \in Sides
      PROVE  \E v \in seen[c][s][k] : IsState(s, Content(c, s, k), v)
  <2>1. CASE Content(c, s, k) = Nothing
    BY <2>1, ComparedWasSeen
  <2>2. CASE Content(c, s, k) # Nothing
    <3>1. PICK v \in seen[c][s][k] : ReadOf(k, Content(c, s, k), v, Saw(c, s, k))
      BY <2>2, ComparedWasSeen DEF SawIn
    <3> QED BY <2>2, <3>1 DEF ReadOf
  <2> QED BY <2>1, <2>2
<1>3. PICK atLeft \in seen[c]["left"][k] : IsState("left", l, atLeft)
  BY <1>1, <1>2
<1>4. PICK atRight \in seen[c]["right"][k] : IsState("right", r, atRight)
  BY <1>1, <1>2
<1>5. /\ l # Nothing => k \in Entries(c, "left")
      /\ r # Nothing => k \in Entries(c, "right")
  BY <1>1, ComparedWasSeen
<1>6. /\ l # Nothing => /\ leftSeen \subseteq leftSaw /\ leftSaw \subseteq Paired
                        /\ k \in Profiles => leftSaw = leftSeen
      /\ r # Nothing => /\ rightSeen \subseteq rightSaw /\ rightSaw \subseteq Paired
                        /\ k \in Profiles => rightSaw = rightSeen
  BY <1>1, CoverageIsSeen
<1>7. Verdict(c, k) = IF k \in Binary THEN ByPresence(c, k, l, r) ELSE ByContent(c, k, l, r)
  BY DEF Verdict
<1>8. k \in Binary => /\ k \in Entries(c, "left") => l # Nothing
                      /\ k \in Entries(c, "right") => r # Nothing
  BY <1>1
<1>9. k \in Entries(c, "left") \/ k \in Entries(c, "right")
  BY DEF Listed
<1> HIDE DEF l, r, leftSeen, rightSeen, leftSaw, rightSaw
<1>10. CASE l # Nothing /\ r # Nothing
  <2>1. ReadOf(k, l, atLeft, leftSeen) /\ ReadOf(k, r, atRight, rightSeen)
        /\ atLeft # Absent /\ atRight # Absent
    BY <1>3, <1>4, <1>10 DEF leftSeen, rightSeen
  <2>2. /\ l = r => ~Differ(k, atLeft, atRight, leftSeen \intersect rightSeen)
        /\ k \notin Binary => IF l # r /\ (k \in Text \/ HasRealChange(l, r, leftSaw, rightSaw))
                              THEN Differ(k, atLeft, atRight, Paired)
                              ELSE ~Differ(k, atLeft, atRight, leftSeen \intersect rightSeen)
    BY <1>6, <1>10, <2>1, AnswersTell
  <2>3. CASE k \in Binary
    <3>1. atLeft = l /\ atRight = r
      BY <2>1, <2>3, KeysAssumption DEF ReadOf
    <3>2. Verdict(c, k) = IF l # r THEN "changed" ELSE "identical"
      BY <1>5, <1>7, <1>10, <2>3 DEF ByPresence
    <3>3. l # r => Differ(k, atLeft, atRight, Paired)
      BY <2>3, <3>1 DEF Differ
    <3>4. IsTrueOf(Verdict(c, k), k, atLeft, atRight, leftSeen \intersect rightSeen)
      BY <2>1, <2>2, <3>2, <3>3 DEF IsTrueOf
    <3> QED BY <1>3, <1>4, <3>4 DEF leftSeen, rightSeen
  <2>4. CASE k \notin Binary
    <3>1. Verdict(c, k) = IF l # r /\ (k \in Text \/ HasRealChange(l, r, leftSaw, rightSaw))
                          THEN "changed" ELSE "identical"
      BY <1>7, <1>10, <2>4 DEF ByContent, leftSaw, rightSaw
    <3>2. IsTrueOf(Verdict(c, k), k, atLeft, atRight, leftSeen \intersect rightSeen)
      BY <2>1, <2>2, <2>4, <3>1 DEF IsTrueOf
    <3> QED BY <1>3, <1>4, <3>2 DEF leftSeen, rightSeen
  <2> QED BY <2>3, <2>4
<1>11. CASE l = Nothing \/ r = Nothing
  <2>1. Verdict(c, k) = IF r = Nothing THEN IF l = Nothing THEN "identical" ELSE "deleted" ELSE "new"
    BY <1>5, <1>7, <1>8, <1>9, <1>11 DEF ByPresence, ByContent
  <2>2. (l = Nothing <=> atLeft = Absent) /\ (r = Nothing <=> atRight = Absent)
    BY <1>3, <1>4
  <2>3. IsTrueOf(Verdict(c, k), k, atLeft, atRight, leftSeen \intersect rightSeen)
    BY <1>11, <2>1, <2>2 DEF IsTrueOf
  <2> QED BY <1>3, <1>4, <2>3 DEF leftSeen, rightSeen
<1> QED BY <1>10, <1>11

LEMMA IdenticalWasRead ==
    ASSUME StoreInv, SeenInv, NEW c \in Comparisons, ReadyToCompare(c),
           NEW k \in Binary, Verdict(c, k) = "identical"
    PROVE  seen[c]["left"][k] \intersect seen[c]["right"][k] \intersect Contents # {}
<1>1. "left" \in Sides /\ "right" \in Sides /\ k \in Keys
  BY KeysAssumption DEF Sides
<1>2. k \in Listed(c) /\ ByPresence(c, k, Content(c, "left", k), Content(c, "right", k)) = "identical"
  BY ValuesAssumption DEF Verdict, Verdicts
<1>3. Content(c, "left", k) # Nothing /\ Content(c, "left", k) = Content(c, "right", k)
  BY <1>2 DEF ByPresence
<1>4. ASSUME NEW s \in Sides, Content(c, s, k) # Nothing
      PROVE  Content(c, s, k) \in seen[c][s][k] \intersect Contents
  <2>1. SawIn(c, s, k, Content(c, s, k)) /\ Content(c, s, k) \in Contents
    BY <1>1, <1>4, ComparedWasSeen
  <2> QED BY <2>1, KeysAssumption DEF SawIn, ReadOf
<1> QED BY <1>1, <1>3, <1>4

LEMMA ResultsInit == Init => RowFollowsJob /\ VerdictsAreTrue /\ IdenticalBinariesWereRead
  BY DEF Init, RowFollowsJob, VerdictsAreTrue, IdenticalBinariesWereRead, Terminal

LEMMA ResultsStep == CInv /\ [Next]_vars =>
                         RowFollowsJob' /\ VerdictsAreTrue' /\ IdenticalBinariesWereRead'
<1> SUFFICES ASSUME CInv, [Next]_vars
             PROVE  RowFollowsJob' /\ VerdictsAreTrue' /\ IdenticalBinariesWereRead'
  OBVIOUS
<1> USE DEF sourceVars, storeVars, rowVars, runVars, noteVars
<1>i. StoreInv /\ SeenInv /\ TypeOK /\ RowAgrees
  BY DEF CInv, StoreInv
<1>j. RowFollowsJob /\ VerdictsAreTrue /\ IdenticalBinariesWereRead
  BY DEF CInv
<1> DEFINE Follows(c) == job'[c] \in Terminal =>
                 CASE job'[c] = "succeeded" -> row'[c] = "completed"
                   [] OTHER -> row'[c] = job'[c]
           True(c) == row'[c] = "completed" =>
                 \A k \in Keys \ (lost'[c] \union unreadable'[c]) : verdict'[c][k] # Nothing =>
                     \E l \in seen'[c]["left"][k], r \in seen'[c]["right"][k] :
                         IsTrueOf(verdict'[c][k], k, l, r, (Saw(c, "left", k) \intersect Saw(c, "right", k))')
           Read(c) == row'[c] = "completed" =>
                 \A k \in Binary : verdict'[c][k] = "identical" =>
                     seen'[c]["left"][k] \intersect seen'[c]["right"][k] \intersect Contents # {}
           Goal(c) == Follows(c) /\ True(c) /\ Read(c)
<1>1. ASSUME NEW c \in Comparisons, Untouched(c) PROVE Goal(c)
  <2>1. Follows(c)
    BY <1>1, <1>j DEF Untouched, RowFollowsJob
  <2>2. \A k \in Keys : /\ seen[c]["left"][k] \subseteq seen'[c]["left"][k]
                        /\ seen[c]["right"][k] \subseteq seen'[c]["right"][k]
    BY <1>1 DEF Untouched, SeenGrows, Sides
  <2>3. row'[c] = row[c] /\ lost'[c] = lost[c]
        /\ verdict'[c] = verdict[c] /\ unreadable'[c] = unreadable[c]
        /\ source'[c] = source[c] /\ together'[c] = together[c]
    BY <1>1 DEF Untouched
  <2>4. True(c)
    <3>1. ASSUME row'[c] = "completed", NEW k \in Keys \ (lost'[c] \union unreadable'[c]),
                 verdict'[c][k] # Nothing
          PROVE  \E l \in seen'[c]["left"][k], r \in seen'[c]["right"][k] :
                     IsTrueOf(verdict'[c][k], k, l, r, (Saw(c, "left", k) \intersect Saw(c, "right", k))')
      <4>1. PICK l \in seen[c]["left"][k], r \in seen[c]["right"][k] :
               IsTrueOf(verdict[c][k], k, l, r, Saw(c, "left", k) \intersect Saw(c, "right", k))
        BY <1>j, <2>3, <3>1 DEF VerdictsAreTrue
      <4>2. l \in seen'[c]["left"][k] /\ r \in seen'[c]["right"][k]
        BY <2>2, <4>1
      <4>3. (Saw(c, "left", k) \intersect Saw(c, "right", k))' = Saw(c, "left", k) \intersect Saw(c, "right", k)
        BY <2>3 DEF Saw
      <4> QED BY <2>3, <4>1, <4>2, <4>3
    <3> QED BY <3>1
  <2>5. Read(c)
    BY <1>j, <2>2, <2>3, KeysAssumption DEF IdenticalBinariesWereRead
  <2> QED BY <2>1, <2>4, <2>5
<1>2. ASSUME NEW c \in Comparisons, Failed(c) PROVE Goal(c)
  <2>1. PICK outcome \in {"failed", "canceled"} : Ended(c, outcome, outcome)
    BY <1>2 DEF Failed
  <2>2. row'[c] = outcome /\ job'[c] = outcome
    BY <1>i, <2>1 DEF Ended, TypeOK
  <2> QED BY <2>2
<1>3. ASSUME NEW c \in Comparisons, Finish(c) PROVE Goal(c)
  <2>1. row'[c] = "completed" /\ job'[c] = "succeeded"
    BY <1>3, <1>i, FinishEnds DEF Ended, TypeOK
  <2>2. ReadyToCompare(c)
    BY <1>3 DEF Finish
  <2>3. /\ \A k \in Keys : verdict'[c][k] = Verdict(c, k)
        /\ unreadable'[c] = {k \in Binary : \E s \in Sides :
                                k \in Entries(c, s) /\ Content(c, s, k) = Nothing}
        /\ seen' = seen /\ lost' = lost /\ together' = together /\ source' = source
    BY <1>3, <1>i, FinishWrites
  <2>4. ASSUME NEW k \in Keys \ (lost[c] \union unreadable'[c]), Verdict(c, k) # Nothing
        PROVE  \E l \in seen[c]["left"][k], r \in seen[c]["right"][k] :
                   IsTrueOf(Verdict(c, k), k, l, r, Saw(c, "left", k) \intersect Saw(c, "right", k))
    <3>1. k \in Listed(c)
      BY <2>4 DEF Verdict
    <3>2. k \in Binary => \A s \in Sides : k \in Entries(c, s) => Content(c, s, k) # Nothing
      BY <2>3
    <3> QED BY <1>i, <2>2, <3>1, <3>2, VerdictIsTrue
  <2>7. \A k \in Keys : (Saw(c, "left", k) \intersect Saw(c, "right", k))'
                         = Saw(c, "left", k) \intersect Saw(c, "right", k)
    BY <2>3 DEF Saw
  <2>5. True(c)
    BY <2>3, <2>4, <2>7
  <2>6. Read(c)
    BY <1>i, <2>2, <2>3, IdenticalWasRead, KeysAssumption
  <2> QED BY <2>1, <2>5, <2>6
<1>4. ASSUME NEW c \in Comparisons,
             List(c) \/ Plan(c) \/ NextChunk(c) \/ Materialize(c) \/ StoreChunk(c)
      PROVE  Goal(c)
  <2>1. pc[c] \notin {"none", "done"}
    BY <1>4 DEF List, Plan, NextChunk, Materialize, StoreChunk
  <2>2. row'[c] = row[c] /\ job'[c] = job[c]
    BY <1>4 DEF List, Plan, NextChunk, Materialize, StoreChunk
  <2>3. job[c] \notin Terminal /\ row[c] \in {"absent", "running"}
    BY <1>i, <2>1 DEF RowAgrees
  <2> QED BY <2>2, <2>3
<1>5. ASSUME NEW c \in Comparisons, NEW l \in Sources, NEW r \in Sources, Start(c, l, r) PROVE Goal(c)
  <2>1. row'[c] = "running" /\ job'[c] = "running"
    BY <1>5, <1>i DEF Start, TypeOK
  <2> QED BY <2>1 DEF Terminal
<1>6. ASSUME NEW c \in Comparisons PROVE Goal(c)
  BY <1>1, <1>2, <1>3, <1>4, <1>5, <1>i, OneStepsAtATime DEF OwnStep
<1> HIDE DEF Goal, Follows, True, Read
<1>7. \A c \in Comparisons : Follows(c) /\ True(c) /\ Read(c)
  BY <1>6 DEF Goal
<1>8. RowFollowsJob'
  BY <1>7 DEF RowFollowsJob, Follows
<1>9. VerdictsAreTrue'
  BY <1>7 DEF VerdictsAreTrue, True
<1>10. IdenticalBinariesWereRead'
  BY <1>7 DEF IdenticalBinariesWereRead, Read
<1> QED BY <1>8, <1>9, <1>10

(***************************************************************************)
(* The invariant.                                                          *)
(***************************************************************************)
LEMMA InvariantInit == Init => CInv
<1> SUFFICES ASSUME Init PROVE CInv
  OBVIOUS
<1>1. TypeOK
  BY TypeInit
<1>2. CountersGrow /\ RowAgrees /\ SourcesKnown
  BY DEF Init, CountersGrow, RowAgrees, SourcesKnown, Terminal
<1>3. NothingUnplanned /\ OnlyListed
  BY DEF Init, NothingUnplanned, OnlyListed, OnSides, NoValues
<1>9. ReadOnce /\ ProfilesFirst
  BY KeysAssumption DEF Init, ReadOnce, ProfilesFirst, IsRead, OnSides, NoValues
<1>4. StoreNeverLies /\ CapturedCurrent /\ RefsPast
  BY DEF Init, StoreNeverLies, CapturedCurrent, RefsPast, References
<1>5. \A c \in Comparisons : pc[c] = "none"
  BY DEF Init
<1>6. ListedPast /\ TreeCurrent
  BY <1>5 DEF ListedPast, TreeCurrent, IsListed
<1>7. HeldSeen /\ RefsSeen /\ TreesSeen /\ MissingExplained
  BY <1>5 DEF HeldSeen, RefsSeen, TreesSeen, MissingExplained, IsListed, IsPlanned
<1>8. ContentsSeen
  <2>1. \A c \in Comparisons, s \in Sides, k \in Keys : hit[c][s][k] = Nothing /\ fresh[c][s][k] = Nothing
    BY DEF Init, OnSides, NoValues
  <2> QED BY <1>5, <2>1 DEF ContentsSeen
<1> QED BY <1>1, <1>2, <1>3, <1>4, <1>6, <1>7, <1>8, <1>9, ResultsInit DEF CInv, StoreInv, SeenInv

LEMMA InvariantStep == CInv /\ [Next]_vars => CInv'
<1> SUFFICES ASSUME CInv, [Next]_vars PROVE CInv'
  OBVIOUS
<1>1. StoreInv /\ SeenInv
  BY DEF CInv
<1>2. TypeOK'
  BY <1>1, TypeStep DEF StoreInv
<1>3. CountersGrow' /\ RowAgrees' /\ SourcesKnown'
  BY <1>1, BookStep DEF StoreInv
<1>4. NothingUnplanned' /\ OnlyListed' /\ ReadOnce' /\ ProfilesFirst'
  BY <1>1, ScopeStep, ReadStep DEF StoreInv
<1>5. CapturedCurrent' /\ RefsPast' /\ StoreNeverLies' /\ ListedPast' /\ TreeCurrent'
  BY <1>1, <1>2, StoreStep
<1>6. HeldSeen' /\ RefsSeen' /\ TreesSeen' /\ ContentsSeen' /\ MissingExplained'
  BY <1>1, SeenStep, ContentStep, MissingStep
<1> QED BY <1>2, <1>3, <1>4, <1>5, <1>6, ResultsStep DEF CInv, StoreInv, SeenInv

LEMMA Invariant == Spec => []CInv
  BY InvariantInit, InvariantStep, PTL DEF Spec

(* Every variable keeps its type. *)
THEOREM CompareTypes == Spec => []TypeOK
<1>1. CInv => TypeOK
  BY DEF CInv, StoreInv
<1> QED BY <1>1, Invariant, PTL

(* The store never lies: what it has under the date a component carries is *)
(* what the component's source holds, whatever comparisons, deployments    *)
(* and edits interleave (snapshot-store.ts, comparison-engine.ts 97-154).  *)
THEOREM StoreIsHonest == Spec => []StoreNeverLies
<1>1. CInv => StoreNeverLies
  BY DEF CInv, StoreInv
<1> QED BY <1>1, Invariant, PTL

(* However a comparison's job ends, its row tells the same.                *)
THEOREM RowsFollowJobs == Spec => []RowFollowsJob
<1>1. CInv => RowFollowsJob
  BY DEF CInv
<1> QED BY <1>1, Invariant, PTL

(* The verdicts of a comparison are true of states its two sources held    *)
(* while it ran, what it took from the store included.                     *)
THEOREM VerdictsHold == Spec => []VerdictsAreTrue
<1>1. CInv => VerdictsAreTrue
  BY DEF CInv
<1> QED BY <1>1, Invariant, PTL

(* A binary component called identical had the same bytes on both sides    *)
(* while the comparison ran.                                               *)
THEOREM BinariesHold == Spec => []IdenticalBinariesWereRead
<1>1. CInv => IdenticalBinariesWereRead
  BY DEF CInv
<1> QED BY <1>1, Invariant, PTL
===============================================================================
