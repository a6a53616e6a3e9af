------------------------------ MODULE Projects ------------------------------
(***************************************************************************)
(* The sources that are files: a local project (sfdx-project-source.ts)    *)
(* and a branch of a repository (git-ref-source.ts).  One component of     *)
(* several files is edited, listed with a date and read, and what was read *)
(* is kept under that date.  Module Compare supposes that an edit changes  *)
(* the date a source reports; this module says when that is so.            *)
(***************************************************************************)
EXTENDS Naturals, Sequences, FiniteSets, SequencesExt, FiniteSetsExt

CONSTANTS Paths, Contents, NoFile,
          Kinds,      \* a subset of {"sfdx-project", "git-ref"}
          Bodies,     \* for each type, the files its content is read from (content-reader.ts)
          EditsPerSecond, \* edits that may fall into one second of a commit's timestamp
          MaxEdits    \* bound: how often the component is edited

ASSUME ProjectsAssumption ==
    /\ NoFile \notin Contents /\ Contents # {} /\ Paths # {} /\ MaxEdits \in Nat
    /\ Kinds \subseteq {"sfdx-project", "git-ref"} /\ EditsPerSecond \in Nat \ {0}
    /\ Bodies # {} /\ \A b \in Bodies : b # {} /\ b \subseteq Paths /\ IsFiniteSet(b)

VARIABLES
    kind,
    body,       \* the files the component's content is read from
    versions,   \* the commits, or the states of the directory: files, path changed, when
    clock,      \* mtimeMs, or the second of committer.timestamp
    reader,     \* the comparison that reads the component: which version it saw where
    raced,      \* a file was removed, or edits met a read or one another in a second
    store       \* what SnapshotStore holds for the component: dates and contents
pvars == <<kind, body, versions, clock, reader, raced, store>>

Now == Len(versions)
\* componentFiles: the files the resolver attributes to the component.
Present(n) == {p \in Paths : versions[n].files[p] # NoFile}
\* pathHistory, or stat: the last version that changed a path.
LastTouch(n, p) == Max({i \in 1 .. n : p \in versions[i].changed})
\* inventory: the newest of the dates of the files there are.
LastModifiedDate_OldestFile(tree, history) ==
    versions[Min({LastTouch(history, p) : p \in Present(tree)} \cup {history})].at
LastModifiedDate(tree, history) ==
    LET seen == {p \in Present(tree) : \E i \in 1 .. history : p \in versions[i].changed}
    IN  IF seen = {} THEN 0   \* lastModifiedDateUnknown
        ELSE versions[Max({LastTouch(history, p) : p \in seen})].at
\* materialize: a file of the listed tree that the read version lacks is missing.
ContentOf(tree, n) == {<<p, versions[n].files[p]>> : p \in body \cap Present(tree) \cap Present(n)}

NotReading == [pc |-> "idle", oid |-> 0, tree |-> 0, history |-> 0]

PInit ==
    /\ kind \in Kinds /\ body \in Bodies /\ raced = FALSE
    /\ versions = <<[files |-> [p \in Paths |-> CHOOSE c \in Contents : TRUE], changed |-> Paths, at |-> 1]>>
    /\ clock = 1 /\ reader = NotReading /\ store = {}

\* Somebody saves, adds or removes a file; a branch moves by a commit.
InThisSecond == {i \in DOMAIN versions : versions[i].at = clock}
Edit(p, c) ==
    /\ Now <= MaxEdits
    /\ Cardinality(InThisSecond) < (IF kind = "git-ref" THEN EditsPerSecond ELSE 1)
    /\ c # versions[Now].files[p]
    /\ \E q \in body : IF q = p THEN c # NoFile ELSE q \in Present(Now)   \* it stays a component
    /\ versions' = Append(versions, [files |-> [versions[Now].files EXCEPT ![p] = c],
                                     changed |-> {p}, at |-> clock])
    /\ raced' = (raced \/ c = NoFile \/ reader.pc # "idle" \/ InThisSecond # {})
    /\ UNCHANGED <<kind, body, clock, reader, store>>
ClockTicks == clock <= Now /\ clock' = clock + 1 /\ UNCHANGED <<kind, body, versions, reader, raced, store>>

BeginReading ==
    /\ reader.pc = "idle"
    /\ reader' = [NotReading EXCEPT !.pc = "listing"]
    /\ UNCHANGED <<kind, body, versions, clock, raced, store>>

\* GitRefSource: the ref is resolved to an oid, then walked by its name; the
\* history is read by its name at the same time (Promise.all in inventory).
ResolveRef ==
    /\ kind = "git-ref" /\ reader.pc = "listing" /\ reader.oid = 0
    /\ reader' = [reader EXCEPT !.oid = Now]
    /\ UNCHANGED <<kind, body, versions, clock, raced, store>>
WalkTree ==
    /\ kind = "git-ref" /\ reader.pc = "listing" /\ reader.oid # 0 /\ reader.tree = 0
    /\ reader' = [reader EXCEPT !.tree = Now]
    /\ UNCHANGED <<kind, body, versions, clock, raced, store>>
PathHistory ==
    /\ kind = "git-ref" /\ reader.pc = "listing" /\ reader.history = 0
    /\ reader' = [reader EXCEPT !.history = Now]
    /\ UNCHANGED <<kind, body, versions, clock, raced, store>>

\* SfdxProjectSource lists the directory as it is.
ListDirectory ==
    /\ kind = "sfdx-project" /\ reader.pc = "listing"
    /\ reader' = [reader EXCEPT !.tree = Now, !.history = Now, !.pc = "listed"]
    /\ UNCHANGED <<kind, body, versions, clock, raced, store>>
ListCommit ==
    /\ kind = "git-ref" /\ reader.pc = "listing" /\ reader.tree # 0 /\ reader.history # 0
    /\ reader' = [reader EXCEPT !.pc = "listed"]
    /\ UNCHANGED <<kind, body, versions, clock, raced, store>>

Date == LastModifiedDate(reader.tree, reader.history)
CacheHit ==
    /\ reader.pc = "listed" /\ \E s \in store : s.date = Date
    /\ reader' = NotReading
    /\ UNCHANGED <<kind, body, versions, clock, raced, store>>
\* The project is resolved again and its files copied; blobs are read at the oid.
ReadDirectory == ContentOf(Now, Now)
ReadCommit == ContentOf(reader.tree, reader.oid)
Materialize ==
    /\ reader.pc = "listed" /\ \A s \in store : s.date # Date
    /\ LET content == IF kind = "git-ref" THEN ReadCommit ELSE ReadDirectory
       IN  store' = IF Date = 0 \/ content = {} THEN store ELSE store \cup {[date |-> Date, content |-> content]}
    /\ reader' = NotReading
    /\ UNCHANGED <<kind, body, versions, clock, raced>>

PNext ==
    \/ \E p \in Paths, c \in Contents \cup {NoFile} : Edit(p, c)
    \/ ClockTicks \/ BeginReading \/ ResolveRef \/ WalkTree \/ PathHistory
    \/ ListDirectory \/ ListCommit \/ CacheHit \/ Materialize

PSpec == PInit /\ [][PNext]_pvars

-----------------------------------------------------------------------------
\* The state is of the shape the definitions above suppose.
PTypeOK ==
    /\ \A i \in DOMAIN versions : versions[i].files \in [Paths -> Contents \cup {NoFile}]
    /\ reader.oid <= Now /\ reader.tree <= Now /\ reader.history <= Now
    /\ \A s, t \in store : s.date = t.date => s = t

Lies(s) == s.date = LastModifiedDate(Now, Now) /\ s.content # ContentOf(Now, Now)

\* What is kept under the date a source reports now is what the component is
\* now: a cache hit means that retrieval "can be skipped entirely"
\* (snapshot-store.ts:16-22, planner.ts:105-130).
DateIdentifiesContent == \A s \in store : ~Lies(s)

\* The assumption module Compare makes of an edit holds of files while nothing
\* is removed, no two edits share a second and no edit meets a read; of a type
\* read from one file of a project directory, listed at once and dated by
\* mtimeMs, it holds even so (git-ref-source.ts:95-116, 171-215,
\* sfdx-project-source.ts:61-74).
DatesIdentifyContentInPeace ==
    \/ raced /\ (kind = "git-ref" \/ Cardinality(body) > 1)
    \/ DateIdentifiesContent
=============================================================================
