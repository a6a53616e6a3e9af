------------------------------ MODULE Retrieval ------------------------------
(***************************************************************************)
(* OrgSource.materialize: one request for metadata of an org.  The keys    *)
(* are planned into chunks (retrieval/chunking.ts), a few chunks are       *)
(* retrieved at a time, and a chunk whose retrieve fails is bisected, its  *)
(* halves retrieved concurrently, until the components at fault are alone  *)
(* (sources/org-source.ts).  What was retrieved together decides what the  *)
(* absence of an entry in a Profile means (compare/coverage.ts).           *)
(***************************************************************************)
EXTENDS Naturals, Sequences, FiniteSets, SequencesExt, FiniteSetsExt, ListOps

CONSTANTS
    Request,              \* the keys asked for, in order
    ProfileLike, Paired,  \* the keys of PROFILE_LIKE_TYPES, PROFILE_PAIRED_TYPES
    Bundles,              \* the keys of BUNDLE_TYPES
    MaxFiles, MaxKilobytes,  \* options.maxFiles, options.maxBytes
    MinIsolatedFailures, FailurePercent,
    RetrieveConcurrency,
    MaxFaults,            \* bound: calls that fail for a reason of their own
    MaxAiling             \* bound: keys the org has something wrong with

Asked == ToSet(Request)

ASSUME RetrievalAssumption ==
    /\ Request \in Seq(Asked) /\ IsInjective(Request)
    /\ ProfileLike \subseteq Asked /\ Paired \subseteq Asked \ ProfileLike
    /\ MinIsolatedFailures \in Nat \ {0} /\ FailurePercent \in 0 .. 100
    /\ MaxFiles \in Nat /\ MaxKilobytes \in Nat /\ RetrieveConcurrency \in Nat \ {0} /\ MaxFaults \in Nat /\ MaxAiling \in Nat

VARIABLES
    chunks,   \* what materialize planned, once
    org,      \* the keys a retrieve fails on, those it cannot convert, those that are gone
    status,   \* of the promise materialize returned
    chunk,    \* for each chunk: waiting, running, done or rejected
    budget,   \* for each chunk: budget.remaining, shared by its halves
    tasks,    \* the retrieves in flight: the chunk they belong to and their keys
    got,      \* the files: for each key, the keys it was retrieved with
    missing,  \* the keys given up, and why
    faults
rvars == <<chunks, org, status, chunk, budget, tasks, got, missing, faults>>

-----------------------------------------------------------------------------
Estimate(k) == IF k \in Bundles THEN [files |-> 12, kilobytes |-> 32] ELSE [files |-> 2, kilobytes |-> 4]
SumEstimate(keys) ==
    FoldLeft(LAMBDA sum, k : [files     |-> sum.files + Estimate(k).files,
                              kilobytes |-> sum.kilobytes + Estimate(k).kilobytes],
             [files |-> 0, kilobytes |-> 0], keys)
Exceeds(estimate) == estimate.files > MaxFiles \/ estimate.kilobytes > MaxKilobytes

\* Profiles and the components their entries are about, in one chunk whatever its size.
CoreChunk ==
    LET profiles == Only(Request, ProfileLike)
    IN  IF profiles = <<>> THEN <<>> ELSE profiles \o Only(Request, Paired)

Fill(plan, k) ==
    IF plan = <<>> \/ Exceeds(SumEstimate(Append(Last(plan), k)))
    THEN Append(plan, <<k>>)
    ELSE [plan EXCEPT ![Len(plan)] = Append(@, k)]

PlanMaterializeChunks ==
    LET rest == Only(Request, Asked \ ToSet(CoreChunk))
        plan[n \in 0 .. Len(rest)] == IF n = 0 THEN <<>> ELSE Fill(plan[n - 1], rest[n])
    IN  (IF CoreChunk = <<>> THEN <<>> ELSE <<CoreChunk>>) \o plan[Len(rest)]

Tolerance(keys) == Max({MinIsolatedFailures, (FailurePercent * Len(keys) + 99) \div 100})

\* convertWithIsolation: one call converts the items after "from" up to "to", the
\* halves one after the other, on a budget of their own.
Calls(items) == [from : 0 .. Len(items), to : 0 .. Len(items), left : 0 .. Tolerance(items)]
Conversion(items, convert, c) ==
    CASE \A n \in c.from + 1 .. c.to : items[n] \notin org.unconvertible ->
           [threw |-> FALSE, left |-> c.left, lost |-> {}]
      [] c.to = c.from + 1 /\ items[c.to] \in org.unconvertible ->
           IF c.left = 0 THEN [threw |-> TRUE, left |-> 0, lost |-> {}]
           ELSE [threw |-> FALSE, left |-> c.left - 1, lost |-> {items[c.to]}]
      [] OTHER ->
           LET mid == c.from + (c.to - c.from) \div 2
               a   == convert[[c EXCEPT !.to = mid]]
               z   == convert[[c EXCEPT !.from = mid, !.left = a.left]]
           IN  IF a.threw THEN a ELSE [z EXCEPT !.lost = @ \cup a.lost]
ConvertWithIsolation(items) ==
    LET convert[c \in Calls(items)] == Conversion(items, convert, c)
    IN  convert[[from |-> 0, to |-> Len(items), left |-> Tolerance(items)]]

\* defaultRetrieveAndConvert: one retrieve of the org, converted to source format.
Retrieve(keys) ==
    LET there == Only(keys, Asked \ org.gone)
        conv  == ConvertWithIsolation(there)
    IN  [threw   |-> ToSet(keys) \cap org.poison # {} \/ conv.threw,
         files   |-> ToSet(there) \ conv.lost,
         missing |-> {<<k, "gone">> : k \in ToSet(keys) \cap org.gone}
                       \cup {<<k, "convert">> : k \in conv.lost}]

-----------------------------------------------------------------------------
RInit ==
    /\ chunks = PlanMaterializeChunks
    /\ \E ails \in [Asked -> {"nothing", "poison", "unconvertible", "gone"}] :
          LET Those(what) == {k \in Asked : ails[k] = what} IN
          /\ Cardinality(Asked \ Those("nothing")) <= MaxAiling
          /\ org = [poison |-> Those("poison"), unconvertible |-> Those("unconvertible"), gone |-> Those("gone")]
    /\ status = "connecting"
    /\ chunk = [i \in DOMAIN chunks |-> "waiting"]
    /\ budget = [i \in DOMAIN chunks |-> Tolerance(chunks[i])]
    /\ tasks = {} /\ got = {} /\ missing = {} /\ faults = 0

\* getConnection: the session of the org may have expired.
Connect ==
    /\ status = "connecting"
    /\ \/ status' = "running" /\ UNCHANGED faults
       \/ faults < MaxFaults /\ faults' = faults + 1 /\ status' = "failed"
    /\ UNCHANGED <<chunks, org, chunk, budget, tasks, got, missing>>

\* withConcurrency: a runner takes the next chunk.  A runner whose chunk was
\* rejected is gone; the others go on, whether or not materialize has failed.
TakeChunk(i) ==
    /\ \/ status = "running"
       \/ status = "failed" /\ \E j \in DOMAIN chunks : chunk[j] # "waiting"
    /\ chunk[i] = "waiting" /\ \A j \in 1 .. i - 1 : chunk[j] # "waiting"
    /\ Cardinality({j \in DOMAIN chunks : chunk[j] \in {"running", "rejected"}}) < RetrieveConcurrency
    /\ chunk' = [chunk EXCEPT ![i] = "running"]
    /\ tasks' = tasks \cup {[chunk |-> i, keys |-> chunks[i]]}
    /\ UNCHANGED <<chunks, org, status, budget, got, missing, faults>>

\* A retrieve is answered: it threw because of what it asked for, or by a fault.
Threw(t) ==
    \/ Retrieve(t.keys).threw /\ UNCHANGED faults
    \/ faults < MaxFaults /\ faults' = faults + 1
Others(t) == tasks \ {t}
Settle_Forgotten(t) == chunk' = chunk
Settle(t) ==   \* Promise.all of the halves, when t was the last of its chunk
    chunk' = IF chunk[t.chunk] = "running" /\ \A o \in Others(t) : o.chunk # t.chunk
             THEN [chunk EXCEPT ![t.chunk] = "done"] ELSE chunk

Answered(t) ==
    LET r == Retrieve(t.keys) IN
    /\ ~r.threw
    /\ tasks' = Others(t)
    /\ got' = got \cup {[key |-> k, with |-> ToSet(t.keys)] : k \in r.files}
    /\ missing' = missing \cup r.missing
    /\ Settle(t)
    /\ UNCHANGED <<chunks, org, status, budget, faults>>

HalvesAt(t, mid, from) == {[t EXCEPT !.keys = SubSeq(@, 1, mid)], [t EXCEPT !.keys = SubSeq(@, from, Len(@))]}
Halves_Overlap(t) == HalvesAt(t, Len(t.keys) \div 2, Len(t.keys) \div 2)
Halves(t) == HalvesAt(t, Len(t.keys) \div 2, Len(t.keys) \div 2 + 1)
Bisected(t) ==
    /\ Threw(t) /\ Len(t.keys) > 1
    /\ tasks' = Others(t) \cup Halves(t)
    /\ UNCHANGED <<chunks, org, status, chunk, budget, got, missing>>

\* A chunk of one key is retrieved without isolation.
Isolates_NotTheLast(t) == Len(chunks[t.chunk]) > 1 /\ budget[t.chunk] > 1
Isolates(t) == Len(chunks[t.chunk]) > 1 /\ budget[t.chunk] > 0

Spend_OnEachHalf(t) == budget
Spend(t) == [budget EXCEPT ![t.chunk] = @ - 1]
Isolated(t) ==
    /\ Threw(t) /\ Len(t.keys) = 1 /\ Isolates(t)
    /\ tasks' = Others(t)
    /\ budget' = Spend(t)
    /\ missing' = missing \cup {<<t.keys[1], "retrieve">>}
    /\ Settle(t)
    /\ UNCHANGED <<chunks, org, status, got>>

Rejected(t) ==
    /\ Threw(t) /\ Len(t.keys) = 1 /\ ~Isolates(t)
    /\ tasks' = Others(t)
    /\ chunk' = [chunk EXCEPT ![t.chunk] = "rejected"]
    /\ status' = "failed"
    /\ UNCHANGED <<chunks, org, budget, got, missing>>

Finish ==
    /\ status = "running" /\ \A i \in DOMAIN chunks : chunk[i] = "done"
    /\ status' = "done"
    /\ UNCHANGED <<chunks, org, chunk, budget, tasks, got, missing, faults>>

RNext ==
    \/ Connect \/ Finish
    \/ \E i \in DOMAIN chunks : TakeChunk(i)
    \/ \E t \in tasks : Answered(t) \/ Bisected(t) \/ Isolated(t) \/ Rejected(t)

RSpec == RInit /\ [][RNext]_rvars
RFairSpec == RSpec /\ WF_rvars(RNext)

-----------------------------------------------------------------------------
\* coverageForProfileLike: the references a Profile's missing entries say something about.
Coverage(kind, toFetch, p) ==
    CASE kind # "org"                  -> Paired   \* { mode: 'full' }
      [] kind = "org" /\ p \notin toFetch -> {}
      [] kind = "org" /\ p \in toFetch -> Paired \cap toFetch

GotKeys == {g.key : g \in got}
Lost(why) == {m \in missing : m[2] = why}

\* The state is of the shape the definitions above suppose.
RTypeOK ==
    /\ status \in {"connecting", "running", "failed", "done"}
    /\ chunk \in [DOMAIN chunks -> {"waiting", "running", "done", "rejected"}]
    /\ \A i \in DOMAIN chunks : budget[i] \in 0 .. Tolerance(chunks[i])
    /\ \A t \in tasks : t.keys # <<>> /\ ToSet(t.keys) \subseteq ToSet(chunks[t.chunk])
    /\ GotKeys \subseteq Asked /\ faults \in 0 .. MaxFaults

\* A request that comes back answers for every key it was asked for, once:
\* a file, or a reason why there is none (SourceTree, org-source.ts:379-415).
EveryKeyIsAnswered ==
    status = "done" =>
        \A k \in Asked : Cardinality({g \in got : g.key = k}) + Cardinality({m \in missing : m[1] = k}) = 1

\* One broken component costs itself, not the request: without a fault of the
\* network, materialize fails only for a key alone in its chunk or for more
\* broken keys in one chunk than its tolerance, in whatever order the halves
\* are answered (org-source.ts:452-510).
AFewFailuresAreTolerated ==
    (status = "failed" /\ faults = 0) =>
        \E i \in DOMAIN chunks :
            LET broken == ToSet(chunks[i]) \cap org.poison
            IN  Cardinality(broken) > (IF Len(chunks[i]) = 1 THEN 0 ELSE Tolerance(chunks[i]))

\* An outage is not taken for a handful of broken components: what a chunk
\* gives up because its retrieve failed never exceeds the one budget its halves
\* share, and a key is given up only for its own sake or for a fault
\* (org-source.ts:475-486).
ManyFailuresAreLoud ==
    status = "done" =>
        /\ \A i \in DOMAIN chunks :
              Cardinality({m \in Lost("retrieve") : m[1] \in ToSet(chunks[i])}) <= Tolerance(chunks[i])
        /\ Cardinality({m \in Lost("retrieve") : m[1] \notin org.poison}) <= faults

\* What coverage.ts takes for read together was read together: if no retrieve
\* of the chunk of the Profiles failed (for a poisoned key, or for more than those
\* that came back may lose to the conversion), each was retrieved with every component
\* its entries are judged by (chunking.ts:126-159, coverage.ts:52-73).
ProfileReadWithItsPairs ==
    (/\ status = "done" /\ faults = 0
     /\ ToSet(CoreChunk) \cap org.poison = {}
     /\ Cardinality(ToSet(CoreChunk) \cap org.unconvertible) <= Tolerance(Only(CoreChunk, Asked \ org.gone))) =>
        \A g \in got : g.key \in ProfileLike => Coverage("org", Asked, g.key) \subseteq g.with

\* coverage.ts:24-28: a Profile fetched fresh "is forced into the same chunk as
\* every OTHER `toFetch` component of a `PROFILE_PAIRED_TYPES` type - so that exact
\* set is precisely what the live retrieve co-fetched it with", also when a
\* retrieve of that chunk has failed.
CoverageIsWhatWasRetrieved ==
    status = "done" => \A g \in got : g.key \in ProfileLike => Coverage("org", Asked, g.key) \subseteq g.with

\* Every request ends: bisection stops, and no answer leaves a chunk open.
MaterializeEnds == status = "connecting" ~> status \in {"failed", "done"}

=============================================================================
