------------------------------ MODULE Analyzers ------------------------------
(***************************************************************************)
(* The analyzers of a deployment (analyzers/): what each finds in a        *)
(* context of package components, deletions, the target org, the intent    *)
(* and a dependency graph, any of which may be Unknown.  A name is the     *)
(* sequence of its words.  What a component's XML mentions is a set of     *)
(* [object, name, custom]: a dotted mention has an object, and an action   *)
(* call of a Flow is custom when it calls Apex; the record types a Layout is *)
(* assigned to are a set of dotted names.                                  *)
(***************************************************************************)
EXTENDS Naturals, Sequences, FiniteSets, SequencesExt, FiniteSetsExt

CONSTANT Unknown

Finding(id, severity, key, related) ==
    [id |-> id, severity |-> severity, key |-> key, related |-> related]
NoKey == <<>>
CoverageThreshold == 75
StaleVersionGap == 5

Keys(ctx) == {c.key : c \in ctx.package}
OfType(ctx, types) == {c \in ctx.package : c.key.type \in types}
Apex(ctx) == OfType(ctx, {"ApexClass", "ApexTrigger"})
IsProductionLike(org) == IF org = Unknown THEN Unknown ELSE IF org.sandbox = Unknown THEN Unknown ELSE ~org.sandbox
GatedTarget(ctx) == IsProductionLike(ctx.target) = TRUE

IsTest(name) == "Test" \in ToSet(name)
LooksRelated(s, t) == \E i, j \in 1..Len(s) + Len(t) :
                          (j <= Len(s) /\ SubSeq(s, i, j) = t) \/ (j <= Len(t) /\ SubSeq(t, i, j) = s)

-----------------------------------------------------------------------------
\* coverage-rules.ts
RunLocalTestsGate(ctx) ==
    IF /\ Apex(ctx) # {} /\ GatedTarget(ctx)
       /\ ctx.target.coverage # Unknown /\ ctx.target.coverage < CoverageThreshold
       /\ ctx.testLevel \notin {"RunSpecifiedTests", "NoTestRun"}
    THEN {Finding("production-run-local-tests-gate",
                  IF ctx.testLevel = Unknown THEN "warning" ELSE "error", NoKey, {})}
    ELSE {}
NoTestRunInvalid(ctx) ==
    IF Apex(ctx) # {} /\ ctx.testLevel = "NoTestRun" /\ GatedTarget(ctx)
    THEN {Finding("production-notestrun-invalid", "error", NoKey, {})} ELSE {}
SpecifiedTestsIncomplete(ctx) ==
    IF ctx.testLevel # "RunSpecifiedTests" \/ OfType(ctx, {"ApexClass"}) = {} THEN {}
    ELSE IF ctx.runTests = {} THEN {Finding("specified-tests-incomplete", "error", NoKey, {})}
    ELSE {Finding("specified-tests-incomplete", "warning", c.key, {}) :
            c \in {d \in OfType(ctx, {"ApexClass"}) :
                     ~IsTest(d.key.name) /\ \A t \in ctx.runTests : ~LooksRelated(t, d.key.name)}}
Measured(ctx, name) ==
    IF ctx.target = Unknown \/ ctx.target.apexCoverage = Unknown THEN Unknown
    ELSE IF name \in DOMAIN ctx.target.apexCoverage THEN ctx.target.apexCoverage[name] ELSE Unknown
TriggerWithoutTest(ctx) ==
    {Finding("trigger-without-apparent-test", "info", t.key, {}) :
        t \in {u \in OfType(ctx, {"ApexTrigger"}) :
                 /\ \A c \in OfType(ctx, {"ApexClass"}) :
                        ~(LooksRelated(c.key.name, u.key.name) /\ IsTest(c.key.name))
                 /\ Measured(ctx, u.key.name) \in {Unknown, 0}}}
LowIndividualCoverage(ctx) ==
    {Finding("deployed-class-low-individual-coverage", "warning", c.key, {}) :
        c \in {d \in Apex(ctx) : /\ GatedTarget(ctx) /\ Measured(ctx, d.key.name) # Unknown
                                 /\ Measured(ctx, d.key.name) < CoverageThreshold}}
TargetIsSandbox(ctx) ==
    IF Apex(ctx) # {} /\ IsProductionLike(ctx.target) = FALSE
    THEN {Finding("target-is-sandbox", "info", NoKey, {})} ELSE {}

-----------------------------------------------------------------------------
\* dependency-rules.ts: a reference is reported when it is neither deployed
\* with the component nor there already, and the graph says so; a record type
\* a Layout is assigned to, as a warning.
FieldKey(object, field) == [type |-> "CustomField", name |-> <<object, field>>]
RecordTypeKey(dotted) == [type |-> "RecordType", name |-> dotted]
Plain(c) == {m \in c.mentions : m.object = "" /\ m.custom}
FormulaTokens(c) == {m \in Plain(c) : \A n \in c.mentions : n.name = m.name => n.object = ""}
ExtractReferences(c) ==
    CASE c.key.type = "Layout" ->
             {FieldKey(c.object, m.name) : m \in Plain(c)} \cup {RecordTypeKey(r) : r \in c.recordTypes}
      [] c.key.type = "QuickAction" -> {FieldKey(c.object, m.name) : m \in Plain(c)}
      [] c.key.type \in {"ValidationRule", "CustomField"} ->
             {FieldKey(c.object, m.name) : m \in FormulaTokens(c)} \ {c.key}
      [] c.key.type = "Flow" -> {[type |-> "ApexClass", name |-> <<m.name>>] : m \in Plain(c)}
      [] OTHER -> {}
ExistsInTarget_UnknownIsMissing(ctx, key) == ctx.exists # Unknown /\ ctx.exists[key] = TRUE
ExistsInTarget(ctx, key) == IF ctx.exists = Unknown THEN Unknown ELSE ctx.exists[key]
Severity(ref) == IF ref.type = "RecordType" THEN "warning" ELSE "error"
MissingReference(ctx) ==
    UNION {{Finding("missing-reference", Severity(ref), c.key, {ref}) :
               ref \in {r \in ExtractReferences(c) \ Keys(ctx) : ExistsInTarget(ctx, r) = FALSE}} :
           c \in {d \in ctx.package : d.parses}}
Autofix(ctx, finding) == finding.related

\* permission-rules.ts: the same for what a Profile or PermissionSet grants.
GrantsNonexistentTarget(ctx) ==
    UNION {{Finding("grants-nonexistent-target", "warning", c.key, {g.key}) :
               g \in {h \in c.grants : /\ h.granted /\ h.key \notin Keys(ctx)
                                       /\ ExistsInTarget(ctx, h.key) = FALSE}} :
           c \in {d \in OfType(ctx, {"Profile", "PermissionSet"}) : d.parses}}

\* destructive-rules.ts
Dependents(ctx, key) == {e[1] : e \in {f \in ctx.edges : f[2] = key}}
DeletingReferenced(ctx) ==
    IF ctx.exists = Unknown THEN {}
    ELSE {Finding("deleting-referenced-component", "error", k, Dependents(ctx, k) \ ctx.destructive) :
            k \in {j \in ctx.destructive : ~(Dependents(ctx, j) \subseteq ctx.destructive)}}
DeletingFieldOnLayout(ctx) ==
    UNION {{Finding("deleting-field-referenced-by-inpackage-layout", "error", k, {c.key}) :
               k \in {FieldKey(IF m.object = "" THEN c.object ELSE m.object, m.name) : m \in c.mentions}
                         \cap ctx.destructive} :
           c \in {d \in OfType(ctx, {"Layout"}) : d.parses}}

-----------------------------------------------------------------------------
\* hardcoded-id-rules.ts: each of the last three of 18 characters is the index whose
\* bits say which of five characters are capitals; a shorter Id needs a known prefix.
Checksum(id) == [chunk \in DOMAIN id.capitals |-> MapThenSumSet(LAMBDA i : 2 ^ i, id.capitals[chunk])]
IsId(id) == IF id.length = 18 THEN id.suffix = Checksum(id) ELSE id.length = 15 /\ id.knownPrefix
HardcodedId(ctx) ==
    {Finding("hardcoded-id", "warning", c.key, {}) : c \in {d \in ctx.package : \E id \in d.ids : IsId(id)}}

\* stale-rules.ts
ApiVersionFarBehind(ctx) ==
    {Finding("api-version-far-behind", "info", c.key, {}) :
        c \in {d \in OfType(ctx, {"ApexClass", "ApexTrigger"}) :
                 /\ ctx.target # Unknown /\ d.apiVersion # Unknown
                 /\ ctx.target.apiVersion # Unknown
                 /\ ctx.target.apiVersion >= d.apiVersion + StaleVersionGap}}
Inactive(ctx, type) == {c \in OfType(ctx, {type}) : c.parses /\ c.status = "inactive"}
InactiveValidationRule(ctx) ==
    {Finding("inactive-validation-rule", "info", c.key, {}) : c \in Inactive(ctx, "ValidationRule")}
InactiveWorkflowRule(ctx) ==
    {Finding("inactive-workflow-rule", "info", c.key, {}) : c \in Inactive(ctx, "WorkflowRule")}
FlowVersionStatus(ctx) ==
    {Finding("flow-version-status", IF c.status = "Obsolete" THEN "warning" ELSE "info", c.key, {}) :
        c \in {d \in OfType(ctx, {"Flow"}) : d.parses /\ d.status \in {"Obsolete", "Draft"}}}

-----------------------------------------------------------------------------
\* registry.ts: an analyzer that throws becomes one finding of its own.
Rules(ctx) ==
    [coverage    |-> RunLocalTestsGate(ctx) \cup NoTestRunInvalid(ctx) \cup SpecifiedTestsIncomplete(ctx)
                         \cup TriggerWithoutTest(ctx) \cup LowIndividualCoverage(ctx) \cup TargetIsSandbox(ctx),
     dependency  |-> MissingReference(ctx),
     permission  |-> GrantsNonexistentTarget(ctx),
     hardcoded   |-> HardcodedId(ctx),
     stale       |-> ApiVersionFarBehind(ctx) \cup InactiveValidationRule(ctx)
                         \cup InactiveWorkflowRule(ctx) \cup FlowVersionStatus(ctx),
     destructive |-> DeletingReferenced(ctx) \cup DeletingFieldOnLayout(ctx)]
RunAnalyzers(ctx, disabled, throwing) ==
    LET rules == Rules(ctx)
    IN  UNION {IF a \in throwing THEN {Finding(a, "info", NoKey, {})} ELSE rules[a] :
                 a \in (DOMAIN rules) \ disabled}
=============================================================================
