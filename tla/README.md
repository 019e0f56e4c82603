# schemacompiler in TLA+

A verification development for `github.com/ogen-go/schemacompiler`, a compiler
from JSON Schema (Draft 2020-12 and OpenAPI component schemas) to plans a Go
code generator can lower. Paths below are relative to the repository.

## 1. The system

| component | state it keeps | operations | what makes it correct |
|---|---|---|---|
| reference resolution and loading, `internal/frontend/{convert,resolve,loader,document}.go` | the registry's maps (resources, pointers, anchors), recorded `$ref`s, bases attempted, load errors | convert a document, resolve pass, load a document, finalize | what resolves does not depend on map order or on the order documents load; each document is fetched at most once; the worklist ends; what dangles is reported with a reason |
| recursion classification, `internal/frontend/scc.go`, `internal/scc/scc.go` | Tarjan's index, lowlink, stack; the list of recursive components | search, classify, look a class up | components in reverse topological order; a class says whether some cycle never descends into the instance |
| inhabitation, `internal/frontend/inhabit.go` | the nodes proven inhabited | one pass, report | flags nothing satisfiable; misses no object that requires itself |
| semantic IR, `internal/ir` | none (per call: memo of kinds) | compile a node | keyword by keyword meaning; kinds over-approximate |
| normalizer, `internal/norm` | a budget per call | rewrite to a fixed point | the accepted set never changes; it ends |
| planner, `internal/planner` | diagnostics, requirements, gap flags, trust memo | build a plan | a plan may accept more than its schema, never less; what it leaves out is reported |
| whole-document assembly, `schemacompiler.go`, `compile_document.go`, `document.go` | map of plans by schema id | compile a schema, compile a document | every reference names its own target's plan; one plan per schema; the result's capability covers what is reachable |
| capability roll-up, `capability.go` | levels, dependencies, diagnostics | collect, fixed-point pass | every plan at the worst level it reaches, whatever the map order |
| plan traversal, interpreter, compiled validator, `internal/{planwalk,planterp,nodetree}` | per validation: call frames; per validator: definition table | fold, interpret, compile and run | the fast validator and the interpreter accept the same values |
| Go backend, `gogen`, with `opt` | types by id, names taken | lower, break cycles, split checks, build validators, name, render | no type of infinite size; what is decoded and validated is never less than what the plan accepts, and more only where the file says so |
| `plan`, `metadata.go`, `internal/dump`, `cmd/schemac`, `internal/{ecmaregex,jsonequal,gentest,gorun,gotypecheck}`, `conformance` | none of interest | data types, formatting, process and file I/O | unit and conformance tests |

How they interact: `LoadWithLoader`, `FromLibOpenAPIProxy` or
`FromLibOpenAPIDocument` builds one registry (conversion, then resolution, then
recursion classes, then inhabitation; `convState.analyze`). The assembly takes
the registry's entry schemas and reference targets through `ir.Compile`,
`norm.Normalize` and `planner.BuildAt`, one at a time, collects the plans in one
map, rolls the capabilities up over it and hands the map to a backend or an
evaluator. Control is sequential throughout: there are no goroutines in the
compiler. What makes it hard is order that nothing fixes (Go maps are ranged for
references, for reference targets and for plans), fixed points over cyclic
graphs, documents that fail in the middle, a caller's context cancelled between
two loads, and identity: pointers are relative to a document, URIs and ids are
shared across documents.

The hazards, each at its line, are listed in `PROJECT.json`.

## 2. The modules

Every non-trivial definition has an entry in `PROJECT.json`'s `map` with the
lines it stands for.

**RolledUp**: what `rollUpCapabilities` promises, as a specification of its own.
Levels only climb, only to a level that some reachable plan has, and the
function returns when every plan carries the worst level reachable from it. No
dependency lists, no passes, no diagnostics.

**CapabilityRollup**: `rollUpCapabilities` itself. The map handed in is `ids`,
`refs` (the names of a plan's `$ref` leaves, as `planReferences` reports them)
and `declared`. The two `range` loops are `Collect(id)` and `Raise(id)` over a
set `todo` of keys still to come, so that every order Go may pick is a
behaviour; `BeginPass` and `Return` are the head of `for changed := true;
changed;`. A reference of a plan to itself is ignored, one without a plan makes
the plan `Unsupported` and appends a diagnostic. `ImplementsPromise` is
`RolledUp!Spec` under the mapping `done <- phase = "done"`.

**CapabilityRollupProofs**: theorems about it (section 5).

**DocumentAssembly**: `compileSchema` (mode "schema") and `CompileDocument`
(mode "document"). A node is what a plan is built from; `pointer[n]` is its
pointer within its own document, which is also the id a plan is filed under
(`RefTarget`, from `ir.refTarget`; `RefTargets`, from `Registry.RefTargets`,
where targets of equal pointers overwrite one another). A raw reference is a name
of its own, in the same namespace: it may be spelled like a pointer, and is then
taken for the plan filed under it. `BuildEntries`,
`BuildDefinitions` and `CallRollUp` assemble the map, the roll-up then takes
`CapabilityRollup`'s own steps on the map (`INSTANCE`, same variable names), and
`Finish` computes `Result.Capability`. The pipeline for one schema is reduced to
the level and the references it yields.

**DocumentAssemblyProofs**: theorems about it (section 5).

**RefLoader**: `convState` from `convertRoot` or `FromLibOpenAPIDocument` to
`finalizeUnresolved`. A document is a sequence of nodes in the order conversion
meets them, each with its pointer, `$id`, `$anchor` and `$ref`; `Convert` is the
whole conversion of a document (a node that fails stops it: what was registered
before stays). `Registered` follows `register`: a node is filed by its pointer
relative to the root of every enclosing resource. `ResolvePass`, `TryLoad(b)`
(any order within a round), `EndRound` and `FinalizeUnresolved` are
`resolveAll`'s loop; `Cancel` is the caller's context. `Given` is the document
the caller holds, which is not what the loader would return for its URI.
`WorldsAssumption` says which documents there may be: conversion meets a node before
the nodes under it, and `true` and `false` have one node without keywords.

**RefLoaderProofs**: theorems about it (section 5).

**StronglyConnected**: Tarjan's algorithm as in `internal/scc`, the recursion
unrolled into `calls`. `Enter` is the head of `strongconnect`, `Follow(w)` a
turn of its loop, `Return` its tail together with the caller's update of its
lowlink. Roots and edges are taken in any order.

**RecursionClasses**: `analyzeSCCs`. It EXTENDS StronglyConnected, runs it on
the whole graph, then for every recursive component once more on the edges that
do not descend into the instance, as `classify` does.

**RecursionClassesProofs**: theorems about both, first the algorithm, then the analysis
(section 5).

**Inhabitation**: `analyzeInhabitation`, one `Visit` per node of a pass,
`NextPass` and `Report`. A node is a record of the keywords `nodeInhabited`
reads, plus the one it ignores and JSON Schema does not, `patternProperties`.
`Inhabitable` is JSON Schema's meaning, stated apart from the algorithm as a
least set.

**InhabitationProofs**: theorems about it (section 5).

**Expressions**: values, and what every module assumes of an expression: its form, the
kinds of value, the kinds a predicate guards against.

**Denotation**: what an expression stands for (`Accepts`) and its abstract kinds
(`Kinds`, `PureKinds`), one level at a time. Here and in RewriteRules and TypeCycles an
operator that recurses is a CONSTANT; what it is to be is a definition that calls it and is
named `...By`. Only `ref`, `required` and `pattern` are left to SchemaIR, as they are looked up in a
table; `Governing` and `GoverningAt` say which members of a shape speak of a name or an index.
A configuration makes the definition its value (`Kinds <- KindsBy`), which
ties the knot for TLC; a theorem takes the equation `Kinds(e) = KindsBy(e)` as its
hypothesis. Both speak of the same definitions.

**SchemaIR**: `ir.Compile` (`Compile`, with one operator per desugared keyword),
the kind summaries of reference targets (`refkinds.go`), the values of
the expressions that are looked up (`SatisfiedBy`, which is what `Accepts` is to
be), and, stated
from the keywords alone, `Valid`, what JSON Schema says a schema accepts. Numbers
count halves, so that integers and other numbers differ. `minimum`, `contains` and
`required` stand for the guarded predicates of the three kinds, `properties` for
the shapes. The memo of the kind analysis is left out: outside reference cycles it
returns what the walk without it would, inside them both over-approximate, and the
instances have no cycle the analysis follows.

**RewriteRules**: the rules of `internal/norm` as functions of operands that are rewritten
already, each an operator named for it: flattening, what subsumes what and what is
disjoint from what (`Subsumes`, `Disjoint`), dropping what is covered (`Thinned`),
`FoldKinds`, `SimplifyAll`, `SimplifyAnyOf`, `SimplifyNot`, the cases of a oneOf
(`ExactlyOneOf`) and the branches of a distribution (`Branches`, `Rejoined`).

**NormalizeLoop**: `norm.Normalize`. A state holds the expression so far, the budget
left and the cell `contains` points to; one step `Pass` is one turn of the loop,
that is one call of `normalize` on the whole expression (`Rewrite`, which is to be
`RewriteBy`), which takes the operands through the rules: `RewriteAll` flattens, then
distributes (`Distribute`) or simplifies, `RewriteExactlyOne` rewrites what the
alternatives became, `RewriteMembers` puts the members of a shape back where they were.
Budget and cell go through the rules in the order the code meets the operands
(`RewriteUpto`). All copies of a `contains` share one cell, as the code's copied pointers
do: rewriting one rewrites all, and the loop's comparison does not see it. What a schema
compiles to and what it means are parameters here (`Compiled`, `Meant`), SchemaIR's in the
runs.

**NormalizerProofs**: theorems about both, and about Denotation (section 5).

**Normalizer**: what the loop leaves behind, once it is run on what Compile makes: the normal
form, the size, the number of passes.

**PlanInterpreter**: what a plan is (`PlanOf`: representation, guarded checks,
dispatch, level), `plan.ResidualChecks`, and `planterp`: `Interpret`, which is to be
`InterpretBy`, gives a verdict and whether it had to approximate. Checks come first and the first rejection ends
the run (`InTurn`, `After`), then the dispatch; a reference met again without
descending is an internal error, as in `definition`. Patterns are decided or not,
a format never is.

**PlanOracle**: what a validator promises, as a specification of its own: each
instance gets the interpreter's verdict, an approximated acceptance stays one. It
promises nothing of an instance with a name that cannot be quoted (`Quotable`).

**NodeTree**: `nodetree`. The state is the input, the definitions still to be
compiled (`CompileDefinition(d)` in any order, as Go ranges the map), the table
reference nodes read, the root, and the last question. `Fusion` folds counts
and required names into a lone structure beside them (`fuse.go`), `Ok` and `Errs`
are the accepting and the reporting method of every node; a reporting walk takes the
number of errors its consumer wants and says whether it was stopped. What calls itself
on the parts of a tree (`CompilePlan`, `Ok`, `Errs`) is a constant, which the run gives its
equation (`CompilePlanBy`, `OkBy`, `ErrsBy`). `propertyNames` asks its node about the name
as `strconv.Quote` writes it (`Quoted`), which for a `Garbled` name is no JSON. Only the
definitions of a static reference graph are compiled (`Collected`). `ImplementsOracle`
is `PlanOracle!Spec`.

**NodeTreeProofs**: theorems about it (section 5).

**PlanWalk**: the plans nested in a plan, in order, the references a plan holds,
and the contract every consumer relies on (no nil slot, no union without a
dispatch, no guard wider than its check).

**UnionAnalysis**: the analyses of the planner that decide without building:
`flattenAll` (`Components`), literal, property, presence and kind disjointness,
the facts about a tag that a declared discriminator is judged by, through
references.

**PlanBuilder**: `builder.build` and everything it calls. The builder's fields are
a record threaded through every operator: what was noted, the two gaps, the trust
memo, and the cell of `contains`, which the planner's own calls of `Normalize`
write into. One operator per function, named for it. The references of a schema and
the recursion class of a definition are computed from the schemas (`RefsOf`,
`RecursionClass`), as RecursionClasses shows them to be.

**Planner**: composes the two: the steps of NormalizeLoop (`Rewriting`), then one
`Analyze`, which is `buildPlan`; every definition has a plan from a Build of its own
(`DefPlans`). `Answer` interprets the plan, so that a property compares what the
schema's keywords say (`Valid`, SchemaIR) with what the plan does.

**TypeCycles**: `breakCycles`. A Go type is a tuple headed by its variant in `type.go`.
`Inline` and `Behind` are what a type stores within itself and behind an indirection of the
language, `OnCycle` the types on a cycle of inline storage, as StronglyConnected computes
them; `BreakCycles` rewrites every declaration, slot by slot (`PointerizeBy`).

**GoTypes**: the rest of `gogen.Lower` up to the types: `Lower` gives every plan its shape
(one operator per function of `lower.go`).

**ValidateMethods**: the loops of `validators` that decide which declared types get a
`Validate` method and which calls stay, over check trees reduced to whether they test
something (`own`) and whom they call (`deps`, `calls`). `Visit(id)` is one turn of a
pass, in any order; `PruneCalls` is the last loop.

It has no run of its own: TLC runs its steps as GoValidators', on trees.

**GoBackendProofs**: theorems about TypeCycles and ValidateMethods (section 5).

**GoValidators**: the rest of `Lower` and the first half of `Render`. `Split` divides
a plan's checks into what the type discharges, what can be tested and what needs the
raw document; `Node` and `Sub` pair the two trees. `BuildChecks`, `Propagate`
and `PruneCalls` are the three loops of `validators`; the steps of the second are
ValidateMethods' own (`Methods == INSTANCE ValidateMethods`), and the third prunes the
trees themselves; the property, `CallsReachChecks`, is ValidateMethods' too. `blocked`
is there as in the code; no check the generator writes today sits on a type without
methods, so it stays empty.

**GeneratedCode**: what the file does when it runs: which declarations have a codec,
what the codecs and otherwise `encoding/json` make of a JSON value (`Decodes`; the
library is marked external), what the methods test of it (`Validates`), and the two
together (`Admits`), which the properties hold against `Interpret` of the same plan.

The `MC*` modules choose the inputs for TLC. Operators whose comment begins
"Mutant of" are deliberately wrong variants of the definition that follows them;
nothing uses them unless a mutant of `PROJECT.json` puts one in the place of the
definition, to see the property fail that it names.

## 3. What TLC checks

| run | checks | instance | states |
|---|---|---|---|
| `capability_rollup` | type, `SettledAtWorst`, `UnsupportedExplained`, `Termination`, `ImplementsPromise` | 3 plans with at most 2 references each, 1 dangling name, ladder 0..2 | 523k |
| `document_assembly` | `CoversEveryReachable`, `IdNamesItsTarget`, `GraphIsComplete`, `ComponentsPlannedOnce` | 3 nodes in one document, 2 dangling names, one of them spelled like a pointer, both modes | 719k |
| `assembly_capability_lost` | violates `CoversEveryReachable` | 3 nodes, two of them roots of two documents, schema mode | |
| `ref_loader` | `FetchedAtMostOnce`, `ResolvesWhatLoads`, `DanglingHasReason`, `Termination` | 9,576 worlds of a given document (2 nodes) and two loadable ones (3 and 2 nodes), cancellation at any point | 212k |
| `recursion_classes` | `EmitsComponents`, `EmitsSuccessorsFirst`, `LowlinksLeadBack`, `ClassesAreRight`, `Termination` | every graph of 4 vertices and at most 4 edges of either kind, up to renaming | 421k |
| `inhabitation` | type, `NeverWronglyFlagged`, `FlagsEveryEmptyRecursion`, `Termination` | 3 nodes, 2 property names, 28 shapes a node | 521k |
| `normalizer` | `KeepsMeaning`, `KindsBracket`, `NormalAtFixpoint`, `NeverGivesUp`, `GrowsOnlyByDistribution` | 15 atoms, alone in pairs under each combinator, pairs under `not` and `properties`, triples, nested groups, `if`, `dependentSchemas`; 12 values; budgets 0..2 | 74k |
| `node_tree` | `ReportsIffRejected`, `StopsWithConsumer`, `ImplementsOracle` | 1,500 plans of up to three checks, every dispatch, three definitions that reach one another, definitions of a dynamic graph; 13 instances, one with a name Go quotes in no JSON | 24k |
| `planner` | `NeverRejectsValid`, `ExactUnlessReported`, `TrustedTargetsExact`, `CapabilityCoversParts`, `KeepsPlanContract` | 20 exact and 9 open schemas in pairs, pairs under `not`, `items`, `properties` and patterns, discriminators over 6 branches; 5 definitions, 18 values; budgets 0..2 | 24k |
| `planner_rejects` | violates `NeverRejectsValid` | pairs under anyOf and oneOf, with branches of any kind | |
| `go_backend` | `NoInfiniteType`, `IndirectionPerType`, `CallsReachChecks`, `AcceptsWhatThePlanAccepts`, `AdmitsWhatItSkips` | 1,062 documents: 33 sorts of schema alone and in 13 slots, two types that recurse through any two slots; 31 instances | 14k |
| `go_backend_rejects` | violates `NeverRejectsAdmitted` | a tuple in each of the slots | |

Why the bounds are enough for what they are used for:

- Three plans give chains longer than one pass can settle in a bad order,
  diamonds, self references, two- and three-cycles, and dangling references
  below a cycle. A ladder of three rungs has a declared level strictly between
  the best and `Unsupported`. Sizes beyond that are the theorems' business, here and
  in the next passing runs up to `inhabitation`.
- Three nodes in two documents are the smallest instance with two targets of one
  id; within one document they give a root, a definition and a nested target. Of the
  two raw references one dangles and one is spelled like the definition's id, which
  is in the map in some inputs and not in others. A node has at most two references,
  the nested target one.
- The loader's worlds have two rounds of loading, cycles between documents, an
  `$id` of one document that another refers to, an `$id` inside a subtree, an
  anchor, a boolean document, a loader that is absent, one that fails, a document
  that breaks half way and a malformed reference. More documents only add rounds.
- Four vertices with four edges hold two components joined by an edge, a cycle
  with a chord, a cycle with a path into and one out of it, and two cycles that
  share a vertex, over which the two kinds of edges can be spread in every way.
- A component of three inhabitation nodes can need three passes, which separates
  an iteration to the fixed point from one or two passes.

- The normalizer's atoms are equal, ordered, disjoint or overlapping in pairs, with
  and without a numeric domain, and trivial in both ways; the 12 values tell every
  two of them apart that JSON Schema does. A conjunction with the same two-valued
  `enum` twice is distributed over in the second pass only. Budget 0 leaves
  everything factored, 1 runs out inside a nested group, 2 covers the deepest of
  them. A schema has at most one `contains`, whose sub-schema needs several passes:
  with two, each would have a cell of its own, and the model has one.

- The validator's plans have every check beside every structure on equal and on
  different guards, which is what fusion distinguishes; bounds of one and two
  separate empty, singleton and larger instances. Definitions are compiled in every
  order, and each can be reached before it is compiled. A garbled name meets a
  pattern, a literal and counts, and walks that report it.
- The planner's schemas are one of each construct the builder branches on, and every
  pair of them meets in a conjunction and in a union, where the analyses compete.
  `amount` and `tagged` are exact, `node` is recursive, `wide` is planned wider than
  it is and `veiled` leads to it, which is what the trust memo must find out. Depth
  three puts a conjunction or union under a negation and under a member. What the
  inputs leave out is what violates the properties, as section 4 lists.

- The backend's documents put every kind of type into every slot a Go type has, so
  that each is stored inline and behind each indirection of the language; a cycle of
  two types goes through every pair of slots, with a third type outside it, and a
  check at its far end or none. A method is needed two calls away from its check,
  which separates the fixpoint from one pass where the order of visiting is bad.
  Instances hold a value of each kind, present, absent and null in each slot, on both
  sides of every bound.

`CHECK_DEADLOCK` is off everywhere because every one of these functions returns:
the last state has no successor. Where it may not stop earlier, `Termination`
says so.

Fairness is weak fairness of the whole next-state relation (`WF_vars(Next)`, in
RefLoader of `Step`, not of `Cancel`). It says only that a sequential function
that was called keeps executing; the choices among map keys are not constrained.
A call of the external loader is assumed to return. NodeTree, Planner and
GeneratedCode state no fairness: their properties are about what each step leaves behind.

## 4. What the violations show

Each is a disagreement of the code with a sentence of the repository;
`PROJECT.json` quotes it.

- `assembly_capability_lost`: ids are document-relative, so the roots of two documents
  share one, and one plan. In the trace the compiled root is a target itself and is
  planned again as the definition of that id; the other document's root is not planned
  at all, and the dangling reference it holds costs the result nothing.
- `planner_rejects`: a dispatch on a required literal property rejects the values
  that are no objects, which pass both keywords.
- `go_backend_rejects`: a tuple inside another type is an anonymous struct without a
  codec, and decodes from no array.

Others have no run of their own; the passing runs name the condition that leaves
them out.

- DocumentAssembly: a raw reference spelled like an id of the map (`/components/schemas/Foo`,
  without the `#`) is taken for that plan's; `TrueLevel` counts the others.
- RefLoader: after a document broke half way a reference is reported as unresolved
  without a reason (`DanglingHasReason` assumes no broken document); a dangling
  reference between components makes the loader fetch the document being compiled.
- Inhabitation: a closed object that requires a name only `patternProperties` admits
  is called uninhabited (`RequiredNamesDeclared`).
- SchemaIR: `type: [integer, number]` compiles to the integers; `dependentSchemas`
  rejects values that are no objects when its sub-schema does.
- PlanBuilder: a field that is nullable because the kinds of its schema say so,
  whatever else rejects null; two negations that both open a gap (the second is emitted over an
  inexact plan), two literals in one conjunction (the last wins), an inexact branch
  under oneOf (counted where its schema does not match), the level of a reference
  with a `type` beside it, requirements that are not rolled back.
- NodeTree: a negation inverts an acceptance nobody checked; a name listed twice under `required` is reported absent and accepted;
  `propertyNames` lets a name pass its pattern, or misses its literal, where Go quotes it in
  escapes JSON lacks (`Quotable`); the definitions of a schema with a `$dynamicRef` are not
  compiled, and each reference to one accepts everything.
- GeneratedCode: an `opt.Opt` of a type that holds a null of its own refuses an
  admitted null (`OptsWithoutNull`); a type declared as another loses its codec and its
  validator calls itself (`Aliases`); methods on types that can have none (`Compiles`);
  checks beside a reference, nested enums and nested closed objects go unenforced
  without a word (`PlainlyStored`).

One more disagreement has no run of its own: `Normalize` is documented never to write
to its input, and writes into the detail of `contains` and `propertyNames`. The
model performs that write; `KeepsMeaning` holds nevertheless, and the missed passes
are why `NormalAtFixpoint` speaks of what is outside such sub-schemas.

The passing runs state the properties under the condition that excludes the
disagreement (`OneDocument`, `RequiredNamesDeclared`, no broken document; in
MCNormalizer no `integer` beside `number`, and sub-schemas of `dependentSchemas` that
every value but an object satisfies; in MCNodeTree no undecided check under a
negation and no reference in a dynamic graph, and in PlanOracle no verdict on what is not `Quotable`; in MCPlanner one opening schema a conjunction, dispatching branches of
objects, and fields whose kinds tell their null; in GeneratedCode the conditions just
named, together with `null`, `false` and patterned maps as types for
`AdmitsWhatItSkips`, which also looks only at instances without a null, since Go
decodes null into anything). They leave 957 of the 1,062 documents to
`AcceptsWhatThePlanAccepts` and 464 to `AdmitsWhatItSkips`.

## 5. What is proved

`CapabilityRollupProofs`, for every set of names, every ladder and every map, from
`Unsupported \in Nat` alone:

- `TypeCorrect`, `SettlesAtWorst`, `OverstatesNothing`, `ExplainsUnsupported`, and
  `KeepsPromise`: the loops implement RolledUp.

The invariants the runs check are not inductive: nothing in "on return every
level is the worst reachable" says why a pass without a change suffices. `IInv`
adds that a plan past the first loop has its dependencies collected, its dangling
names reported and a level that some plan it reaches accounts for (`PlanInv`), and
that a pass which has changed nothing so far leaves the plans it visited no lower
than their dependencies (`PassInv`). On return those two say that the set of plans
at or below any given level is closed under dependencies. Reachability is defined
by closed sets, so the bound follows by exhibiting that set, without induction
over paths.

`InhabitationProofs`, for every number of nodes and every set of names:

- `TypeCorrect`, `FlagsNothingSatisfiable` (given `RequiredNamesDeclared`, without
  which section 4 has a schema that is flagged wrongly) and `FlagsEmptyRecursion`.

`IInv` says that every proven node has an instance and that a pass without a
change has found nothing provable among the nodes it visited. On the report, the
proven nodes are then closed under building instances, and `Inhabitable` is the
least such set; the other direction exhibits `Inhabitable` as a set the analysis
cannot leave.

`RecursionClassesProofs`, of the algorithm, for every finite set of vertices and every graph, whatever
the order of roots and edges (`VerticesAssumption` is finiteness: the counter of the
code is the number of vertices seen):

- `EmitsStrongComponents`, `EmitsInReverseOrder`, `LowlinksAreSound`.

`LowlinksLeadBack`, which a run can check, says that a lowlink is never too low. That
a component is not split needs the converse, `BoundInv`: the lowlink of a call's vertex
accounts for every edge followed so far from the vertices its call has opened.
Those are the ones between it and the next call's vertex on the stack (`StackInv`,
`CallsInv`: both are ordered by discovery). When a call returns at its own
number, no followed edge leads from what is above it to what is below, so that
part together with what is closed is a closed set (`EdgesInv`), and nothing outside it
is reached; that all of it is one component is `ReachInv`. Reachability is by closed
sets again: no paths, no induction.

Of the analysis, for every pair of edge relations over a finite registry:

- `SearchesAreSound`: the three properties hold of the search over the whole graph
  and of each one within a component; and `ClassifiesByCycles`, which is
  `ClassesAreRight`.

`RInv` is the search's `IInv` and what the analysis makes of its results: what is left
to classify and what was classified are components, no two alike, and together they
hold every vertex of a recursive one. The step that classifies uses that a component of the
inner graph that is recursive is a cycle of edges that do not descend, and that each
such cycle lies within one component of the whole graph.

`DocumentAssemblyProofs`, for every set of nodes, entries, references and ids, in both
modes, from `LadderAssumption` and `IdsAssumption`: a reference without a target is no node
and is not empty, as the pointer of a root is. That it is spelled like no other pointer
is not assumed:

- `PlansComponentsOnce` and `CompletesGraph`, without a hypothesis;
- `NamesTargets` and `CoversReachable` where no two nodes share a pointer
  (`DistinctPointers`). That is the case of one document, and the run
  `assembly_capability_lost` shows that two documents break it. `CoversReachable`
  counts a raw reference as `TrueLevel` does;
- `AssemblyRollsUp`: what CapabilityRollupProofs shows of the roll-up holds of it on
  the assembled map.

The roll-up's lemmas are instantiated (`Loops == INSTANCE CapabilityRollupProofs`), so
its `IInv` is a conjunct of the assembly's from the call on. The rest of `IInv` says which
ids the map holds at each stage, that a plan sits under the pointer of the node it was
built from (`BuiltInv`), and how often each node was built (`BuildsInv`).
`CoversReachable` then exhibits the nodes whose plan is in the map and no worse
than the result as a set closed under references.

`RefLoaderProofs`, for all documents `WorldsAssumption` admits, any order of loading
and cancellation at any point:

- `FetchesOnce`, `ReportsReasons`, `ResolvesInAnyOrder`.

`IInv` says that what was fetched was attempted and is not wanted again
(`FetchInv`); that the registry holds what the converted documents hold, each address
leading to one of its holders (`RegistryInv`); that after a round that loaded nothing the refs
still pending are hopeless, as their target is not filed and its document is there
or was attempted (`RoundInv`); and that every closed set of documents holds all that is
loaded (`NeededInv`). The last two are the two directions of `ResolvesInAnyOrder`: the
converted documents are a closed set when the worklist ends, and the least one. That
nothing resolves which does not load holds of every world, in every state. The converse
has the conditions `ResolvesWhatLoads` states, of which `Undisturbed` is the one that matters:
where two documents claim one address the later takes it over, and where a claimed
address is another document's URI it may keep that document from being loaded, so that
the order decides.

`NormalizerProofs`, of the rules, for all expressions, however deep, all lists of operands, all values and
every way the leaves may behave:

- `KindsAreSound`: `Kinds` never misses the kind of a value that is accepted;
- `SubsumesIsSound`, `DisjointIsSound`: what the rules prove of two expressions is so;
- `ThinningKeepsMeaning`, `FoldKindsKeepsMeaning`, `SimplifyAllKeepsMeaning`,
  `SimplifyAnyOfKeepsMeaning`, `SimplifyNotKeepsMeaning`, `ExactlyOneOfKeepsMeaning`,
  `FlatteningKeepsMeaning` and `DistributionKeepsMeaning`: each rule of the
  normalizer yields an expression, and one that accepts the same values.

Their hypothesis `Language` has three parts. `Grammar`: the operands of an expression are
expressions of smaller height, and what a rule puts together is one. `Knots`: the
operators that recurse obey their equations. `Meaning`: so does `Accepts`, a predicate accepts
the kinds it does not guard against, and a reference only those Compile found. The finite
expressions over any leaves satisfy all three, the height being that of the tree. No induction over
data is needed: of the expressions a claim fails for, one has the least height (`HasSmallest`, from the
well-foundedness of the numbers), and its operands are no counterexamples. What the loops
over pairs of operands drop is harmless (`Harmless`) after every single step, which is
what makes the order they meet pairs in irrelevant.

Of the pass and the loop, for all schemas, budgets and values:

- `RewriteKeepsMeaning`: a call of `normalize` that returns keeps what its expression accepts,
  and leaves in the cell what accepts the same as before;
- `NormalizeKeepsMeaning`, which is `KeepsMeaning`.

The invariant is `KeepsMeaning` with the cell: `expr` stands for the schema and `detail` for
the one under `contains`. A pass keeps it because no list of calls that hand on budget and
cell disturbs one another's meaning (`EachKeeps`, by the least operand at which one would),
and because a call's own result is made by a rule that was shown to keep it. That the cell may be exchanged under an expression is `CellsAgree`: if two cells accept
the same values, so does every expression over either. Of a pair it fails for, take the one with
the least value, and of those the lowest expression: `contains` and the shapes look into
smaller values, everything else at lower expressions.

The rules call `normalize` again on what they have made, which is not smaller than
what they were given, so the argument is over the calls and not over the expressions. `Returning`
names a set of calls that return: each is what `RewriteBy` says, and each call it makes is one
of them, nested less deeply (`Depth`). That is partial correctness: the theorem is about the
calls that end, and that all of them do (which the runs show, as TLC evaluates them to the
end) is not proved. The other hypotheses are `Setting` (`Language` again, values nested
in values are smaller, the members of an expression are put together again as they came apart,
and `Accepts` obeys its equation at `contains` and the shapes, too), `CompileMeans` (Compile
gives an expression that stands for its schema: stays with the runs), `Given` (the
run is of a schema of that kind) and `Returns` (the call each pass makes is one of those that
return).

`GoBackendProofs`, of the types, for every set of declarations:

- `NoTypeHoldsItself`, which is `NoInfiniteType`, and `PointersArePerType`, which is
  `IndirectionPerType`, of `CyclesSpec`: a state in which the lowered types hold no pointer,
  and steps that are `BreakCycles` or leave types and stage as they are once it was taken. These are
  the steps of GeneratedCode, as far as types and stage are concerned.

The hypotheses are those of a language again (`Variants`, `Smaller`, `Closed`, `Knots`). What an
edge of the types before and after is, is a claim about each type by its size
(a pointerized type stores inline what it stored, without the marked names). That no cycle is left
when every type on one is cut off follows from the definition of `OnCycle` by closed
sets: the declarations that are not marked are a set no edge left leads out of.

Of the methods, for every set of declared types, every graph of calls and every
order of visiting, without an assumption:

- `KeepsEveryCheck`, which is `CallsReachChecks`.

`IInv` says that needed methods are within every set that holds the checks and is closed
under calling (`ReasonInv`: the fixpoint is the least one, so that a method without a
check to reach would contradict the set of those that have one), and that a pass without
a change found nothing to add (`PassInv`). GoValidators takes these steps on the trees of a
document. That pruning a tree drops exactly the calls `PruneCalls` drops is
about a recursive operator (`Prune`) and stays with TLC: `go_backend` checks
`CallsReachChecks` on the trees as they come out.

`NodeTreeProofs`, for all plans, definitions and instances whose walks return, and every order of
compiling the definitions:

- `ErrsTellsWhatOkSays`: of every node, the reporting walk finds an error exactly where the fast
  one rejects, and hands a consumer that has stopped nothing more;
- `ValidateReportsIffRejected`, which is `ReportsIffRejected`, and `NothingAfterStop`, which is
  `StopsWithConsumer`;
- `OkAgreesWithInterpret`: the tree a plan is compiled to accepts what the interpreter accepts and
  rejects what it rejects (where the interpreter cannot tell, either);
- `ValidatorImplementsOracle`, which is `ImplementsOracle`.

A walk of a node calls itself on the nodes below, and through a reference on nodes that are not
below: the argument is over calls again. `Walks` are those that return (tables, nodes and
instances), `Parts` the calls one makes itself, `Depth` how deep they are nested; a least
counterexample would only make calls that do as claimed. What a node does with them is one lemma
for each kind of node (`NodeTells` cites all): a sequence of reports goes on only while
the consumer does (`EachTells`), and where it stops something was reported (`Onward`), so that
leaving early is never taken for acceptance. The hypotheses are `Returning`, `Instance` (a name is in an
object once), `Nodes` (an object structure declares a name once, `required` lists one
once: a name listed twice is a limit of section 4) and `Returns`, that the walks of the tree a run
compiles are among them. That they are all (no reference leads back to itself
without descending) is not proved.

That the tree agrees with the interpreter is the same induction over calls. `ExprAgrees` says it of
what one expression is compiled to by itself, one lemma for each form. `FusionLosesNothing`: the node
of a structure says what it says alone and what was folded into it, so that leaving out the checks
that were folded changes no verdict (`ChecksAgree`); `DispatchAgrees` is about scanning the cases
against looking one up. The verdict of a plan also records that something was accepted unchecked,
and `Agrees` lets this be so: a check that compiles to nothing is one the interpreter
approximates. `CInv` is the invariant that carries this to a run: each definition that is not
pending is compiled in the table, the root once all are. `PlanSetting` adds to the hypotheses
`PlansFormed` (a count is bounded under a guard that lets in what has one, a structure declares a
name once), `PlanKnots` (`CompilePlan` and `Interpret` satisfy their equations, the latter where the
compiled walk returns) and `Complements`: what the operand of a negation accepts was
checked. docs/integration.md:295 has the planner emit no other negation; of any other the
theorem would be false, a limit of section 4. So are the last two hypotheses: `Legible`, that
no name in what is asked about is one that `strconv.Quote` garbles, and `InputsFormed`, which leaves a
dynamic graph no definitions. `ValidatorImplementsOracle` asks of the `Quotable` instances
only that their walks are such (`QuotableReturn`); of the others it claims either answer. The
theorems about the reporting walk have neither hypothesis.

Only model-checked:

- liveness under fairness, for every module: out of the proof system's reach;
- SchemaIR (that `Compile` keeps the meaning), PlanWalk, the planner's and the rest of the backend's modules: functions on expression and plan trees
  written with RECURSIVE operators, about which the proof system's backends can prove
  nothing. `KeepsMeaning` is proved from what Compile makes onwards;
- `KindsBracket`: that the kinds cover what is accepted follows from `KindsAreSound` and
  `NormalizeKeepsMeaning`; that they never grow stays with TLC;
- `NormalAtFixpoint`, `NeverGivesUp`, `GrowsOnlyByDistribution`: they are about the order in
  which rules meet, and the first two are true of the instance only as far as it goes.

## 6. Not modelled, and the plan

Left out on purpose: RFC 3986 resolution and YAML reading (libraries), the
reading of single keywords, metadata and positions, `dump`, the command line,
the text of Go source, regular expressions and JSON equality (leaf libraries).
Requirements and diagnostics are modelled only where a property is about them.

Of the backend, also: names, encoding, `minItems` and the other bounds on lengths and
counts, `dependentRequired` and `uniqueItems`, the spelling of numbers (1.0 does not
decode into an int64) and of property names (encoding/json ignores their case).

Planned, in this order:

1. *Backend*: names (`Assign`, that two schemas never share one), encoding and what
   a round trip keeps.
2. *Proofs*: the idiom of the normalizer's pass for `Compile`; that the calls of a pass and of a
   walk return; then the order of `EmitsInReverseOrder` as the planner uses it.
