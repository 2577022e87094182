--------------------------- MODULE PlanCompilation ---------------------------
(***************************************************************************)
(* compile_experiment_plan (icopa_core/task_executor/exec_pipeline_gen.py) *)
(* with the resolution of action targets (targeting.py) and the checks of  *)
(* action payloads (action_center.py): a scenario and an experiment become *)
(* a sequence of runs, one for each selected edge and each combination of  *)
(* the axes that passes the filters.                                       *)
(*                                                                         *)
(* Node names and axis names are numbers, in their alphabetical order.     *)
(* Node, edge and template names are given stripped; a list that is absent *)
(* is the empty sequence.                                                  *)
(***************************************************************************)
EXTENDS Naturals, Sequences, FiniteSets, SequencesExt

CONSTANTS
    Nodes,        \* scenario.spec.nodes: a sequence of [name, vm, site]
    Edges,        \* scenario.spec.graph.edges: a sequence of [name, from, to]
    Templates,    \* scenario.spec.phaseTemplates: name -> sequence of actions
    EnvAxis,      \* the axis that is named runtimeEnv
    MaxTotalRuns  \* max_total_runs, 0 when the caller gives none

(* What the code has as a list. *)
IsSequence(s) == Len(s) \in Nat /\ s = [i \in 1..Len(s) |-> s[i]]

ASSUME EdgesAssumption == IsSequence(Edges)
ASSUME TemplatesAssumption == \A t \in DOMAIN Templates : IsSequence(Templates[t])

(* The target of an action: its kind ("vm", "site", "none") and its name,  *)
(* which is a placeholder when by is "edge" or "axis".                      *)
Untargeted == {"wait"}
ActionTypes == Untargeted \cup {"check_connectivity", "check_graph_ping", "run_runtime_preset",
                                "cleanup_zenoh_routers", "cleanup_containers", "collect_metrics"}

NoEdge == [name |-> "", from |-> 0, to |-> 0]
NoAxes == << >>

EdgeNames == {Edges[i].name : i \in DOMAIN Edges}
NodeNames == {Nodes[i].name : i \in DOMAIN Nodes}
VmNodes == {Nodes[i] : i \in {j \in DOMAIN Nodes : Nodes[j].vm}}

GraphIsSound ==
    /\ \A i \in DOMAIN Edges : {Edges[i].from, Edges[i].to} \subseteq NodeNames
    /\ Cardinality(EdgeNames) = Len(Edges)

---------------------------------------------------------------------------
(* sorted(), filters and {**g, **f}: a set of numbers in ascending order,  *)
(* what a sequence has at some of its places, in its order, and g with the *)
(* values of f in it.                                                      *)

Ascending(S) == [k \in 1..Cardinality(S) |-> CHOOSE x \in S : Cardinality({y \in S : y < x}) = k - 1]

Merged(f, g) == [a \in DOMAIN f \cup DOMAIN g |-> IF a \in DOMAIN f THEN f[a] ELSE g[a]]

Selected(s, places) == LET order == Ascending(places) IN [k \in DOMAIN order |-> s[order[k]]]

---------------------------------------------------------------------------
(* The form of an experiment: lists of entries with lists of actions, and  *)
(* axes with lists of values.                                              *)

WellFormedAxes(axes) ==
    /\ DOMAIN axes \in SUBSET Nat /\ IsFiniteSet(DOMAIN axes)
    /\ \A a \in DOMAIN axes : IsSequence(axes[a])

WellFormedAxesOf(spec) ==
    /\ WellFormedAxes(spec.axes)
    /\ \A g \in DOMAIN spec.groups : WellFormedAxes(spec.groups[g].axes)

WellFormedEntries(entries) ==
    /\ IsSequence(entries)
    /\ \A i \in DOMAIN entries : /\ DOMAIN entries[i] = {"use", "actions", "refs", "cleanup"}
                                 /\ IsSequence(entries[i].actions) /\ entries[i].cleanup \in BOOLEAN

WellFormed(spec) ==
    /\ WellFormedAxesOf(spec)
    /\ WellFormedEntries(spec.phases)
    /\ IsSequence(spec.groups)
    /\ \A g \in DOMAIN spec.groups : WellFormedEntries(spec.groups[g].phases)

---------------------------------------------------------------------------
(* Phases: the entries of spec.phases, then those of each execEdge group,  *)
(* which inherit the group's edges when they name none of their own.       *)

Inherit(entry, refs) == IF entry.refs = << >> THEN [entry EXCEPT !.refs = refs] ELSE entry

Entries(spec) ==
    spec.phases \o FlattenSeq([g \in DOMAIN spec.groups |->
        [p \in DOMAIN spec.groups[g].phases |-> Inherit(spec.groups[g].phases[p], spec.groups[g].refs)]])

(* Actions given in the phase replace those of its template. *)
EntryActions(entry) ==
    IF entry.actions # << >> THEN entry.actions
    ELSE IF entry.use \in DOMAIN Templates THEN Templates[entry.use] ELSE << >>

EntryIsSound(entry) ==
    /\ entry.use \in DOMAIN Templates \cup {""}
    /\ EntryActions(entry) # << >>
    /\ ToSet(entry.refs) \subseteq EdgeNames
    /\ (\E i \in DOMAIN EntryActions(entry) : EntryActions(entry)[i].by = "edge") => entry.refs # << >>

Referenced(spec) == UNION {ToSet(Entries(spec)[i].refs) : i \in DOMAIN Entries(spec)}

RunEdges(spec) ==
    IF Referenced(spec) = {} THEN <<NoEdge>>
    ELSE Selected(Edges, {i \in DOMAIN Edges : Edges[i].name \in Referenced(spec)})

PhasesOf(spec, edge) ==
    LET all == Entries(spec)
    IN  Selected(all, {i \in DOMAIN all : all[i].refs = << >> \/ edge.name \in ToSet(all[i].refs)})

---------------------------------------------------------------------------
(* Variants: the product of the axes, the last axis varying fastest.  An   *)
(* axis is a number with a sequence of values.                             *)

Exploring(spec, edge) ==
    {g \in DOMAIN spec.groups : spec.groups[g].axes # NoAxes /\ edge.name \in ToSet(spec.groups[g].refs)}

NoConflict(spec) ==
    \A i \in DOMAIN Edges : \A g, h \in Exploring(spec, Edges[i]) : spec.groups[g].axes = spec.groups[h].axes

(* An axis of the edge replaces the global axis of the same name. *)
MergedAxes(spec, edge) ==
    LET own == {spec.groups[g].axes : g \in Exploring(spec, edge)}
    IN  IF own = {} THEN spec.axes ELSE Merged(CHOOSE a \in own : TRUE, spec.axes)

Widen(axes, variants, axis) ==
    FlattenSeq([i \in DOMAIN variants |->
        [k \in DOMAIN axes[axis] |-> Merged([a \in {axis} |-> axes[axis][k]], variants[i])]])

Product(axes) ==
    LET names == Ascending(DOMAIN axes)
        upTo[n \in 0..Len(names)] ==
            IF n = 0 THEN <<NoAxes>> ELSE Widen(axes, upTo[n - 1], names[n])
    IN  upTo[Len(names)]

Matches(variant, filter) ==
    \A a \in DOMAIN filter : a \in DOMAIN variant /\ variant[a] = filter[a]

Kept(spec, variant) ==
    /\ spec.include # {} => \E f \in spec.include : Matches(variant, f)
    /\ ~\E f \in spec.exclude : Matches(variant, f)

KeptOf(spec, variants) == Selected(variants, {i \in DOMAIN variants : Kept(spec, variants[i])})

VariantsOfGlobalAxes(spec, edge) == KeptOf(spec, Product(spec.axes))

Variants(spec, edge) == KeptOf(spec, Product(MergedAxes(spec, edge)))

---------------------------------------------------------------------------
(* Actions: placeholders are filled in, a site becomes its VM nodes in     *)
(* order, and each node gets an action of its own.                         *)

PlaceholdersDefined(action, variant) ==
    /\ action.by = "axis" => action.name \in DOMAIN variant
    /\ action.axis # 0 => action.axis \in DOMAIN variant

TargetName(action, variant, edge) ==
    CASE action.by = "edge" -> edge[action.name]
      [] action.by = "axis" -> variant[action.name]
      [] OTHER -> action.name

Resolve(action, variant, edge) ==
    LET name == TargetName(action, variant, edge)
    IN  CASE action.kind = "vm" -> {n.name : n \in {m \in VmNodes : m.name = name}}
          [] action.kind = "site" -> {n.name : n \in {m \in VmNodes : m.site = name}}
          [] OTHER -> {}

ActionIsSound(action, variant, edge) ==
    /\ action.type \in ActionTypes
    /\ (action.type = "run_runtime_preset") = (action.preset # "")
    /\ PlaceholdersDefined(action, variant)
    /\ IF action.type \in Untargeted
       THEN action.kind = "none"
       ELSE action.kind # "none" /\ Resolve(action, variant, edge) # {}

Render(action, variant, edge) ==
    LET value == IF action.axis = 0 THEN action.value ELSE variant[action.axis]
        On(node) == [type |-> action.type, preset |-> action.preset, target |-> node,
                     cleanup_only |-> action.cleanup_only, value |-> value]
        nodes == Ascending(Resolve(action, variant, edge))
    IN  IF action.type \in Untargeted THEN <<On(0)>> ELSE [i \in DOMAIN nodes |-> On(nodes[i])]

RenderPhase(entry, variant, edge) ==
    [cleanup |-> entry.cleanup,
     actions |-> FlattenSeq([i \in DOMAIN EntryActions(entry) |-> Render(EntryActions(entry)[i], variant, edge)])]

RuntimeEnvOf(spec, variant) == IF EnvAxis \in DOMAIN variant THEN variant[EnvAxis] ELSE spec.env

RunOf(spec, edge, index) ==
    LET variant == Variants(spec, edge)[index]
        entries == PhasesOf(spec, edge)
    IN  [edge |-> edge.name, variant |-> variant, index |-> index, env |-> RuntimeEnvOf(spec, variant),
         phases |-> [p \in DOMAIN entries |-> RenderPhase(entries[p], variant, edge)]]

---------------------------------------------------------------------------
RunsOf(spec) ==
    LET edges == RunEdges(spec)
    IN  FlattenSeq([e \in DOMAIN edges |->
            [i \in DOMAIN Variants(spec, edges[e]) |-> RunOf(spec, edges[e], i)]])

EdgeCompiles(spec, edge) ==
    /\ Variants(spec, edge) # << >>
    /\ PhasesOf(spec, edge) # << >>
    /\ \A v \in ToSet(Variants(spec, edge)), p \in ToSet(PhasesOf(spec, edge)) :
         \A i \in DOMAIN EntryActions(p) : ActionIsSound(EntryActions(p)[i], v, edge)

Compiles(spec) ==
    /\ GraphIsSound
    /\ DOMAIN Templates # {}
    /\ Entries(spec) # << >>
    /\ \A i \in DOMAIN Entries(spec) : EntryIsSound(Entries(spec)[i])
    /\ \A g \in DOMAIN spec.groups : spec.groups[g].refs # << >>
    /\ NoConflict(spec)
    /\ \A a \in DOMAIN spec.axes : spec.axes[a] # << >>
    /\ \A i \in DOMAIN RunEdges(spec) : EdgeCompiles(spec, RunEdges(spec)[i])
    /\ MaxTotalRuns # 0 => Len(RunsOf(spec)) <= MaxTotalRuns

CompiledPlan(spec) ==
    LET runs == RunsOf(spec)
    IN  [runs |-> [i \in DOMAIN runs |-> [id |-> i, edge |-> runs[i].edge, variant |-> runs[i].variant,
                                          index |-> runs[i].index, env |-> runs[i].env, phases |-> runs[i].phases]],
         stop |-> spec.stop, precheck |-> spec.precheck]

---------------------------------------------------------------------------
(* What a plan owes to its experiment, stated without the order of edges,  *)
(* axes and phases the compiler works in.                                  *)

Combinations(spec, edge) ==
    LET axes == MergedAxes(spec, edge)
        values == UNION {ToSet(axes[a]) : a \in DOMAIN axes}
    IN  {v \in [DOMAIN axes -> values] : (\A a \in DOMAIN axes : v[a] \in ToSet(axes[a])) /\ Kept(spec, v)}

Owed(spec) ==
    UNION {{<<e.name, v>> : v \in Combinations(spec, e)} : e \in ToSet(RunEdges(spec))}

DistinctValues(axes) == \A a \in DOMAIN axes : Cardinality(ToSet(axes[a])) = Len(axes[a])

RunsOwedOnce(spec, runs) ==
    /\ {<<runs[i].edge, runs[i].variant>> : i \in DOMAIN runs} = Owed(spec)
    /\ Len(runs) = Cardinality(Owed(spec))
    /\ \A i \in DOMAIN runs : runs[i].id = i
=============================================================================
