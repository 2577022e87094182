--------------------------- MODULE MCRunExecution ---------------------------
(* A scenario of three VMs and a node that is no VM, with three edges, and the *)
(* experiments that are compiled and carried out on it.                    *)
EXTENDS RunExecution

(* Runtime environments are numbers like all values of an axis. *)
Zenoh == 11
Broken == 12
Ghost == 13
MCEnvironments == {Zenoh, Broken}
MCBroken == {Broken}

MCNodes == <<[name |-> 2, vm |-> TRUE, site |-> "lab"], [name |-> 1, vm |-> TRUE, site |-> "lab"],
             [name |-> 3, vm |-> TRUE, site |-> "home"], [name |-> 4, vm |-> FALSE, site |-> "lab"]>>
MCEdges == <<[name |-> "up", from |-> 1, to |-> 2], [name |-> "down", from |-> 2, to |-> 1],
             [name |-> "side", from |-> 3, to |-> 2]>>

Act(type, preset, kind, by, name) ==
    [type |-> type, preset |-> preset, kind |-> kind, by |-> by, name |-> name, axis |-> 0,
     cleanup_only |-> FALSE, value |-> "default"]
OnEdge(preset, end) == Act("run_runtime_preset", preset, "vm", "edge", end)
Stress == [Act("run_runtime_preset", "stress/stress_cpu_ram", "vm", "name", 2) EXCEPT !.axis = 1]
Router == OnEdge("routing/setup_zenoh_routing", "to")
ClearRouter == OnEdge("routing/clean_router", "to")
Responder == OnEdge("profiling/latency_responder", "to")
Sender == OnEdge("profiling/latency_sender", "from")
EndStress == [Act("run_runtime_preset", "stress/stress_cpu_ram", "vm", "name", 2) EXCEPT !.cleanup_only = TRUE]
EndResponder == [Responder EXCEPT !.cleanup_only = TRUE]
CleanAll == Act("cleanup_zenoh_routers", "", "site", "name", "lab")
CleanStress == [Act("cleanup_containers", "", "vm", "name", 2) EXCEPT !.value = {"stress"}]
Collect == Act("collect_metrics", "", "vm", "edge", "from")
Wait == Act("wait", "", "none", "name", 0)
CheckSsh == [Act("check_connectivity", "", "vm", "name", 1) EXCEPT !.value = "ssh"]
CheckRuntime == Act("check_connectivity", "", "vm", "name", 1)
Ping == Act("check_graph_ping", "", "vm", "name", 1)

MCTemplates == [route |-> <<Router, Wait>>, probe |-> <<Responder, Sender>>, clean |-> <<CleanAll>>,
                stress |-> <<Stress>>, unstress |-> <<CleanStress>>, checks |-> <<CheckSsh, CheckRuntime, Ping, CheckRuntime>>]

Use(name) == [use |-> name, actions |-> << >>, refs |-> << >>, cleanup |-> FALSE]
Give(actions, refs) == [use |-> "", actions |-> actions, refs |-> refs, cleanup |-> FALSE]
CleanProbes(refs) == [use |-> "probe", actions |-> << >>, refs |-> refs, cleanup |-> TRUE]
Group(refs, axes, phases) == [refs |-> refs, axes |-> axes, phases |-> phases]
Experiment(phases, groups, axes, include, exclude, stop, precheck) ==
    [phases |-> phases, groups |-> groups, axes |-> axes, include |-> include, exclude |-> exclude,
     env |-> Zenoh, stop |-> stop, precheck |-> precheck]

(* The experiments that are executed. *)
Probing(stop) ==
    Experiment(<< >>, <<Group(<<"up", "side">>, << >>, <<Use("probe"), Give(<<Collect>>, <<"up">>)>>)>>,
               << >>, {}, {}, stop, FALSE)
Routed ==
    Experiment(<<Use("clean")>>, <<Group(<<"up">>, << >>, <<Use("route"), Use("probe"), CleanProbes(<<"up">>)>>)>>,
               << >>, {}, {}, TRUE, TRUE)
Stressed(stop) ==
    Experiment(<<Use("stress"), Use("unstress")>>, << >>, (1 :> <<1, 2>>), {}, {}, stop, TRUE)
Checked == Experiment(<<Use("checks"), Use("checks")>>, << >>, << >>, {}, {}, TRUE, TRUE)
Moved(stop) ==
    Experiment(<<Give(<<Responder>>, <<"up">>)>>, << >>, (2 :> <<Ghost, Zenoh, Broken>>), {}, {}, stop, FALSE)

Explored(stop) ==
    Experiment(<< >>, <<Group(<<"up", "down">>, << >>, <<Use("probe"), Give(<<Collect, Wait>>, <<"up", "down">>)>>)>>,
               (1 :> <<1, 2>>), {}, {}, stop, TRUE)
Rerouted ==
    Experiment(<<Use("stress"), Use("stress")>>,
               <<Group(<<"up">>, << >>, <<Use("route"), Give(<<EndStress, ClearRouter, Router>>, << >>), Give(<<Responder, EndResponder>>, <<"up">>)>>)>>,
               (1 :> <<1>>), {}, {}, FALSE, FALSE)

MCRunnable == {Explored(TRUE), Explored(FALSE), Rerouted, Probing(TRUE), Probing(FALSE), Routed, Stressed(TRUE), Stressed(FALSE), Checked, Moved(TRUE), Moved(FALSE)}

(* The experiments that are only compiled: mixtures of phases, groups,     *)
(* axes and filters, sound and unsound ones.                               *)
AxisMaps == {<< >>, (1 :> <<1, 2>>), (1 :> <<2, 1, 3>>) @@ (2 :> <<Zenoh, Ghost>>)}
MCPhases == {<< >>, <<Use("stress")>>, <<Use("probe")>>, <<Give(<<Wait>>, <<"down">>), Use("clean")>>}
MCGroups ==
    {<< >>} \cup {<<Group(<<"down", "up">>, a, <<Use("probe")>>)>> : a \in AxisMaps}
            \cup {<<Group(<<"up">>, a, <<Use("route")>>), Group(<<"up", "down">>, << >>, <<Give(<<Stress>>, <<"down">>)>>)>>
                    : a \in AxisMaps}
            \cup {<<Group(<<"up">>, (1 :> <<1>>), <<Use("route")>>), Group(<<"up">>, (1 :> <<2>>), <<Use("probe")>>)>>}
MCFilters == {{}, {(1 :> 1)}, {(1 :> 2) @@ (2 :> Ghost), (2 :> Zenoh)}}
MCSpecs ==
    MCRunnable \cup {Experiment(p, g, a, i, x, TRUE, TRUE) :
        p \in MCPhases, g \in MCGroups, a \in AxisMaps, i \in MCFilters, x \in MCFilters}
=============================================================================
