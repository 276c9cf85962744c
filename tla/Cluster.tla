------------------------------ MODULE Cluster ------------------------------
(***************************************************************************)
(* What the devloop helper's commands leave in a developer's cluster:      *)
(* setup, rebuild, rebuild-all, deploy, teardown and status of two helpers *)
(* on one host, command by command, each of which may fail or be cut off   *)
(* by a cancel.                                                            *)
(*                                                                         *)
(* Each helper has its own working tree, cluster and runtime directory     *)
(* (the slot that makes its writes one at a time is module Helper's); the  *)
(* container runtime's image store, with one tag per service, is shared.   *)
(*                                                                         *)
(* Abstractions: a revision of a service is <<tree it comes from, number   *)
(* of edits>>; kind, kubectl and podman are external and change           *)
(* what they are run for, or fail and change nothing (one that fails after *)
(* its work is done is as one whose successor fails), except that a save   *)
(* that fails may leave the archive, whole or in part, and that setup.sh   *)
(* may stop at any service; a restart only asks for pods to be replaced,   *)
(* which happens later.  A helper that exits does not wait for its command *)
(* (main.rs joins no thread): it may live on, beside the next helper's.    *)
(***************************************************************************)
EXTENDS Naturals, Sequences, FiniteSets

CONSTANTS
    Devloops,     \* the helpers
    Services,     \* subset of {"ac", "gc", "mc", "mh"}
    MaxTreeEdits, \* bound: edits of a service, in one of the trees
    MaxWrites,    \* bound: write commands of the helpers
    Foci          \* bound: which of "exits" and "status" happen beside the writes

ASSUME ClusterAssumption ==
    /\ IsFiniteSet(Devloops) /\ Services \subseteq {"ac", "gc", "mc", "mh"}
    /\ MaxTreeEdits \in Nat /\ MaxWrites \in Nat

VARIABLES
    runtime,   \* "podman" or "docker"
    sources,   \* [Devloops -> [Services -> Nat]]: edits so far
    store,     \* [Services -> revision]: the image behind the tag
    node,      \* [Devloops -> [exists, image, pod, due]]: the Kind cluster
    files,     \* [Devloops -> subset of RuntimeFile]
    tar,       \* [Devloops -> revision]: kind-image-load.tar
    op,        \* [Devloops -> [cmd, plan, built, foreign, kept, spoiled]]: the write in flight
    orphans,   \* [Devloops -> set of steps]: commands that have outlived their helper
    cancelSet, \* [Devloops -> BOOLEAN]: its cancel token
    result,    \* [Devloops -> [outcome, cmd, built, foreign, kept]]: of the last write
    writes,    \* how many so far
    probe,     \* [Devloops -> [at, busy, exists, healthy, ports, calm]]: a status; calm: no write since
    focus      \* the one of Foci that this behaviour is about
clusterVars == <<runtime, sources, store, node, files, tar, op, orphans, cancelSet, result, writes, probe, focus>>

NoImage == <<>>
Partial == <<"partial">>  \* an archive a cut-off save has left
RuntimeFile == {"kind-config", "ports.json", "port-map.env", "kubeconfig"}
Pods(s) == IF s \in {"mc", "mh"} THEN {s} \X {0, 1} ELSE {s} \X {0}
AllPods == UNION {Pods(s) : s \in Services}
Revision(d, s) == <<d, sources[d][s]>>
NoneBuilt == [s \in Services |-> NoImage]
Missing == [exists |-> FALSE, image |-> NoneBuilt, pod |-> [p \in AllPods |-> NoImage], due |-> {}]
\* A cluster after its setup.
AfterSetup(d) == [exists |-> TRUE, image |-> [s \in Services |-> Revision(d, s)],
          pod |-> [p \in AllPods |-> Revision(d, p[1])], due |-> {}]
\* kept: pods a setup has found and not restarted; spoiled: begun beside an orphan.
NoWrite == [cmd |-> "none", plan |-> <<>>, built |-> NoneBuilt, foreign |-> {}, kept |-> {}, spoiled |-> FALSE]
-----------------------------------------------------------------------------
(* Requests.                                                               *)
HelperRequest == [command : {"setup", "rebuild", "rebuild-all", "deploy", "teardown", "status", "cancel", "other"},
            service : Services \cup {"none", "unknown"}, skip : BOOLEAN, control : BOOLEAN]
TakesService == {"rebuild", "deploy"}

\* The error kind of a request, or "ok".
ParseCommand(r) ==
    CASE r.control -> "invalid_request"
      [] ~r.control /\ r.command = "other" -> "invalid_command"
      [] ~r.control /\ r.command \in TakesService ->
            (IF r.service = "none" THEN "invalid_request"
             ELSE IF r.service = "unknown" THEN "invalid_service" ELSE "ok")
      [] OTHER -> IF r.service # "none" \/ (r.command = "cancel" /\ r.skip)
                  THEN "invalid_request" ELSE "ok"

\* The steps of a write.
\* Bug: the deployments are restarted before the image is in the cluster.
RestartThenLoad(s) == <<<<"build", s>>, <<"restart", s, 0>>>>
                      \o (IF s \in {"mc", "mh"} THEN <<<<"restart", s, 1>>>> ELSE <<>>)
                      \o (IF runtime = "podman" THEN <<<<"save", s>>>> ELSE <<>>) \o <<<<"load", s>>>>
RebuildSteps(s) == <<<<"build", s>>>>
                   \o (IF runtime = "podman" THEN <<<<"save", s>>>> ELSE <<>>) \o <<<<"load", s>>>>
                   \o <<<<"restart", s, 0>>>>
                   \o (IF s \in {"mc", "mh"} THEN <<<<"restart", s, 1>>>> ELSE <<>>)
ServiceOrder == <<"ac", "gc", "mc", "mh">>
RebuildAllSteps ==
    LET nth(i) == IF ServiceOrder[i] \in Services THEN RebuildSteps(ServiceOrder[i]) ELSE <<>>
    IN  nth(1) \o nth(2) \o nth(3) \o nth(4)
StepsOf(r) ==
    CASE r.command = "setup"       -> <<<<"write", "kind-config">>, <<"write", "ports.json">>, <<"create">>,
                                         <<"write", "port-map.env">>, <<"script">>, <<"kubeconfig">>>>
      [] r.command = "rebuild"     -> RebuildSteps(r.service)
      [] r.command = "rebuild-all" -> RebuildAllSteps
      [] r.command = "deploy"      -> <<<<"apply", r.service>>>>
      [] r.command = "teardown"    -> <<<<"delete">>, <<"deallocate">>>>
-----------------------------------------------------------------------------
ClusterInit ==
    /\ runtime \in {"podman", "docker"}
    /\ sources = [d \in Devloops |-> [s \in Services |-> 0]]
    /\ store = NoneBuilt
    /\ focus \in Foci
    /\ node = [d \in Devloops |-> IF "status" \notin focus THEN AfterSetup(d) ELSE Missing]
    /\ files = [d \in Devloops |-> IF "status" \notin focus THEN RuntimeFile ELSE {}]
    /\ tar = [d \in Devloops |-> NoImage]
    /\ op = [d \in Devloops |-> NoWrite]
    /\ cancelSet = [d \in Devloops |-> FALSE]
    /\ result = [d \in Devloops |-> [outcome |-> "none", cmd |-> "none", built |-> NoneBuilt, foreign |-> {},
                                     kept |-> {}]]
    /\ orphans = [d \in Devloops |-> {}]
    /\ writes = 0
    /\ probe = [d \in Devloops |-> [at |-> "idle", busy |-> FALSE, exists |-> FALSE, healthy |-> FALSE,
                                    ports |-> FALSE, calm |-> FALSE]]

EditSource(d, s) ==
    /\ sources[d][s] < MaxTreeEdits /\ \A e \in Devloops \ {d} : \A t \in Services : sources[e][t] = 0
    /\ sources' = [sources EXCEPT ![d][s] = @ + 1]
    /\ UNCHANGED <<runtime, store, node, files, tar, op, cancelSet, result, writes, probe, orphans, focus>>

\* The slot of writes is free (within the bounds).
CanWrite(d) == op[d] = NoWrite /\ writes < MaxWrites

\* execute: a write takes the slot with a fresh cancel token.
StartWrite(d, r) ==
    /\ probe' = [probe EXCEPT ![d].calm = FALSE]
    /\ ParseCommand(r) = "ok" /\ r.command \notin {"status", "cancel"}
    /\ op' = [op EXCEPT ![d] = [NoWrite EXCEPT !.cmd = r.command, !.plan = StepsOf(r), !.spoiled = orphans[d] # {}]]
    /\ cancelSet' = [cancelSet EXCEPT ![d] = FALSE]
    /\ writes' = writes + 1
    /\ UNCHANGED <<runtime, sources, store, node, files, tar, result, orphans, focus>>

CancelWrite(d) ==
    /\ op[d] # NoWrite /\ ~cancelSet[d]
    /\ cancelSet' = [cancelSet EXCEPT ![d] = TRUE]
    /\ UNCHANGED <<runtime, sources, store, node, files, tar, op, result, writes, probe, orphans, focus>>

(* What the commands do to the tags, the cluster, its files and the archive. *)
BuildImage(d, s) ==
    /\ store' = [store EXCEPT ![s] = Revision(d, s)]
    /\ UNCHANGED <<node, files, tar>>

SaveImage(d, s) ==
    /\ store[s] # NoImage
    /\ tar' = [tar EXCEPT ![d] = store[s]]
    /\ UNCHANGED <<store, node, files>>

\* Bug: the archive is not removed.
KeepArchive(d) == UNCHANGED tar
\* load_image_to_kind removes the archive whatever came of the load.
RemoveArchive(d) == tar' = [tar EXCEPT ![d] = NoImage]

\* An archive that is missing or cut off does not load.
LoadImage(d, s) ==
    /\ node[d].exists /\ (runtime = "podman" => tar[d] \notin {NoImage, Partial})
    /\ node' = [node EXCEPT ![d].image[s] = IF runtime = "podman" THEN tar[d] ELSE store[s]]
    /\ UNCHANGED <<store, files>>

RestartDeployment(d, s, i) ==
    /\ node[d].exists /\ (node[d].pod[<<s, i>>] # NoImage \/ <<s, i>> \in node[d].due)
    /\ node' = [node EXCEPT ![d].due = @ \cup {<<s, i>>}]
    /\ UNCHANGED <<store, files, tar>>

WriteFile(d, f) ==
    /\ files' = [files EXCEPT ![d] = @ \cup {f}]
    /\ UNCHANGED <<store, node, tar>>

\* cluster_already_exists: a cluster is reused.
CreateCluster(d) ==
    /\ node' = [node EXCEPT ![d].exists = TRUE]
    /\ UNCHANGED <<store, files, tar>>

\* deploy_*_service: the manifests make the pods that are missing; the helper always passes
\* DT_HOST_GATEWAY_IP, for which mc and mh are restarted, and ac and gc are not.
Rolled(d, s) == IF s \in {"mc", "mh"} THEN Pods(s) ELSE {p \in Pods(s) : node[d].pod[p] = NoImage}

\* setup.sh, service by service: b of them built, l loaded and a applied.  Another helper may
\* have built a tag between the build and the load (taken).
Upto(k) == {ServiceOrder[i] : i \in 1..k} \cap Services
SetupScript(d, b, l, a, taken) ==
    LET image == [s \in Services |-> IF s \in Upto(b) \ taken THEN Revision(d, s) ELSE store[s]] IN
    /\ node[d].exists
    /\ store' = image
    /\ node' = [node EXCEPT ![d].image = [s \in Services |-> IF s \in Upto(l) THEN image[s] ELSE node[d].image[s]],
                            ![d].due = @ \cup UNION {Rolled(d, s) : s \in Upto(a)}]
    /\ UNCHANGED <<files, tar>>

GenerateContainerKubeconfig(d) ==
    /\ node[d].exists
    /\ files' = [files EXCEPT ![d] = @ \cup {"kubeconfig"}]
    /\ UNCHANGED <<store, node, tar>>

\* setup.sh --skip-build --only: refuses without a cluster.
ApplyManifests(d, s) ==
    /\ node[d].exists /\ "port-map.env" \in files[d]
    /\ node' = [node EXCEPT ![d].due = @ \cup Rolled(d, s)]
    /\ UNCHANGED <<store, files, tar>>

DeleteCluster(d) ==
    /\ node' = [node EXCEPT ![d] = Missing]
    /\ UNCHANGED <<store, files, tar>>

Deallocate(d) == UNCHANGED <<store, node, files, tar>>

\* The commands that are processes of their own.
Spawned == {"build", "save", "load", "restart", "create", "script", "apply", "delete"}

DoStep(d, step, taken) ==
    CASE step[1] = "build"      -> BuildImage(d, step[2])
      [] step[1] = "save"       -> SaveImage(d, step[2])
      [] step[1] = "load"       -> LoadImage(d, step[2])
      [] step[1] = "restart"    -> RestartDeployment(d, step[2], step[3])
      [] step[1] = "write"      -> WriteFile(d, step[2])
      [] step[1] = "create"     -> CreateCluster(d)
      [] step[1] = "script"     -> SetupScript(d, 4, 4, 4, taken)
      [] step[1] = "kubeconfig" -> GenerateContainerKubeconfig(d)
      [] step[1] = "apply"      -> ApplyManifests(d, step[2])
      [] step[1] = "delete"     -> DeleteCluster(d)
      [] step[1] = "deallocate" -> Deallocate(d)

\* The tags another helper's write has just built, which setup.sh may load as its own.
OthersTags(d) == {s \in Services : \E e \in Devloops \ {d} : op[e].built[s] # NoImage /\ op[e].built[s] = store[s]}

\* An image built under the tag takes it over from whoever had built it.
Takes(d, mine, tags) ==
    op' = [e \in Devloops |-> IF e = d THEN mine
                              ELSE [op[e] EXCEPT !.foreign = @ \cup {s \in tags : op[e].built[s] # NoImage}]]
NextStep(d) == op' = [op EXCEPT ![d].plan = Tail(@)]
Proceed(d, step, taken) ==
    CASE step[1] = "build" ->
            Takes(d, [op[d] EXCEPT !.plan = Tail(@), !.built[step[2]] = Revision(d, step[2]), !.foreign = @ \ {step[2]}],
                  {step[2]})
      [] step[1] = "script" ->
            Takes(d, [op[d] EXCEPT !.plan = Tail(@), !.built = [s \in Services |-> Revision(d, s)], !.foreign = taken,
                                   !.kept = AllPods \ (node[d].due \cup UNION {Rolled(d, s) : s \in Services})],
                  Services \ taken)
      [] OTHER -> NextStep(d)

\* run_command_streaming: a step is cut off once the token is set.
WriteStepSucceeds(d) ==
    /\ op[d].plan # <<>>
    /\ LET step == op[d].plan[1] IN
       \E taken \in SUBSET OthersTags(d) :
        /\ step[1] # "script" => taken = {}
        /\ DoStep(d, step, taken) /\ (step[1] = "load" => RemoveArchive(d))
        /\ Proceed(d, step, taken)
    /\ UNCHANGED <<runtime, sources, orphans, cancelSet, result, writes, probe, focus>>

\* What a write answers; an error after a cancel is a cancel.  The ok of a write that was
\* begun beside an orphan is told apart.
Answer(d, outcome) ==
    result' = [result EXCEPT ![d] =
                [outcome |-> IF outcome = "error" /\ cancelSet[d] THEN "cancelled"
                             ELSE IF outcome = "ok" /\ op[d].spoiled THEN "spoiled" ELSE outcome,
                 cmd |-> op[d].cmd, built |-> op[d].built, foreign |-> op[d].foreign, kept |-> op[d].kept]]
EndWrite(d, outcome) == Answer(d, outcome) /\ op' = [op EXCEPT ![d] = NoWrite]

\* What a command that fails, or whose helper exits, may leave in the archive.
CutOff(d, step) == IF step[1] = "save" THEN {tar[d], Partial, store[step[2]]} ELSE {tar[d]}

\* A failing delete is a warning unless it was cancelled; every other failure ends the write.
WriteStepFails(d) ==
    /\ op[d].plan # <<>>
    /\ LET step == op[d].plan[1] IN
       /\ IF step[1] = "deallocate" \/ (step[1] = "delete" /\ ~cancelSet[d])
          THEN NextStep(d) /\ UNCHANGED result
          ELSE EndWrite(d, "error")
       /\ IF step[1] = "load" THEN RemoveArchive(d)
          ELSE \E a \in CutOff(d, step) : tar' = [tar EXCEPT ![d] = a]
    /\ UNCHANGED <<runtime, sources, store, node, files, orphans, cancelSet, writes, probe, focus>>

\* setup.sh stops at the load or at the manifests of its b-th service.
ScriptStops(d, b, l, taken) == l \in {b - 1, b} /\ SetupScript(d, b, l, b - 1, taken)
ScriptFails(d, b, l, taken) ==
    /\ op[d].plan # <<>> /\ op[d].plan[1] = <<"script">> /\ taken \in SUBSET OthersTags(d)
    /\ ScriptStops(d, b, l, taken)
    /\ Answer(d, "error") /\ Takes(d, NoWrite, Upto(b) \ taken)
    /\ UNCHANGED <<runtime, sources, orphans, cancelSet, writes, probe, focus>>

\* SIGTERM, or a crash: the write is over, and its command may go on.
HelperExits(d) ==
    /\ op[d] # NoWrite /\ "exits" \in focus
    /\ EndWrite(d, "error")
    /\ IF op[d].plan = <<>> THEN UNCHANGED <<orphans, tar>>
       ELSE LET step == op[d].plan[1] IN
            \/ step[1] \in Spawned /\ orphans' = [orphans EXCEPT ![d] = @ \cup {step}] /\ UNCHANGED tar
            \/ UNCHANGED orphans /\ \E a \in CutOff(d, step) : tar' = [tar EXCEPT ![d] = a]
    /\ probe' = [probe EXCEPT ![d].at = "idle", ![d].calm = FALSE]
    /\ UNCHANGED <<runtime, sources, store, node, files, cancelSet, writes, focus>>

\* A command that has outlived its helper does its work, or fails for want of a reader.
OrphanEnds(d, step) ==
    /\ step \in orphans[d]
    /\ orphans' = [orphans EXCEPT ![d] = @ \ {step}]
    /\ \/ UNCHANGED <<store, node, files, tar, op>>
       \/ /\ DoStep(d, step, {}) /\ (step[1] = "load" => UNCHANGED tar)
          /\ Takes(d, op[d], CASE step[1] = "build" -> {step[2]} [] step[1] = "script" -> Services [] OTHER -> {})
       \/ /\ step[1] = "script"
          /\ \E b \in 1..4, l \in 0..4 : ScriptStops(d, b, l, {}) /\ Takes(d, op[d], Upto(b))
    /\ UNCHANGED <<runtime, sources, cancelSet, result, writes, probe, focus>>

WriteEnds(d) ==
    /\ op[d] # NoWrite /\ op[d].plan = <<>>
    /\ EndWrite(d, "ok")
    /\ UNCHANGED <<runtime, sources, store, node, files, tar, cancelSet, writes, probe, orphans, focus>>

\* A pod starts anew, because it was asked to or because it failed, on the cluster's image.
RollPod(d, p) ==
    /\ node[d].image[p[1]] # NoImage
    /\ (node[d].pod[p] # NoImage /\ node[d].pod[p] # node[d].image[p[1]]) \/ p \in node[d].due
    /\ node' = [node EXCEPT ![d].pod[p] = node[d].image[p[1]], ![d].due = @ \ {p}]
    /\ UNCHANGED <<runtime, sources, store, files, tar, op, cancelSet, result, writes, probe, orphans, focus>>

(* cmd_status takes its snapshots one after the other, beside the writer.   *)
KnownPods(d) == {p \in AllPods : node[d].pod[p] # NoImage \/ p \in node[d].due}
\* A pod that is to be replaced may still be there, ready.
ParsePodHealth(d, lag) ==
    /\ KnownPods(d) # {}
    /\ \A p \in KnownPods(d) : node[d].pod[p] # NoImage /\ (p \in node[d].due => p \in lag)

SnapshotBusy(d) ==
    /\ probe[d].at = "idle" /\ "status" \in focus
    /\ probe' = [probe EXCEPT ![d] = [at |-> "cluster", busy |-> op[d] # NoWrite, exists |-> FALSE,
                                      healthy |-> FALSE, ports |-> FALSE, calm |-> TRUE]]
    /\ UNCHANGED <<runtime, sources, store, node, files, tar, op, cancelSet, result, writes, orphans, focus>>
CheckCluster(d, fails) ==
    /\ probe[d].at = "cluster"
    /\ probe' = [probe EXCEPT ![d].at = "pods", ![d].exists = node[d].exists /\ ~fails]
    /\ UNCHANGED <<runtime, sources, store, node, files, tar, op, cancelSet, result, writes, orphans, focus>>
CheckPods(d, fails, lag) ==
    /\ probe[d].at = "pods"
    /\ probe' = [probe EXCEPT ![d].at = "ports",
                              ![d].healthy = probe[d].exists /\ node[d].exists /\ ~fails /\ ParsePodHealth(d, lag)]
    /\ UNCHANGED <<runtime, sources, store, node, files, tar, op, cancelSet, result, writes, orphans, focus>>
AnswerStatus(d) ==
    /\ probe[d].at = "ports"
    /\ probe' = [probe EXCEPT ![d].at = "idle", ![d].ports = "ports.json" \in files[d]]
    /\ UNCHANGED <<runtime, sources, store, node, files, tar, op, cancelSet, result, writes, orphans, focus>>

ClusterNext ==
    \E d \in Devloops :
        \/ \E s \in Services : EditSource(d, s)
        \/ CanWrite(d) /\ \E r \in HelperRequest : StartWrite(d, r)
        \/ CancelWrite(d)
        \/ WriteStepSucceeds(d)
        \/ WriteStepFails(d)
        \/ \E b \in 1..4, l \in 0..4, taken \in SUBSET OthersTags(d) : ScriptFails(d, b, l, taken)
        \/ WriteEnds(d)
        \/ HelperExits(d)
        \/ \E step \in orphans[d] : OrphanEnds(d, step)
        \/ \E p \in AllPods : RollPod(d, p)
        \/ SnapshotBusy(d)
        \/ \E fails \in BOOLEAN : CheckCluster(d, fails)
        \/ \E fails \in BOOLEAN, lag \in SUBSET node[d].due : CheckPods(d, fails, lag)
        \/ AnswerStatus(d)
-----------------------------------------------------------------------------
Revisions == {NoImage} \cup (Devloops \X (0..MaxTreeEdits))
ClusterTypeOK ==
    /\ runtime \in {"podman", "docker"}
    /\ store \in [Services -> Revisions] /\ tar \in [Devloops -> Revisions \cup {Partial}]
    /\ \A d \in Devloops :
        /\ node[d].exists \in BOOLEAN /\ node[d].image \in [Services -> Revisions]
        /\ node[d].pod \in [AllPods -> Revisions] /\ node[d].due \subseteq AllPods
        /\ files[d] \subseteq RuntimeFile /\ op[d].built \in [Services -> Revisions]
        /\ result[d].outcome \in {"none", "ok", "spoiled", "error", "cancelled"}

\* After a rebuild or a setup that ended with ok, once the pods it asked for are there, all of
\* them run what was built from the developer's own tree, unless another helper had built the
\* same tag on the way.  The setup of a cluster that is already there does not restart ac and
\* gc: the pods it has kept need not run what it built.
OkRuns ==
    \A d \in Devloops : (op[d] = NoWrite /\ result[d].outcome = "ok" /\ node[d].due = {}) =>
        \A s \in Services : \A p \in Pods(s) :
            result[d].built[s] = NoImage \/ s \in result[d].foreign \/ p \in result[d].kept
                \/ node[d].pod[p] = result[d].built[s]

\* What a write loads from the archive is what it has saved itself, and no archive that an
\* earlier write, cut off or left by its helper, has put there; a rebuild that has ended with
\* ok leaves none.
NoStaleArchive ==
    \A d \in Devloops :
        /\ (op[d].plan # <<>> /\ op[d].plan[1][1] = "load" /\ runtime = "podman" /\ ~op[d].spoiled) =>
            /\ tar[d] # Partial
            /\ \A s \in Services : op[d].plan[1] = <<"load", s>> =>
                op[d].built[s] = NoImage \/ s \in op[d].foreign \/ tar[d] = op[d].built[s]
        /\ (op[d] = NoWrite /\ result[d].outcome = "ok" /\ result[d].cmd \in {"rebuild", "rebuild-all"}
                /\ \E s \in Services : result[d].built[s] # NoImage) => tar[d] = NoImage

\* A finished setup has left a cluster and the files to reach it, until a teardown.
SetupComplete ==
    \A d \in Devloops : (op[d] = NoWrite /\ result[d].cmd = "setup" /\ result[d].outcome = "ok") =>
        node[d].exists /\ files[d] = RuntimeFile

\* A status that finds the helper idle and the pods healthy after a setup that ended with
\* ok has found every pod of every service started.
HealthyIsUp ==
    \A d \in Devloops :
        (probe[d].at = "ports" /\ probe[d].calm /\ ~probe[d].busy /\ probe[d].healthy
            /\ result[d].cmd = "setup" /\ result[d].outcome = "ok") =>
        \A p \in AllPods : node[d].pod[p] # NoImage

\* Whatever fails or is cancelled on the way, and whatever an earlier helper has left, an ok
\* means what the developer takes it for: after a rebuild the pods run the code that was
\* built, after a setup the cluster is there with the files to reach it.  Of a write that was
\* begun beside a command of a helper that had exited, nothing is claimed.
ClusterCorrect == ClusterTypeOK /\ OkRuns /\ NoStaleArchive /\ SetupComplete /\ HealthyIsUp
=============================================================================
