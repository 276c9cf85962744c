-------------------------------- MODULE Ports --------------------------------
(***************************************************************************)
(* The port registry that the devloop helpers of one host share, with the  *)
(* Kind clusters that use the ports.  A helper lives from the start-up     *)
(* lock of its slug to its end; its setup and its teardown are cut where   *)
(* the registry lock is free: the registry and the clusters of others      *)
(* change in between.  write_registry empties the file and then fills it,  *)
(* and a helper may fail or die in between.                                *)
(*                                                                         *)
(* Abstractions: a slot stands for its ports; the clusters listen on the   *)
(* gateway address and verify_ports_available asks 127.0.0.1, so it fails  *)
(* or not whatever the clusters do.  A process id may be reused by a       *)
(* process that is no helper.  A file that was filled in part is left out: *)
(* it cannot be parsed, and every later allocation fails.                  *)
(***************************************************************************)
EXTENDS Naturals, FiniteSets

CONSTANTS
    Slug,
    NumSlots,       \* NUM_SLOTS
    PreferredIndex, \* [Slug -> 0..NumSlots-1]: preferred_index
    MaxPid          \* bound: helpers ever started

Slot == 0..(NumSlots - 1)

ASSUME PortsAssumption ==
    NumSlots \in Nat \ {0} /\ PreferredIndex \in [Slug -> Slot] /\ MaxPid \in Nat

VARIABLES
    registry,  \* entries of the registry file, or those that the writer is to fill it with
    writer,    \* the helper that has emptied the file and not filled it: none or one
    pidOf,     \* [Slug -> process id of its helper, 0 without one]
    alive,     \* process ids for which kill(pid, 0) succeeds
    pids,      \* helpers started
    write,     \* [Slug -> the write of its helper]
    portMap,   \* [Slug -> slots named by ports.json: none or one]
    cluster,   \* [Slug -> slots its cluster listens on: none or one]
    maker,     \* [Slug -> the helper that made the cluster on an entry that is still its own, or 0]
    undead,    \* slugs whose cluster outlived a failed delete
    unheld     \* slugs whose entry carries the pid of a stranger, or was lost with the file

portsVars == <<registry, writer, pidOf, alive, pids, write, portMap, cluster, maker, undead, unheld>>

Entry == [slug: Slug, slot: Slot, pid: 1..MaxPid]
AtRest == [at |-> "idle", slots |-> {}]
OneSlot == {{}} \cup {{i} : i \in Slot}

PortsTypeOK ==
    /\ registry \subseteq Entry
    /\ pidOf \in [Slug -> 0..MaxPid] /\ maker \in [Slug -> 0..MaxPid]
    /\ alive \subseteq 1..MaxPid /\ pids \in 0..MaxPid
    /\ write \in [Slug -> [at: {"idle", "allocated", "mapped", "created", "deleted"}, slots: OneSlot]]
    /\ portMap \in [Slug -> OneSlot] /\ cluster \in [Slug -> OneSlot]
    /\ undead \subseteq Slug /\ unheld \subseteq Slug /\ writer \in {{}} \cup {{s} : s \in Slug}

PortsInit ==
    /\ registry = {} /\ alive = {} /\ pids = 0
    /\ pidOf = [s \in Slug |-> 0] /\ maker = [s \in Slug |-> 0]
    /\ write = [s \in Slug |-> AtRest]
    /\ portMap = [s \in Slug |-> {}] /\ cluster = [s \in Slug |-> {}]
    /\ undead = {} /\ unheld = {} /\ writer = {}

Runs(s, at) == pidOf[s] # 0 /\ s \notin writer /\ write[s].at = at
WriteAt(s, at) == write' = [write EXCEPT ![s].at = at]
WriteEnds(s) == write' = [write EXCEPT ![s] = AtRest]

-----------------------------------------------------------------------------
(* Helpers and processes *)

\* acquire_startup_lock lets one helper of a slug in.
StartHelper(s) ==
    /\ pidOf[s] = 0 /\ pids < MaxPid
    /\ pids' = pids + 1 /\ pidOf' = [pidOf EXCEPT ![s] = pids + 1]
    /\ alive' = alive \cup {pids + 1}
    /\ UNCHANGED <<registry, writer, write, portMap, cluster, maker, undead, unheld>>

\* Another process gets the id of a helper that ended, and ends in its turn.
StrangerStarts(p) ==
    /\ p \in 1..pids /\ p \notin alive
    /\ alive' = alive \cup {p}
    /\ UNCHANGED <<registry, writer, pidOf, pids, write, portMap, cluster, maker, undead, unheld>>
StrangerEnds(p) ==
    /\ p \in alive /\ \A s \in Slug : pidOf[s] # p
    /\ alive' = alive \ {p}
    /\ UNCHANGED <<registry, writer, pidOf, pids, write, portMap, cluster, maker, undead, unheld>>

-----------------------------------------------------------------------------
(* cmd_setup *)

\* Mutant: entries are dropped by slug, whoever else lives.
KeptOwn(s) == {e \in registry : e.slug = s}
\* The entries whose process is alive stay.
Kept(s) == {e \in registry : e.pid \in alive}

FreeSlots(s) == Slot \ {e.slot : e \in Kept(s)}
\* Mutant: a slot that is taken is not passed over.
ChosenPreferred(s) == PreferredIndex[s]
\* Mutant: the scan does not wrap around.
ChosenPastEnd(s) ==
    IF PreferredIndex[s] \in FreeSlots(s) THEN PreferredIndex[s] ELSE PreferredIndex[s] + 1
\* The first free slot from the preferred one on.
Chosen(s) ==
    CHOOSE i \in FreeSlots(s) : \A j \in FreeSlots(s) :
        (i + NumSlots - PreferredIndex[s]) % NumSlots <= (j + NumSlots - PreferredIndex[s]) % NumSlots

\* allocate_ports finds the entry of the slug: nothing is written.
Reallocate(s) ==
    /\ Runs(s, "idle") /\ writer = {}
    /\ \E e \in Kept(s) :
        /\ e.slug = s
        /\ write' = [write EXCEPT ![s] = [at |-> "allocated", slots |-> {e.slot}]]
        /\ unheld' = IF e.pid = pidOf[s] THEN unheld \ {s} ELSE unheld \cup {s}
    /\ UNCHANGED <<registry, writer, pidOf, alive, pids, portMap, cluster, maker, undead>>

\* allocate_ports takes a free slot and begins to write, or fails with all of them taken.
Allocate(s) ==
    /\ Runs(s, "idle") /\ writer = {} /\ writer' = {s} /\ \A e \in Kept(s) : e.slug # s
    /\ FreeSlots(s) # {}
    /\ registry' = Kept(s) \cup {[slug |-> s, slot |-> Chosen(s), pid |-> pidOf[s]]}
    /\ write' = [write EXCEPT ![s] = [at |-> "allocated", slots |-> {Chosen(s)}]]
    /\ unheld' = unheld \ {s}
    /\ UNCHANGED <<pidOf, alive, pids, portMap, cluster, maker, undead>>

\* write_registry fills the file and the lock is released.
Written(s) ==
    /\ s \in writer /\ writer' = {}
    /\ UNCHANGED <<registry, pidOf, alive, pids, write, portMap, cluster, maker, undead, unheld>>

\* The file stays empty, and reads as one without entries.
LoseFile ==
    /\ registry' = {}
    /\ unheld' = unheld \cup {e.slug : e \in registry}
    /\ maker' = [t \in Slug |-> IF \E e \in registry : e.slug = t THEN 0 ELSE maker[t]]

\* It cannot be filled: the setup fails, the teardown goes on to its end.
WriteBreaks(s) ==
    /\ s \in writer /\ writer' = {} /\ LoseFile /\ WriteEnds(s)
    /\ UNCHANGED <<pidOf, alive, pids, portMap, cluster, undead>>

\* verify_ports_available, kind-config.yaml and ports.json.
WriteMap(s) ==
    /\ Runs(s, "allocated") /\ WriteAt(s, "mapped")
    /\ portMap' = [portMap EXCEPT ![s] = write[s].slots]
    /\ UNCHANGED <<registry, writer, pidOf, alive, pids, cluster, maker, undead, unheld>>

Bound(s) == \E t \in Slug \ {s} : write[s].slots \cap cluster[t] # {}

\* kind create makes the cluster on the ports of the slot, which must not be
\* bound by another.
KindCreate(s, by) ==
    /\ cluster[s] = {} /\ ~Bound(s)
    /\ cluster' = [cluster EXCEPT ![s] = write[s].slots]
    /\ maker' = [maker EXCEPT ![s] = by]
    /\ undead' = undead \ {s}

\* A cluster that exists is reused.
MakeCluster(s) ==
    /\ Runs(s, "mapped") /\ WriteAt(s, "created")
    /\ \/ cluster[s] # {} /\ UNCHANGED <<cluster, maker, undead>>
       \/ KindCreate(s, IF s \in unheld THEN 0 ELSE pidOf[s])
    /\ UNCHANGED <<registry, writer, pidOf, alive, pids, portMap, unheld>>

\* setup.sh and the kubeconfig end the setup.
SetupEnds(s) ==
    /\ Runs(s, "created") /\ WriteEnds(s)
    /\ UNCHANGED <<registry, writer, pidOf, alive, pids, portMap, cluster, maker, undead, unheld>>

\* A step fails or is cancelled: the entry and the map stay.
SetupFails(s) ==
    /\ \E at \in {"allocated", "mapped", "created"} : Runs(s, at)
    /\ WriteEnds(s)
    /\ UNCHANGED <<registry, writer, pidOf, alive, pids, portMap, cluster, maker, undead, unheld>>

\* The helper exits or crashes; its kind create may live on and be done.
HelperDies(s) ==
    /\ pidOf[s] # 0
    /\ pidOf' = [pidOf EXCEPT ![s] = 0] /\ alive' = alive \ {pidOf[s]}
    /\ WriteEnds(s) /\ writer' = writer \ {s}
    /\ \/ s \in writer /\ LoseFile /\ UNCHANGED <<cluster, undead>>
       \/ s \notin writer /\ UNCHANGED <<registry, cluster, maker, undead, unheld>>
       \/ Runs(s, "mapped") /\ KindCreate(s, 0) /\ UNCHANGED <<registry, unheld>>
    /\ UNCHANGED <<pids, portMap>>

-----------------------------------------------------------------------------
(* cmd_teardown *)

\* Mutant: a cancelled delete is an error like others.
GoesOnAlways(outcome) == TRUE
\* propagate_teardown_kind_result: only a cancel ends the teardown.
GoesOn(outcome) == outcome # "cancelled"

\* kind delete; one that fails or is cancelled may have deleted the cluster.
DeleteCluster(s, outcome, gone) ==
    /\ Runs(s, "idle") /\ (outcome = "ok" => gone)
    /\ IF GoesOn(outcome) THEN WriteAt(s, "deleted") ELSE UNCHANGED write
    /\ cluster' = IF gone THEN [cluster EXCEPT ![s] = {}] ELSE cluster
    /\ undead' = IF outcome = "failed" /\ cluster'[s] # {} THEN undead \cup {s} ELSE undead
    /\ UNCHANGED <<registry, writer, pidOf, alive, pids, portMap, maker, unheld>>

\* deallocate_ports begins to write; its errors are logged.
Deallocate(s) ==
    /\ Runs(s, "deleted") /\ WriteEnds(s)
    /\ \/ /\ writer = {} /\ writer' = {s}
          /\ registry' = {e \in registry : e.slug # s} /\ unheld' = unheld \ {s}
       \/ UNCHANGED <<registry, writer, unheld>>
    /\ UNCHANGED <<pidOf, alive, pids, portMap, cluster, maker, undead>>

PortsNext ==
    \/ \E s \in Slug :
        \/ StartHelper(s) \/ HelperDies(s)
        \/ Reallocate(s) \/ Allocate(s) \/ WriteMap(s) \/ MakeCluster(s) \/ SetupEnds(s) \/ SetupFails(s)
        \/ \E o \in {"ok", "failed", "cancelled"}, gone \in BOOLEAN : DeleteCluster(s, o, gone)
        \/ Deallocate(s) \/ Written(s) \/ WriteBreaks(s)
    \/ \E p \in 1..MaxPid : StrangerStarts(p) \/ StrangerEnds(p)

PortsSpec == PortsInit /\ [][PortsNext]_portsVars

-----------------------------------------------------------------------------
(* A slug has one entry and a slot one slug, however helpers come and go. *)
OneSlotEach ==
    \A e, f \in registry : e.slug = f.slug \/ e.slot = f.slot => e = f

(* The slot of a setup under way is registered to its slug to the end, so no
   other helper gets its ports, unless the entry carries the process id of a
   stranger (allocate_ports does not renew the id of an entry that it finds), or
   another helper failed or died while it wrote the file (write_registry). *)
SlotHeld ==
    \A s \in Slug : pidOf[s] # 0 /\ write[s].at \in {"allocated", "mapped", "created"} =>
        \/ s \in unheld
        \/ \E e \in registry : e.slug = s /\ e.slot \in write[s].slots /\ e.pid = pidOf[s]

(* The ports.json that a setup ends with names the ports of its cluster,
   unless the cluster is one that it reused from an earlier helper or from a
   teardown whose delete failed, or the entry was not its own or got lost. *)
MapIsCluster ==
    \A s \in Slug : Runs(s, "created") =>
        \/ portMap[s] = cluster[s]
        \/ maker[s] # pidOf[s] \/ s \in undead

(* The ports a helper works with are its own and those its ports.json names. *)
PortsCorrect == PortsTypeOK /\ OneSlotEach /\ SlotHeld /\ MapIsCluster
=============================================================================
