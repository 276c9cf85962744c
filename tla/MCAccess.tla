------------------------------ MODULE MCAccess ------------------------------
(* Six parts that share no state, so each behaviour runs one of them: the   *)
(* clients and the users of the auth controller, the meeting endpoints of   *)
(* the global controller, the tokens and the checks that admit them, the    *)
(* devloop helper and its port registry.                                    *)
EXTENDS Clients, Users, Lobby, Gate, Helper, Ports, TLC

CONSTANTS u1, u2, o1, o2, m1, m2

VARIABLE part
vars == <<part, clientsVars, usersVars, lobbyVars, gateVars, helperVars, portsVars>>

Init ==
    /\ part \in {"clients", "users", "lobby", "gate", "helper", "ports"}
    /\ ClientsInit /\ UsersInit /\ LobbyInit /\ GateInit /\ HelperInit /\ PortsInit
Next ==
    /\ UNCHANGED part
    /\ \/ part = "clients" /\ ClientsNext
          /\ UNCHANGED <<usersVars, lobbyVars, gateVars, helperVars, portsVars>>
       \/ part = "users" /\ UsersNext
          /\ UNCHANGED <<clientsVars, lobbyVars, gateVars, helperVars, portsVars>>
       \/ part = "lobby" /\ LobbyNext
          /\ UNCHANGED <<clientsVars, usersVars, gateVars, helperVars, portsVars>>
       \/ part = "gate" /\ GateNext
          /\ UNCHANGED <<clientsVars, usersVars, lobbyVars, helperVars, portsVars>>
       \/ part = "helper" /\ HelperNext
          /\ UNCHANGED <<clientsVars, usersVars, lobbyVars, gateVars, portsVars>>
       \/ part = "ports" /\ PortsNext
          /\ UNCHANGED <<clientsVars, usersVars, lobbyVars, gateVars, helperVars>>
Spec == Init /\ [][Next]_vars

Homes   == [u \in User |-> IF u = u1 THEN o1 ELSE o2]
Patches == { <<>>, [f \in {"guests", "waiting"} |-> f = "guests"], [f \in Field |-> f # "guests"] }
Creators == m1 :> u1 @@ m2 :> u2
Orgs    == u1 :> o1 @@ u2 :> o2 @@ m1 :> o1 @@ m2 :> o2
Offsets == [ac |-> 1, gc |-> 0, mc |-> 0, mh |-> 1]
LastSlot == [s \in Slug |-> NumSlots - 1]

\* Bounds.  While an email has failed logins or an abandoned registration, it
\* is the only one registered.  Of several meetings, none is entered or changed.  Once a
\* process outlived its command or output went unread, two connections are served; one
\* process at a time has the id of a helper that ended, which an entry names, and one slug has lost its entry or
\* a delete of its cluster.
Troubled == abandoned \cup {e \in Email : ufailed[e] > 0}
Bounded ==
    /\ Cardinality(Troubled) <= 1
    /\ Troubled # {} => Cardinality({e \in Email : Registered(e)}) <= 1
    /\ Len(rooms) > 1 => /\ \A m \in DOMAIN rooms : rooms[m].set = rooms[1].set
                         /\ \A h \in LHandler : LBusy(h) => lreq[h].op = "create"
    /\ strays # {} \/ unread => Cardinality({c \in Conn : conns[c].at # "new"}) <= 2
    /\ Cardinality(alive \ {pidOf[s] : s \in Slug}) <= 1
    /\ alive \subseteq {pidOf[s] : s \in Slug} \cup {e.pid : e \in registry}
    /\ Cardinality(undead \cup unheld) <= 1

\* Emails, codes, connections and slugs are interchangeable until they are
\* first used, so they are first used in order.  While a helper writes the registry the
\* others rest: what they can do then comes to the same before the write and after it.
Known(e) ==
    \/ users[e] # NoUser \/ ufailed[e] > 0 \/ owners[e] # {} \/ e \in abandoned
    \/ \E h \in UHandler : UBusy(h) /\ ureq[h].e = e
Drawn(k) ==
    \/ \E m \in DOMAIN rooms : rooms[m].code = k
    \/ \E h \in LHandler : "code" \in DOMAIN lreq[h] /\ lreq[h].code = k
InOrder ==
    /\ \A h \in UHandler : ~UBusy(h) /\ ureq'[h].at # "idle" =>
        \A e \in 1..(ureq'[h].e - 1) : Known(e)
    /\ \A h \in LHandler : LIn(h, {"create"}, "draw") /\ lreq'[h].at = "counting" =>
        \A k \in 1..(lreq'[h].code - 1) : Drawn(k)
    /\ \A c \in Conn, d \in Conn : c < d /\ conns'[d].at # "new" => conns[c].at # "new"
    /\ pids = 0 /\ pids' = 1 => pidOf'[1] = 1
    /\ writer # {} => writer' = {}

\* The developers' helper: one write at a time, stopped by its own cancel only, and ports
\* that are its own and those its ports.json names.
ToolsCorrect == HelperCorrect /\ PortsCorrect

Symmetry == UNION {Permutations(S) : S \in {Handler, UHandler, LHandler, Password}}
=============================================================================
