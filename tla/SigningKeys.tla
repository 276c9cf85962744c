---------------------------- MODULE SigningKeys ----------------------------
(***************************************************************************)
(* The auth controller's signing keys: the table, the replicas that make   *)
(* sure at start-up that it has a current key, and the rotation requests,  *)
(* each a transaction under the advisory lock.  Every statement is a step  *)
(* of its own, as PostgreSQL runs them (READ COMMITTED): what a statement  *)
(* read may be out of date at the next.                                    *)
(*                                                                         *)
(* Abstractions: key material and its encryption are left out; the year in *)
(* a key id is fixed; a request has passed the checks on its token, which  *)
(* leaves a service token with one of the rotation scopes, signed by a key *)
(* within its validity.                                                    *)
(***************************************************************************)
EXTENDS KeyTimes, Sequences, FiniteSets

CONSTANTS
    Ac,            \* replicas
    Request,       \* bound: the rotation requests of the run
    BootPrefix,    \* 'auth-{cluster}-{year}-' as main sees it (CLUSTER_NAME)
    RotatePrefix,  \* the same as the handler sees it (AC_CLUSTER_NAME)
    MinNormal      \* minimum interval with service.rotate-keys.ac

ASSUME SigningKeysAssumption ==
    /\ IsFiniteSet(Ac) /\ IsFiniteSet(Request)
    /\ TxMax < Validity
    /\ MinNormal \in Nat /\ MinForced <= MinNormal

VARIABLES
    keys,   \* the committed rows of signing_keys, in the order of commit
    boot,   \* [Ac -> [st, from, id]]
    tx      \* [Request -> [st, forced, begun, from, id, off]]

vars == <<now, keys, boot, tx>>

KeyId == {BootPrefix, RotatePrefix} \X Nat

\* A row.  is_active is "retired = None"; the time is kept for the properties.
Row == [id: KeyId, created: Nat, from: Nat, retired: Nat \cup {None}, rotated: BOOLEAN]

BootState == {"off", "none", "counted", "up"}
TxState   == {"idle", "begun", "locked", "checked", "counted", "written",
              "done", "refused", "failed"}
InTx(r)   == tx[r].st \in {"begun", "locked", "checked", "counted", "written"}
\* pg_advisory_xact_lock: held until the transaction ends.
Holds(r)  == tx[r].st \in {"locked", "checked", "counted", "written"}

NoBoot == [st |-> "off", from |-> 0, id |-> <<BootPrefix, 0>>]
NoTx   == [st |-> "idle", forced |-> FALSE, begun |-> 0, from |-> 0,
           id |-> <<RotatePrefix, 0>>, off |-> {}]

Ended(st) == [NoTx EXCEPT !.st = st]

TypeOK ==
    /\ now \in Nat
    /\ keys \in Seq(Row)
    /\ boot \in [Ac -> [st: BootState, from: Nat, id: KeyId]]
    /\ tx \in [Request -> [st: TxState, forced: BOOLEAN, begun: Nat, from: Nat,
                           id: KeyId, off: SUBSET Nat]]

Init ==
    /\ now = 0 /\ keys = <<>>
    /\ boot = [a \in Ac |-> NoBoot]
    /\ tx = [r \in Request |-> NoTx]

ValidAt(k, t) == k.from <= t /\ t < k.from + Validity
InWindow(k)  == ValidAt(k, now)
IsCurrent(k) == k.retired = None /\ InWindow(k)
HasCurrent   == \E k \in DOMAIN keys : IsCurrent(keys[k])

\* Mutant: the rows are counted from the wrong end.
NextIdLow(prefix) == <<prefix, Cardinality({k \in DOMAIN keys : keys[k].id[1] = prefix}) - 1>>
\* get_next_key_sequence: the number of rows with the prefix, plus one.
NextId(prefix) == <<prefix, Cardinality({k \in DOMAIN keys : keys[k].id[1] = prefix}) + 1>>

\* Mutant: key_id is not a primary key.
TakenNever(id) == FALSE
\* The primary key.  A row that a transaction has inserted and not committed
\* makes another insert of its id wait.
Taken(id)     == \E k \in DOMAIN keys : keys[k].id = id
Contended(id) == \E r \in Request : tx[r].st = "written" /\ tx[r].id = id

-----------------------------------------------------------------------------
(* initialize_signing_key, in main, before the replica serves. *)

BootCheck(a) ==
    /\ boot[a].st = "off"
    /\ boot' = [boot EXCEPT ![a] = IF HasCurrent THEN [NoBoot EXCEPT !.st = "up"]
                                   ELSE [NoBoot EXCEPT !.st = "none", !.from = now]]
    /\ UNCHANGED <<now, keys, tx>>

BootCount(a) ==
    /\ boot[a].st = "none"
    /\ boot' = [boot EXCEPT ![a].st = "counted", ![a].id = NextId(BootPrefix)]
    /\ UNCHANGED <<now, keys, tx>>

BootInsert(a) ==
    /\ boot[a].st = "counted"
    /\ ~Taken(boot[a].id) /\ ~Contended(boot[a].id)
    /\ keys' = Append(keys, [id |-> boot[a].id, created |-> now, from |-> boot[a].from,
                             retired |-> None, rotated |-> FALSE])
    /\ boot' = [boot EXCEPT ![a] = [NoBoot EXCEPT !.st = "up"]]
    /\ UNCHANGED <<now, tx>>

\* The insert hits the primary key, or any query fails: main returns the error
\* and the replica starts again.
BootFails(a) ==
    /\ boot[a].st \in {"none", "counted"}
    /\ boot' = [boot EXCEPT ![a] = NoBoot]
    /\ UNCHANGED <<now, keys, tx>>

Crash(a) ==
    /\ boot[a].st = "up"
    /\ boot' = [boot EXCEPT ![a] = NoBoot]
    /\ UNCHANGED <<now, keys, tx>>

-----------------------------------------------------------------------------
(* handle_rotate_keys and rotate_signing_key_tx. *)

\* The token is accepted: its key is looked up by kid whether or not it is
\* active.  The transaction begins; its NOW() is this moment.
Begin(r, forced) ==
    /\ tx[r].st = "idle"
    /\ \E a \in Ac : boot[a].st = "up"
    /\ \E k \in DOMAIN keys : InWindow(keys[k])
    /\ tx' = [tx EXCEPT ![r].st = "begun", ![r].forced = forced, ![r].begun = now]
    /\ UNCHANGED <<now, keys, boot>>

\* Mutant: the advisory lock is not taken.
LockFree(r) ==
    /\ tx[r].st = "begun"
    /\ tx' = [tx EXCEPT ![r].st = "locked"]
    /\ UNCHANGED <<now, keys, boot>>
\* pg_advisory_xact_lock waits for the transaction that holds it.
Lock(r) ==
    /\ tx[r].st = "begun"
    /\ \A q \in Request : ~Holds(q)
    /\ tx' = [tx EXCEPT ![r].st = "locked"]
    /\ UNCHANGED <<now, keys, boot>>

MinInterval(r) == IF tx[r].forced THEN MinForced ELSE MinNormal

\* ORDER BY created_at DESC LIMIT 1, compared with the clock.
TooSoon(r) == \E k \in DOMAIN keys : now < keys[k].created + MinInterval(r)

\* Too soon: 429, and the transaction is dropped.
Refuse(r) ==
    /\ tx[r].st = "locked" /\ TooSoon(r)
    /\ tx' = [tx EXCEPT ![r] = Ended("refused")]
    /\ UNCHANGED <<now, keys, boot>>

\* The old key is read, as of the start of the transaction; without one the request fails.
CheckInterval(r) ==
    /\ tx[r].st = "locked" /\ ~TooSoon(r)
    /\ \E k \in DOMAIN keys : keys[k].retired = None /\ ValidAt(keys[k], tx[r].begun)
    /\ tx' = [tx EXCEPT ![r].st = "checked"]
    /\ UNCHANGED <<now, keys, boot>>

CountKeys(r) ==
    /\ tx[r].st = "checked"
    /\ tx' = [tx EXCEPT ![r].st = "counted", ![r].id = NextId(RotatePrefix), ![r].from = now]
    /\ UNCHANGED <<now, keys, boot>>

\* INSERT, then UPDATE every active row it sees, then the new row again.
Write(r) ==
    /\ tx[r].st = "counted" /\ ~Taken(tx[r].id)
    /\ tx' = [tx EXCEPT ![r].st = "written",
                        ![r].off = {k \in DOMAIN keys : keys[k].retired = None}]
    /\ UNCHANGED <<now, keys, boot>>

\* Mutant: the new row is retired with the old ones and not set active again.
RotatedRowsAllOff(r) ==
    Append([k \in DOMAIN keys |-> IF k \in tx[r].off THEN [keys[k] EXCEPT !.retired = now]
                                                     ELSE keys[k]],
           [id |-> tx[r].id, created |-> tx[r].begun, from |-> tx[r].from,
            retired |-> now, rotated |-> TRUE])
\* Mutant: the old rows stay active.
RotatedRowsOverlap(r) ==
    Append(keys, [id |-> tx[r].id, created |-> tx[r].begun, from |-> tx[r].from,
                  retired |-> None, rotated |-> TRUE])
\* The table once the transaction is committed.
RotatedRows(r) ==
    Append([k \in DOMAIN keys |-> IF k \in tx[r].off THEN [keys[k] EXCEPT !.retired = now]
                                                     ELSE keys[k]],
           [id |-> tx[r].id, created |-> tx[r].begun, from |-> tx[r].from,
            retired |-> None, rotated |-> TRUE])

Commit(r) ==
    /\ tx[r].st = "written"
    /\ keys' = RotatedRows(r)
    /\ tx' = [tx EXCEPT ![r] = Ended("done")]
    /\ UNCHANGED <<now, boot>>

\* A statement fails, there is no old key, the id is taken, or the request
\* times out: everything is rolled back and the lock released.
Abort(r) ==
    /\ InTx(r)
    /\ tx' = [tx EXCEPT ![r] = Ended("failed")]
    /\ UNCHANGED <<now, keys, boot>>

\* Time passes, but no transaction or start-up outlives TxMax.
Tick ==
    /\ \A r \in Request : InTx(r) => now < tx[r].begun + TxMax
    /\ \A a \in Ac : boot[a].st \in {"none", "counted"} => now < boot[a].from + TxMax
    /\ now' = now + 1
    /\ UNCHANGED <<keys, boot, tx>>

Next ==
    \/ \E a \in Ac : BootCheck(a) \/ BootCount(a) \/ BootInsert(a) \/ BootFails(a) \/ Crash(a)
    \/ \E r \in Request :
          \/ \E forced \in BOOLEAN : Begin(r, forced)
          \/ Lock(r) \/ Refuse(r) \/ CheckInterval(r) \/ CountKeys(r) \/ Write(r)
          \/ Commit(r) \/ Abort(r)
    \/ Tick

Spec == Init /\ [][Next]_vars

-----------------------------------------------------------------------------
(* Properties. *)

\* Two rotations are at least the forced minimum apart, less what a transaction
\* may last (created_at is the start of the transaction, not its commit): the
\* advisory lock makes the check of the last rotation and the insert one.
RotationsApart ==
    \A i, j \in DOMAIN keys :
        keys[i].rotated /\ keys[j].rotated /\ i < j
            => keys[j].from >= keys[i].from + MinForced - TxMax

\* While the clock stands still, no rotation, start-up or failure of either
\* leaves the service without a key to sign with once it had one.
NeverKeyless == [][now' = now /\ HasCurrent => HasCurrent']_vars

\* Key ids are unique and numbered without a gap within each prefix, however
\* start-ups and rotations count and insert side by side.
IdsDense ==
    \A k \in DOMAIN keys :
        /\ \A j \in DOMAIN keys : keys[j].id = keys[k].id => j = k
        /\ keys[k].id[2] \in 1..Cardinality({j \in DOMAIN keys : keys[j].id[1] = keys[k].id[1]})

\* The rows of the table are what one rotation after another would have written.
KeysInOrder == TypeOK /\ RotationsApart /\ IdsDense

\* The table implements the abstract key ring.
Ring == INSTANCE KeyRing WITH
            ring <- [k \in DOMAIN keys |-> [from |-> keys[k].from, retired |-> keys[k].retired,
                                            rotated |-> keys[k].rotated]]
ImplementsKeyRing == Ring!RingSpec
=============================================================================
