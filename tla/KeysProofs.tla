----------------------------- MODULE KeysProofs -----------------------------
(***************************************************************************)
(* SigningKeys, for any number of replicas and of rotation requests, and   *)
(* any length of time: the invariant KeysInOrder, the action property      *)
(* NeverKeyless, and the refinement of KeyRing.  The invariant says what a *)
(* transaction under way may rely on: it alone holds the advisory lock, so *)
(* what it checked and read stays true of the rotated rows; only a         *)
(* starting replica can add a row meanwhile.  An id counted earlier is at  *)
(* most one ahead of the rows, so it is either taken by now or still the   *)
(* next one.                                                               *)
(*                                                                         *)
(* Credentials, for all time limits that satisfy CredentialsAssumption and *)
(* any number of validations: TokenUsable as long as there is a key to     *)
(* sign with, and VerdictsFollowKeys.  The invariant bounds the age of     *)
(* every copy of the JWKS, and follows the task of the token manager from  *)
(* the first request for a new token through at most one outage.           *)
(***************************************************************************)
EXTENDS SigningKeys, Credentials, FiniteSetTheorems, SequenceTheorems, TLAPS

-----------------------------------------------------------------------------
(* The inductive invariant. *)

\* The advisory lock is held by at most one transaction.
OneHolder == \A q, r \in Request : Holds(q) /\ Holds(r) => q = r

\* No transaction and no start-up outlives TxMax, and a key is stamped meanwhile.
InTime ==
    /\ \A r \in Request :
          /\ InTx(r) => tx[r].begun <= now /\ now <= tx[r].begun + TxMax
          /\ tx[r].st \in {"counted", "written"} => tx[r].begun <= tx[r].from /\ tx[r].from <= now
    /\ \A a \in Ac :
          boot[a].st \in {"none", "counted"} => boot[a].from <= now /\ now <= boot[a].from + TxMax

\* created_at of a rotated row is the start of its transaction.
StampedInTime == \A k \in DOMAIN keys : keys[k].rotated => keys[k].from <= keys[k].created + TxMax

\* What CheckInterval found still holds when the key is stamped: nobody else rotates.
StillApart ==
    \A r \in Request, k \in DOMAIN keys : keys[k].rotated =>
        /\ tx[r].st = "checked" => now >= keys[k].created + MinForced
        /\ tx[r].st \in {"counted", "written"} => tx[r].from >= keys[k].created + MinForced

\* The rows with a prefix; their numbers leave no gap.
Rows(prefix) == {k \in DOMAIN keys : keys[k].id[1] = prefix}
NoGap == \A prefix \in {BootPrefix, RotatePrefix} :
            \A i \in 1..Cardinality(Rows(prefix)) : Taken(<<prefix, i>>)

\* An id counted earlier is at most one ahead of the rows.
Numbered(id, prefix) == id[1] = prefix /\ id[2] \in 1..(Cardinality(Rows(prefix)) + 1)
IdsCounted ==
    /\ \A a \in Ac : boot[a].st = "counted" => Numbered(boot[a].id, BootPrefix)
    /\ \A r \in Request : tx[r].st \in {"counted", "written"} => Numbered(tx[r].id, RotatePrefix)

\* What a transaction has written and not committed.
Pending ==
    \A r \in Request : tx[r].st = "written" =>
        /\ ~Taken(tx[r].id)
        /\ tx[r].off \subseteq DOMAIN keys
        /\ \A k \in tx[r].off : keys[k].retired = None
        /\ \A k \in DOMAIN keys : keys[k].retired = None /\ k \notin tx[r].off => ~keys[k].rotated

KeysInv ==
    /\ TypeOK /\ OneHolder /\ InTime /\ StampedInTime /\ StillApart
    /\ NoGap /\ IdsCounted /\ Pending /\ RotationsApart /\ IdsDense
USE SigningKeysAssumption, KeyTimesAssumption

Boot == [st: BootState, from: Nat, id: KeyId]
Tx   == [st: TxState, forced: BOOLEAN, begun: Nat, from: Nat, id: KeyId, off: SUBSET Nat]

-----------------------------------------------------------------------------
(* Records. *)

LEMMA NoBootType == NoBoot \in Boot /\ NoBoot.st = "off"
  BY DEF NoBoot, Boot, BootState, KeyId

LEMMA BootUpType ==
  /\ [NoBoot EXCEPT !.st = "up"] \in Boot /\ [NoBoot EXCEPT !.st = "up"].st = "up"
  BY DEF NoBoot, Boot, BootState, KeyId

LEMMA BootNoneType ==
  ASSUME NEW n \in Nat
  PROVE  /\ [NoBoot EXCEPT !.st = "none", !.from = n] \in Boot
         /\ [NoBoot EXCEPT !.st = "none", !.from = n].st = "none"
         /\ [NoBoot EXCEPT !.st = "none", !.from = n].from = n
  BY DEF NoBoot, Boot, BootState, KeyId

LEMMA BootCountedType ==
  ASSUME NEW b \in Boot, NEW i \in KeyId
  PROVE  /\ [b EXCEPT !.st = "counted", !.id = i] \in Boot
         /\ [b EXCEPT !.st = "counted", !.id = i].st = "counted"
         /\ [b EXCEPT !.st = "counted", !.id = i].from = b.from
         /\ [b EXCEPT !.st = "counted", !.id = i].id = i
  BY DEF Boot, BootState

LEMMA EndedType ==
  ASSUME NEW s \in {"done", "refused", "failed"}
  PROVE  Ended(s) \in Tx /\ Ended(s).st = s
  BY DEF Ended, NoTx, Tx, TxState, KeyId

LEMMA TxState1 ==
  ASSUME NEW t \in Tx, NEW s \in TxState
  PROVE  /\ [t EXCEPT !.st = s] \in Tx /\ [t EXCEPT !.st = s].st = s
         /\ [t EXCEPT !.st = s].begun = t.begun
  BY DEF Tx

LEMMA TxBegunTrue ==
  ASSUME NEW t \in Tx, NEW n \in Nat
  PROVE  /\ [t EXCEPT !.st = "begun", !.forced = TRUE, !.begun = n] \in Tx
         /\ [t EXCEPT !.st = "begun", !.forced = TRUE, !.begun = n].st = "begun"
         /\ [t EXCEPT !.st = "begun", !.forced = TRUE, !.begun = n].begun = n
  BY DEF Tx, TxState

LEMMA TxBegunFalse ==
  ASSUME NEW t \in Tx, NEW n \in Nat
  PROVE  /\ [t EXCEPT !.st = "begun", !.forced = FALSE, !.begun = n] \in Tx
         /\ [t EXCEPT !.st = "begun", !.forced = FALSE, !.begun = n].st = "begun"
         /\ [t EXCEPT !.st = "begun", !.forced = FALSE, !.begun = n].begun = n
  BY DEF Tx, TxState

LEMMA TxWritten ==
  ASSUME NEW t \in Tx, NEW o \in SUBSET Nat
  PROVE  /\ [t EXCEPT !.st = "written", !.off = o] \in Tx
         /\ [t EXCEPT !.st = "written", !.off = o].st = "written"
         /\ [t EXCEPT !.st = "written", !.off = o].id = t.id
         /\ [t EXCEPT !.st = "written", !.off = o].from = t.from
         /\ [t EXCEPT !.st = "written", !.off = o].begun = t.begun
         /\ [t EXCEPT !.st = "written", !.off = o].off = o
  BY DEF Tx, TxState

LEMMA KeysType ==
  ASSUME TypeOK
  PROVE  /\ Len(keys) \in Nat /\ DOMAIN keys = 1..Len(keys)
         /\ \A k \in DOMAIN keys : keys[k] \in Row
         /\ \A r \in Request : tx[r] \in Tx
         /\ \A a \in Ac : boot[a] \in Boot
  BY DEF TypeOK, Tx, Boot

LEMMA RowsFinite ==
  ASSUME TypeOK, NEW p
  PROVE  IsFiniteSet(Rows(p)) /\ Cardinality(Rows(p)) \in Nat
<1>1. IsFiniteSet(1..Len(keys))
  BY FS_Interval, KeysType
<1>2. Rows(p) \subseteq 1..Len(keys)
  BY KeysType DEF Rows
<1> QED BY <1>1, <1>2, FS_Subset, FS_CardinalityType

LEMMA NextIdNumbered ==
  ASSUME TypeOK, NEW p \in {BootPrefix, RotatePrefix}
  PROVE  NextId(p) \in KeyId /\ Numbered(NextId(p), p)
<1>1. NextId(p) = <<p, Cardinality(Rows(p)) + 1>>
  BY DEF NextId, Rows
<1>2. Cardinality(Rows(p)) \in Nat
  BY RowsFinite
<1> QED BY <1>1, <1>2 DEF KeyId, Numbered

-----------------------------------------------------------------------------
(* A step of one transaction, or of one start-up, that commits nothing. *)

\* What the record of a transaction must satisfy, given the rest.
TxGood(t) ==
    /\ t.st \in {"begun", "locked", "checked", "counted", "written"} => t.begun <= now /\ now <= t.begun + TxMax
    /\ t.st \in {"counted", "written"} => t.begun <= t.from /\ t.from <= now /\ Numbered(t.id, RotatePrefix)
    /\ \A k \in DOMAIN keys : keys[k].rotated =>
          /\ t.st = "checked" => now >= keys[k].created + MinForced
          /\ t.st \in {"counted", "written"} => t.from >= keys[k].created + MinForced
    /\ t.st = "written" =>
          /\ ~Taken(t.id)
          /\ t.off \subseteq DOMAIN keys
          /\ \A k \in t.off : keys[k].retired = None
          /\ \A k \in DOMAIN keys : keys[k].retired = None /\ k \notin t.off => ~keys[k].rotated

LEMMA TxGoodAll == ASSUME KeysInv PROVE \A r \in Request : TxGood(tx[r])
  BY DEF KeysInv, InTime, InTx, StillApart, IdsCounted, Pending, TxGood

LEMMA TxMoves ==
  ASSUME KeysInv, NEW r \in Request, NEW t \in Tx, tx' = [tx EXCEPT ![r] = t],
         UNCHANGED <<now, keys, boot>>,
         t.st \in {"locked", "checked", "counted", "written"} => Holds(r) \/ \A q \in Request : ~Holds(q),
         TxGood(t)
  PROVE  KeysInv'
<1>1. tx'[r] = t /\ \A q \in Request \ {r} : tx'[q] = tx[q]
  BY DEF KeysInv, TypeOK
<1>2. TypeOK'
  BY DEF KeysInv, TypeOK, Tx
<1>3. OneHolder'
  BY <1>1 DEF KeysInv, OneHolder, Holds
<1>4. \A q \in Request : TxGood(tx'[q])
  BY <1>1, TxGoodAll
<1>5. /\ \A prefix : Rows(prefix)' = Rows(prefix)
      /\ \A id : Taken(id)' <=> Taken(id)
  BY DEF Rows, Taken
<1>6. InTime'
  BY <1>4 DEF KeysInv, InTime, InTx, TxGood
<1>7. StillApart' /\ StampedInTime' /\ RotationsApart' /\ IdsDense'
  BY <1>4 DEF KeysInv, StillApart, TxGood, StampedInTime, RotationsApart, IdsDense
<1>8. NoGap' /\ IdsCounted'
  BY <1>4, <1>5 DEF KeysInv, NoGap, IdsCounted, TxGood, Numbered
<1>9. Pending'
  BY <1>4, <1>5 DEF Pending, TxGood
<1> QED BY <1>2, <1>3, <1>6, <1>7, <1>8, <1>9 DEF KeysInv

LEMMA BootMoves ==
  ASSUME KeysInv, NEW a \in Ac, NEW b \in Boot, boot' = [boot EXCEPT ![a] = b],
         UNCHANGED <<now, keys, tx>>,
         b.st \in {"none", "counted"} => b.from <= now /\ now <= b.from + TxMax,
         b.st = "counted" => Numbered(b.id, BootPrefix)
  PROVE  KeysInv'
<1>1. boot'[a] = b /\ \A q \in Ac \ {a} : boot'[q] = boot[q]
  BY DEF KeysInv, TypeOK
<1>2. TypeOK'
  BY DEF KeysInv, TypeOK, Boot
<1>3. OneHolder' /\ StillApart' /\ StampedInTime' /\ RotationsApart' /\ IdsDense'
  BY DEF KeysInv, OneHolder, Holds, StillApart, StampedInTime, RotationsApart, IdsDense
<1>5. /\ \A prefix : Rows(prefix)' = Rows(prefix)
      /\ \A id : Taken(id)' <=> Taken(id)
  BY DEF Rows, Taken
<1>6. InTime'
  BY <1>1 DEF KeysInv, InTime, InTx
<1>8. NoGap' /\ IdsCounted' /\ Pending'
  BY <1>1, <1>5 DEF KeysInv, NoGap, IdsCounted, Numbered, Pending
<1> QED BY <1>2, <1>3, <1>6, <1>8 DEF KeysInv

-----------------------------------------------------------------------------
(* A row is committed. *)

\* The rows there are keep their ids and stamps, and one is new.
RowAdded(row) ==
    /\ keys' \in Seq(Row) /\ Len(keys') = Len(keys) + 1
    /\ keys'[Len(keys) + 1] = row
    /\ \A k \in 1..Len(keys) : /\ keys'[k].id = keys[k].id /\ keys'[k].from = keys[k].from
                               /\ keys'[k].created = keys[k].created /\ keys'[k].rotated = keys[k].rotated

\* A row whose id was counted earlier and is still free is the next of its prefix.
LEMMA AddedInOrder ==
  ASSUME TypeOK, NoGap, IdsDense, NEW p \in {BootPrefix, RotatePrefix}, NEW row \in Row, RowAdded(row),
         Numbered(row.id, p), ~Taken(row.id)
  PROVE  /\ NoGap' /\ IdsDense'
         /\ \A q : Cardinality(Rows(q)) <= Cardinality(Rows(q)') /\ Cardinality(Rows(q)') \in Nat
         /\ \A id : Taken(id)' <=> Taken(id) \/ id = row.id
<1> DEFINE n == Len(keys) + 1
<1>1. DOMAIN keys' = 1..n /\ DOMAIN keys = 1..Len(keys) /\ Len(keys) \in Nat /\ DOMAIN keys' = DOMAIN keys \cup {n} /\ n \notin DOMAIN keys
  BY KeysType DEF RowAdded
<1>2. \A id : Taken(id)' <=> Taken(id) \/ id = row.id
  BY <1>1 DEF Taken, RowAdded
<1>3. row.id[1] = p /\ row.id \in KeyId
  BY DEF Numbered, Row
<1>4. Rows(p)' = Rows(p) \cup {n} /\ n \notin Rows(p)
  BY <1>1, <1>3 DEF Rows, RowAdded
<1>5. \A q : q # p => Rows(q)' = Rows(q)
  BY <1>1, <1>3 DEF Rows, RowAdded
<1>6. /\ Cardinality(Rows(p)') = Cardinality(Rows(p)) + 1
      /\ \A q : Cardinality(Rows(q)) \in Nat
  BY <1>4, RowsFinite, FS_AddElement
<1>7. row.id[2] = Cardinality(Rows(p)) + 1
  <2>1. row.id[2] \in 1..Cardinality(Rows(p)) => row.id = <<p, row.id[2]>> /\ Taken(<<p, row.id[2]>>)
    BY <1>3 DEF NoGap, KeyId
  <2> QED BY <2>1, <1>6 DEF Numbered
<1>8. row.id = <<p, Cardinality(Rows(p)) + 1>>
  BY <1>3, <1>7 DEF KeyId
<1>9. NoGap'
  <2> SUFFICES ASSUME NEW q \in {BootPrefix, RotatePrefix}, NEW i \in 1..Cardinality(Rows(q)')
               PROVE  Taken(<<q, i>>)'
    BY DEF NoGap
  <2>1. CASE q # p \/ i # Cardinality(Rows(p)) + 1
    <3>1. i \in 1..Cardinality(Rows(q))
      BY <1>5, <1>6, <2>1
    <3> QED BY <3>1, <1>2 DEF NoGap
  <2>2. CASE q = p /\ i = Cardinality(Rows(p)) + 1
    BY <2>2, <1>2, <1>8
  <2> QED BY <2>1, <2>2
<1>10. \A q : Cardinality(Rows(q)) <= Cardinality(Rows(q)') /\ Cardinality(Rows(q)') \in Nat
  <2> TAKE q
  <2>1. CASE q = p
    BY <2>1, <1>6
  <2>2. CASE q # p
    BY <2>2, <1>5, <1>6
  <2> QED BY <2>1, <2>2
<1>11. IdsDense'
  <2> SUFFICES ASSUME NEW k \in DOMAIN keys'
               PROVE  /\ \A j \in DOMAIN keys' : keys'[j].id = keys'[k].id => j = k
                      /\ keys'[k].id[2] \in 1..Cardinality({j \in DOMAIN keys' : keys'[j].id[1] = keys'[k].id[1]})
    BY DEF IdsDense
  <2>q. PICK q : q = keys'[k].id[1]
    OBVIOUS
  <2>c. {j \in DOMAIN keys' : keys'[j].id[1] = keys'[k].id[1]} = Rows(q)'
    BY <2>q DEF Rows
  <2>1. \A j \in DOMAIN keys : keys'[j].id = keys[j].id /\ keys[j].id # row.id
    BY <1>1 DEF RowAdded, Taken
  <2>2. keys'[n].id = row.id
    BY DEF RowAdded
  <2>3. CASE k = n
    <3>1. q = p
      BY <2>q, <2>2, <2>3, <1>3
    <3>2. \A j \in DOMAIN keys' : keys'[j].id = keys'[k].id => j = k
      BY <1>1, <2>1, <2>2, <2>3
    <3>3. keys'[k].id[2] \in 1..Cardinality(Rows(q)')
      BY <3>1, <2>2, <2>3, <1>6, <1>7
    <3> QED BY <3>2, <3>3, <2>c
  <2>4. CASE k \in DOMAIN keys
    <3>1. keys'[k].id = keys[k].id /\ q = keys[k].id[1]
      BY <2>q, <2>1, <2>4
    <3>r. {j \in DOMAIN keys : keys[j].id[1] = keys[k].id[1]} = Rows(q)
      BY <3>1 DEF Rows
    <3>2. keys[k].id[2] \in 1..Cardinality(Rows(q)) /\ \A j \in DOMAIN keys : keys[j].id = keys[k].id => j = k
      BY <2>4, <3>r DEF IdsDense
    <3>3. Cardinality(Rows(q)) <= Cardinality(Rows(q)') /\ Cardinality(Rows(q)') \in Nat /\ Cardinality(Rows(q)) \in Nat
      BY <1>10, <1>6
    <3>4. keys'[k].id[2] \in 1..Cardinality(Rows(q)')
      BY <3>1, <3>2, <3>3
    <3> QED BY <3>1, <3>2, <3>4, <2>c, <2>1, <2>2, <2>4, <1>1
  <2> QED BY <2>3, <2>4, <1>1
<1> QED BY <1>2, <1>9, <1>10, <1>11

LEMMA BootInsertStep ==
  ASSUME KeysInv, NEW a \in Ac, BootInsert(a)
  PROVE  KeysInv'
<1> DEFINE row == [id |-> boot[a].id, created |-> now, from |-> boot[a].from,
                   retired |-> None, rotated |-> FALSE]
<1>1. /\ boot[a].st = "counted" /\ ~Taken(boot[a].id) /\ ~Contended(boot[a].id)
      /\ keys' = Append(keys, row)
      /\ boot' = [boot EXCEPT ![a] = [NoBoot EXCEPT !.st = "up"]]
      /\ UNCHANGED <<now, tx>>
  BY DEF BootInsert
<1>t. TypeOK
  BY DEF KeysInv
<1>2. boot[a] \in Boot /\ now \in Nat
  BY <1>t, KeysType DEF TypeOK
<1>3. row \in Row /\ row.id = boot[a].id /\ row.rotated = FALSE
  BY <1>2 DEF Row, Boot
<1> HIDE DEF row
<1>4. /\ keys' \in Seq(Row) /\ Len(keys') = Len(keys) + 1 /\ keys'[Len(keys) + 1] = row
      /\ \A k \in 1..Len(keys) : keys'[k] = keys[k]
      /\ Len(keys) \in Nat
  BY <1>1, <1>3, <1>t DEF TypeOK
<1>5. RowAdded(row) /\ DOMAIN keys' = DOMAIN keys \cup {Len(keys) + 1} /\ DOMAIN keys = 1..Len(keys)
  BY <1>4, <1>t, KeysType DEF RowAdded
<1>6. Numbered(row.id, BootPrefix)
  BY <1>1, <1>3 DEF KeysInv, IdsCounted
<1>7. /\ NoGap' /\ IdsDense'
      /\ \A q : Cardinality(Rows(q)) <= Cardinality(Rows(q)') /\ Cardinality(Rows(q)') \in Nat
      /\ \A id : Taken(id)' <=> Taken(id) \/ id = row.id
  <2>1. BootPrefix \in {BootPrefix, RotatePrefix} /\ ~Taken(row.id) /\ NoGap /\ IdsDense
    BY <1>1, <1>3 DEF KeysInv
  <2> QED BY <2>1, <1>t, <1>3, <1>5, <1>6, AddedInOrder
<1>8. [NoBoot EXCEPT !.st = "up"] \in Boot /\ [NoBoot EXCEPT !.st = "up"].st = "up"
  BY BootUpType
<1>9. PICK b \in Boot : b.st = "up" /\ boot' = [boot EXCEPT ![a] = b]
  BY <1>1, <1>8
<1>10. boot'[a] = b /\ \A d \in Ac \ {a} : boot'[d] = boot[d]
  BY <1>9, <1>t DEF TypeOK
<1>11. TypeOK'
  BY <1>1, <1>4, <1>9, <1>t DEF TypeOK, Boot
<1>12. OneHolder'
  BY <1>1 DEF KeysInv, OneHolder, Holds
<1>13. InTime'
  BY <1>1, <1>9, <1>10 DEF KeysInv, InTime, InTx
<1>14. \A k \in DOMAIN keys' : keys'[k].rotated => k \in DOMAIN keys /\ keys'[k] = keys[k]
  BY <1>3, <1>4, <1>5
<1>15. StampedInTime' /\ StillApart' /\ RotationsApart'
  BY <1>1, <1>14 DEF KeysInv, StampedInTime, StillApart, RotationsApart
<1>16. IdsCounted'
  <2>1. \A q : Cardinality(Rows(q)) \in Nat
    BY <1>t, RowsFinite
  <2>2. ASSUME NEW id, NEW q, Numbered(id, q) PROVE Numbered(id, q)'
    BY <1>7, <2>1, <2>2 DEF Numbered
  <2> QED BY <1>1, <1>9, <1>10, <2>2 DEF KeysInv, IdsCounted
<1>17. Pending'
  <2> SUFFICES ASSUME NEW r \in Request, tx[r].st = "written"
               PROVE  /\ ~Taken(tx[r].id)'
                      /\ tx[r].off \subseteq DOMAIN keys'
                      /\ \A k \in tx[r].off : keys'[k].retired = None
                      /\ \A k \in DOMAIN keys' : keys'[k].retired = None /\ k \notin tx[r].off => ~keys'[k].rotated
    BY <1>1 DEF Pending, Taken
  <2>1. /\ ~Taken(tx[r].id) /\ tx[r].off \subseteq DOMAIN keys
        /\ \A k \in tx[r].off : keys[k].retired = None
        /\ \A k \in DOMAIN keys : keys[k].retired = None /\ k \notin tx[r].off => ~keys[k].rotated
    BY DEF KeysInv, Pending
  <2>2. tx[r].id # row.id
    BY <1>1, <1>3 DEF Contended
  <2>3. ~Taken(tx[r].id)'
    BY <1>1, <1>7, <2>1, <2>2
  <2> QED BY <2>1, <2>3, <1>4, <1>5, <1>14
<1> QED BY <1>7, <1>11, <1>12, <1>13, <1>15, <1>16, <1>17 DEF KeysInv

\* What a commit makes of the rows there were: those it retires change, nothing else.
LEMMA CommittedRows ==
  ASSUME KeysInv, NEW r \in Request, Commit(r)
  PROVE  LET row == [id |-> tx[r].id, created |-> tx[r].begun, from |-> tx[r].from,
                     retired |-> None, rotated |-> TRUE]
         IN  /\ row \in Row /\ RowAdded(row)
             /\ \A k \in 1..Len(keys) :
                   keys'[k].retired = IF k \in tx[r].off THEN now ELSE keys[k].retired
<1> DEFINE row == [id |-> tx[r].id, created |-> tx[r].begun, from |-> tx[r].from,
                   retired |-> None, rotated |-> TRUE]
           old == [k \in DOMAIN keys |-> IF k \in tx[r].off THEN [keys[k] EXCEPT !.retired = now]
                                                           ELSE keys[k]]
<1>1. keys' = Append(old, row)
  BY DEF Commit, RotatedRows
<1>t. TypeOK
  BY DEF KeysInv
<1>2. row \in Row
  <2>1. tx[r] \in Tx
    BY <1>t, KeysType
  <2> QED BY <2>1 DEF Tx, Row
<1>3. DOMAIN keys = 1..Len(keys) /\ Len(keys) \in Nat /\ now \in Nat /\ \A k \in DOMAIN keys : keys[k] \in Row
  BY <1>t, KeysType DEF TypeOK
<1>4. \A k \in DOMAIN keys :
         /\ [keys[k] EXCEPT !.retired = now] \in Row
         /\ [keys[k] EXCEPT !.retired = now].retired = now
         /\ [keys[k] EXCEPT !.retired = now].id = keys[k].id
         /\ [keys[k] EXCEPT !.retired = now].from = keys[k].from
         /\ [keys[k] EXCEPT !.retired = now].created = keys[k].created
         /\ [keys[k] EXCEPT !.retired = now].rotated = keys[k].rotated
  BY <1>3 DEF Row
<1>5. \A k \in 1..Len(keys) :
         /\ old[k] \in Row /\ old[k].id = keys[k].id /\ old[k].from = keys[k].from
         /\ old[k].created = keys[k].created /\ old[k].rotated = keys[k].rotated
         /\ old[k].retired = IF k \in tx[r].off THEN now ELSE keys[k].retired
  BY <1>3, <1>4
<1>6. old \in [1..Len(keys) -> Row]
  BY <1>3, <1>5
<1> HIDE DEF old, row
<1>7. old \in Seq(Row) /\ Len(old) = Len(keys)
  BY <1>3, <1>6
<1>8. /\ keys' \in Seq(Row) /\ Len(keys') = Len(keys) + 1 /\ keys'[Len(keys) + 1] = row
      /\ \A k \in 1..Len(keys) : keys'[k] = old[k]
  BY <1>1, <1>2, <1>3, <1>7
<1>9. RowAdded(row)
  BY <1>5, <1>8 DEF RowAdded
<1>10. \A k \in 1..Len(keys) : keys'[k].retired = IF k \in tx[r].off THEN now ELSE keys[k].retired
  BY <1>5, <1>8
<1> QED BY <1>2, <1>9, <1>10 DEF row

LEMMA CommitStep ==
  ASSUME KeysInv, NEW r \in Request, Commit(r)
  PROVE  KeysInv'
<1> DEFINE row == [id |-> tx[r].id, created |-> tx[r].begun, from |-> tx[r].from,
                   retired |-> None, rotated |-> TRUE]
<1>1. tx[r].st = "written" /\ tx' = [tx EXCEPT ![r] = Ended("done")] /\ UNCHANGED <<now, boot>>
  BY DEF Commit
<1>2. row \in Row /\ RowAdded(row)
  BY CommittedRows
<1>3. row.id = tx[r].id /\ row.from = tx[r].from /\ row.created = tx[r].begun /\ row.rotated
  OBVIOUS
<1> HIDE DEF row
<1>t. TypeOK
  BY DEF KeysInv
<1>4. DOMAIN keys = 1..Len(keys) /\ Len(keys) \in Nat /\ DOMAIN keys' = 1..(Len(keys) + 1) /\ keys' \in Seq(Row)
  BY <1>2, <1>t, KeysType DEF RowAdded
<1>5. TxGood(tx[r])
  BY TxGoodAll
<1>6. Numbered(row.id, RotatePrefix) /\ ~Taken(row.id)
  BY <1>1, <1>3, <1>5 DEF TxGood
<1>7. /\ NoGap' /\ IdsDense'
      /\ \A q : Cardinality(Rows(q)) <= Cardinality(Rows(q)') /\ Cardinality(Rows(q)') \in Nat
      /\ \A id : Taken(id)' <=> Taken(id) \/ id = row.id
  <2>1. RotatePrefix \in {BootPrefix, RotatePrefix} /\ NoGap /\ IdsDense
    BY DEF KeysInv
  <2> QED BY <2>1, <1>t, <1>2, <1>6, AddedInOrder
<1>8. PICK t \in Tx : t.st = "done" /\ tx' = [tx EXCEPT ![r] = t]
  BY <1>1, EndedType
<1>9. tx'[r] = t /\ \A q \in Request \ {r} : tx'[q] = tx[q] /\ ~Holds(q)
  BY <1>1, <1>8, <1>t DEF TypeOK, KeysInv, OneHolder, Holds
<1>10. TypeOK'
  BY <1>1, <1>4, <1>8, <1>t DEF TypeOK, Tx
<1>11. \A q \in Request : tx'[q].st \notin {"locked", "checked", "counted", "written"}
  BY <1>8, <1>9 DEF Holds
<1>12. OneHolder' /\ StillApart' /\ Pending'
  BY <1>11 DEF OneHolder, Holds, StillApart, Pending
<1>13. InTime'
  <2>1. \A q \in Request : InTx(q)' => tx'[q] = tx[q] /\ InTx(q)
    BY <1>8, <1>9 DEF InTx
  <2> QED BY <2>1, <1>1, <1>11 DEF KeysInv, InTime
<1>14. IdsCounted'
  <2>1. \A q : Cardinality(Rows(q)) \in Nat
    BY <1>t, RowsFinite
  <2>2. ASSUME NEW id, NEW q, Numbered(id, q) PROVE Numbered(id, q)'
    BY <1>7, <2>1, <2>2 DEF Numbered
  <2> QED BY <1>1, <1>11, <2>2 DEF KeysInv, IdsCounted
<1>15. tx[r].from <= tx[r].begun + TxMax
  <2>1. tx[r].from <= now /\ now <= tx[r].begun + TxMax
    BY <1>1, <1>5 DEF TxGood
  <2>2. tx[r].from \in Nat /\ tx[r].begun \in Nat /\ now \in Nat
    BY <1>t, KeysType DEF Tx, TypeOK
  <2> QED BY <2>1, <2>2
<1>16. StampedInTime'
  BY <1>2, <1>3, <1>4, <1>15 DEF RowAdded, KeysInv, StampedInTime
<1>17. RotationsApart'
  <2> SUFFICES ASSUME NEW i \in DOMAIN keys', NEW j \in DOMAIN keys', keys'[i].rotated, keys'[j].rotated, i < j
               PROVE  keys'[j].from >= keys'[i].from + MinForced - TxMax
    BY DEF RotationsApart
  <2>1. i \in 1..Len(keys) /\ keys'[i].from = keys[i].from /\ keys'[i].created = keys[i].created /\ keys[i].rotated
    BY <1>2, <1>4 DEF RowAdded
  <2>2. CASE j = Len(keys) + 1
    <3>1. keys'[j].from = tx[r].from
      BY <1>2, <1>3, <2>2 DEF RowAdded
    <3>2. tx[r].from >= keys[i].created + MinForced /\ keys[i].from <= keys[i].created + TxMax
      BY <1>1, <1>4, <1>5, <2>1 DEF TxGood, KeysInv, StampedInTime
    <3>3. keys[i].from \in Nat /\ keys[i].created \in Nat /\ tx[r].from \in Nat
      BY <2>1, <1>4, <1>t, KeysType DEF Row, Tx
    <3> QED BY <2>1, <3>1, <3>2, <3>3
  <2>3. CASE j \in 1..Len(keys)
    BY <2>1, <2>3, <1>2, <1>4 DEF RowAdded, KeysInv, RotationsApart
  <2> QED BY <2>2, <2>3, <1>4
<1> QED BY <1>7, <1>10, <1>12, <1>13, <1>14, <1>16, <1>17 DEF KeysInv

LEMMA TickStep ==
  ASSUME KeysInv, Tick
  PROVE  KeysInv'
<1>1. UNCHANGED <<keys, boot, tx>> /\ now' = now + 1 /\ now \in Nat
  BY DEF Tick, KeysInv, TypeOK
<1>t. TypeOK
  BY DEF KeysInv
<1>2. TypeOK'
  BY <1>1, <1>t DEF TypeOK
<1>3. OneHolder' /\ StampedInTime' /\ NoGap' /\ IdsCounted' /\ RotationsApart' /\ IdsDense' /\ Pending'
  <2>1. /\ \A prefix : Rows(prefix)' = Rows(prefix)
        /\ \A id : Taken(id)' <=> Taken(id)
    BY <1>1 DEF Rows, Taken
  <2>2. OneHolder' /\ StampedInTime' /\ RotationsApart' /\ IdsDense'
    BY <1>1 DEF KeysInv, OneHolder, Holds, StampedInTime, RotationsApart, IdsDense
  <2>3. NoGap' /\ IdsCounted' /\ Pending'
    BY <1>1, <2>1 DEF KeysInv, NoGap, IdsCounted, Pending, Numbered
  <2> QED BY <2>2, <2>3
<1>4. InTime'
  <2>1. ASSUME NEW q \in Request PROVE (InTx(q)' => tx'[q].begun <= now' /\ now' <= tx'[q].begun + TxMax)
                                        /\ (tx'[q].st \in {"counted", "written"} => tx'[q].begun <= tx'[q].from /\ tx'[q].from <= now')
    <3>1. tx[q].begun \in Nat /\ tx[q].from \in Nat
      BY <1>t, KeysType DEF Tx
    <3> QED BY <1>1, <3>1 DEF Tick, InTx, KeysInv, InTime
  <2>2. ASSUME NEW a \in Ac, boot'[a].st \in {"none", "counted"}
        PROVE  boot'[a].from <= now' /\ now' <= boot'[a].from + TxMax
    <3>1. boot[a].from \in Nat
      BY <1>t, KeysType DEF Boot
    <3> QED BY <1>1, <2>2, <3>1 DEF Tick, KeysInv, InTime
  <2> QED BY <2>1, <2>2 DEF InTime, InTx
<1>5. StillApart'
  <2> SUFFICES ASSUME NEW r \in Request, NEW k \in DOMAIN keys, keys[k].rotated
               PROVE  /\ tx[r].st = "checked" => now' >= keys[k].created + MinForced
                      /\ tx[r].st \in {"counted", "written"} => tx[r].from >= keys[k].created + MinForced
    BY <1>1 DEF StillApart
  <2>1. keys[k].created \in Nat
    BY <1>t, KeysType DEF Row
  <2> QED BY <2>1, <1>1 DEF KeysInv, StillApart
<1> QED BY <1>2, <1>3, <1>4, <1>5 DEF KeysInv

-----------------------------------------------------------------------------
(* The remaining actions, and the theorems. *)

LEMMA KeysInitInv == Init => KeysInv
<1> SUFFICES ASSUME Init PROVE KeysInv
  OBVIOUS
<1>1. TypeOK
  <2>1. NoBoot \in Boot /\ NoTx \in Tx
    BY NoBootType DEF NoTx, Tx, TxState, KeyId
  <2> QED BY <2>1 DEF Init, TypeOK, Boot, Tx
<1>2. DOMAIN keys = {}
  BY DEF Init
<1>3. (\A a \in Ac : boot[a].st = "off") /\ \A r \in Request : tx[r].st = "idle"
  BY DEF Init, NoBoot, NoTx
<1>4. \A p : Rows(p) = {} /\ Cardinality(Rows(p)) = 0
  BY <1>2, FS_EmptySet DEF Rows
<1>5. NoGap
  BY <1>4 DEF NoGap
<1>6. OneHolder /\ InTime /\ StampedInTime /\ StillApart /\ IdsCounted /\ Pending /\ RotationsApart /\ IdsDense
  BY <1>2, <1>3 DEF OneHolder, Holds, InTime, InTx, StampedInTime, StillApart, IdsCounted, Pending,
      RotationsApart, IdsDense
<1> QED BY <1>1, <1>5, <1>6 DEF KeysInv

LEMMA BootSteps ==
  ASSUME KeysInv, NEW a \in Ac, BootCheck(a) \/ BootCount(a) \/ BootFails(a) \/ Crash(a)
  PROVE  KeysInv'
<1>t. TypeOK /\ now \in Nat
  BY DEF KeysInv, TypeOK
<1>1. ASSUME BootCheck(a) PROVE KeysInv'
  <2>1. UNCHANGED <<now, keys, tx>>
    BY <1>1 DEF BootCheck
  <2>2. \/ boot' = [boot EXCEPT ![a] = [NoBoot EXCEPT !.st = "up"]]
        \/ boot' = [boot EXCEPT ![a] = [NoBoot EXCEPT !.st = "none", !.from = now]]
    BY <1>1 DEF BootCheck
  <2>3. PICK b \in Boot : /\ b.st = "up" \/ (b.st = "none" /\ b.from = now)
                          /\ boot' = [boot EXCEPT ![a] = b]
    BY <1>t, <2>2, BootUpType, BootNoneType
  <2>4. b.st \in {"none", "counted"} => b.from <= now /\ now <= b.from + TxMax
    BY <1>t, <2>3
  <2> QED BY <2>1, <2>3, <2>4, BootMoves
<1>2. ASSUME BootCount(a) PROVE KeysInv'
  <2>1. UNCHANGED <<now, keys, tx>> /\ boot[a].st = "none" /\ boot[a] \in Boot
    BY <1>2, <1>t, KeysType DEF BootCount
  <2>2. boot' = [boot EXCEPT ![a] = [boot[a] EXCEPT !.st = "counted", !.id = NextId(BootPrefix)]]
    BY <1>2 DEF BootCount
  <2>3. NextId(BootPrefix) \in KeyId /\ Numbered(NextId(BootPrefix), BootPrefix)
    BY <1>t, NextIdNumbered
  <2>4. PICK b \in Boot : /\ b.st = "counted" /\ b.from = boot[a].from /\ b.id = NextId(BootPrefix)
                          /\ boot' = [boot EXCEPT ![a] = b]
    BY <2>1, <2>2, <2>3, BootCountedType
  <2>5. b.from <= now /\ now <= b.from + TxMax
    BY <2>1, <2>4 DEF KeysInv, InTime
  <2> QED BY <2>1, <2>3, <2>4, <2>5, BootMoves
<1>3. ASSUME BootFails(a) \/ Crash(a) PROVE KeysInv'
  <2>1. boot' = [boot EXCEPT ![a] = NoBoot] /\ UNCHANGED <<now, keys, tx>>
    BY <1>3 DEF BootFails, Crash
  <2> QED BY <2>1, NoBootType, BootMoves
<1> QED BY <1>1, <1>2, <1>3

LEMMA TxSteps ==
  ASSUME KeysInv, NEW r \in Request,
         \/ \E forced \in BOOLEAN : Begin(r, forced)
         \/ Lock(r) \/ Refuse(r) \/ CheckInterval(r) \/ CountKeys(r) \/ Write(r) \/ Abort(r)
  PROVE  KeysInv'
<1>t. TypeOK /\ now \in Nat /\ tx[r] \in Tx /\ TxGood(tx[r])
  BY KeysType, TxGoodAll DEF KeysInv, TypeOK
<1>u. UNCHANGED <<now, keys, boot>>
  BY DEF Begin, Lock, Refuse, CheckInterval, CountKeys, Write, Abort
<1>1. ASSUME NEW forced \in BOOLEAN, Begin(r, forced) PROVE KeysInv'
  <2>1. \/ tx' = [tx EXCEPT ![r] = [tx[r] EXCEPT !.st = "begun", !.forced = TRUE, !.begun = now]]
        \/ tx' = [tx EXCEPT ![r] = [tx[r] EXCEPT !.st = "begun", !.forced = FALSE, !.begun = now]]
    BY <1>1 DEF Begin
  <2>2. PICK t \in Tx : t.st = "begun" /\ t.begun = now /\ tx' = [tx EXCEPT ![r] = t]
    BY <1>t, <2>1, TxBegunTrue, TxBegunFalse
  <2>3. TxGood(t)
    BY <1>t, <2>2 DEF TxGood
  <2> QED BY <1>u, <2>2, <2>3, TxMoves
<1>2. ASSUME Lock(r) PROVE KeysInv'
  <2>1. tx' = [tx EXCEPT ![r] = [tx[r] EXCEPT !.st = "locked"]] /\ tx[r].st = "begun" /\ \A q \in Request : ~Holds(q)
    BY <1>2 DEF Lock
  <2>2. PICK t \in Tx : t.st = "locked" /\ t.begun = tx[r].begun /\ tx' = [tx EXCEPT ![r] = t]
    BY <1>t, <2>1, TxState1 DEF TxState
  <2>3. TxGood(t)
    BY <1>t, <2>1, <2>2 DEF TxGood
  <2> QED BY <1>u, <2>1, <2>2, <2>3, TxMoves
<1>3. ASSUME Refuse(r) \/ Abort(r) PROVE KeysInv'
  <2>1. PICK t \in Tx : t.st \in {"refused", "failed"} /\ tx' = [tx EXCEPT ![r] = t]
    BY <1>3, EndedType DEF Refuse, Abort
  <2>2. TxGood(t)
    BY <2>1 DEF TxGood
  <2> QED BY <1>u, <2>1, <2>2, TxMoves
<1>4. ASSUME CheckInterval(r) PROVE KeysInv'
  <2>1. tx' = [tx EXCEPT ![r] = [tx[r] EXCEPT !.st = "checked"]] /\ tx[r].st = "locked" /\ ~TooSoon(r)
    BY <1>4 DEF CheckInterval
  <2>2. PICK t \in Tx : t.st = "checked" /\ t.begun = tx[r].begun /\ tx' = [tx EXCEPT ![r] = t]
    BY <1>t, <2>1, TxState1 DEF TxState
  <2>3. \A k \in DOMAIN keys : now >= keys[k].created + MinForced
    <3> TAKE k \in DOMAIN keys
    <3>1. keys[k].created \in Nat
      BY <1>t, KeysType DEF Row
    <3>2. ~(now < keys[k].created + MinInterval(r)) /\ MinInterval(r) \in {MinForced, MinNormal}
      BY <2>1 DEF TooSoon, MinInterval
    <3> QED BY <1>t, <3>1, <3>2
  <2>4. TxGood(t)
    BY <1>t, <2>1, <2>2, <2>3 DEF TxGood
  <2> QED BY <1>u, <2>1, <2>2, <2>4, TxMoves DEF Holds
<1>5. ASSUME CountKeys(r) PROVE KeysInv'
  <2>1. /\ tx' = [tx EXCEPT ![r] = [tx[r] EXCEPT !.st = "counted", !.id = NextId(RotatePrefix), !.from = now]]
        /\ tx[r].st = "checked"
    BY <1>5 DEF CountKeys
  <2>2. NextId(RotatePrefix) \in KeyId /\ Numbered(NextId(RotatePrefix), RotatePrefix)
    BY <1>t, NextIdNumbered
  <2>3. PICK t \in Tx : /\ t.st = "counted" /\ t.id = NextId(RotatePrefix) /\ t.from = now /\ t.begun = tx[r].begun
                        /\ tx' = [tx EXCEPT ![r] = t]
    <3> DEFINE i == NextId(RotatePrefix)
               t == [tx[r] EXCEPT !.st = "counted", !.id = i, !.from = now]
    <3>1. i \in KeyId /\ tx' = [tx EXCEPT ![r] = t]
      BY <2>1, <2>2
    <3> HIDE DEF i
    <3>2. t \in Tx /\ t.st = "counted" /\ t.id = i /\ t.from = now /\ t.begun = tx[r].begun
      BY <1>t, <3>1 DEF Tx, TxState
    <3> HIDE DEF t
    <3> QED BY <3>1, <3>2 DEF i
  <2>4. TxGood(t)
    BY <1>t, <2>1, <2>2, <2>3 DEF TxGood
  <2> QED BY <1>u, <2>1, <2>3, <2>4, TxMoves DEF Holds
<1>6. ASSUME Write(r) PROVE KeysInv'
  <2> DEFINE off == {k \in DOMAIN keys : keys[k].retired = None}
  <2>1. /\ tx' = [tx EXCEPT ![r] = [tx[r] EXCEPT !.st = "written", !.off = off]]
        /\ tx[r].st = "counted" /\ ~Taken(tx[r].id)
    BY <1>6 DEF Write
  <2>2. off \in SUBSET Nat
    BY <1>t, KeysType
  <2>3. PICK t \in Tx : /\ t.st = "written" /\ t.id = tx[r].id /\ t.from = tx[r].from /\ t.begun = tx[r].begun
                        /\ t.off = off /\ tx' = [tx EXCEPT ![r] = t]
    <3> HIDE DEF off
    <3> QED BY <1>t, <2>1, <2>2, TxWritten
  <2>4. TxGood(t)
    BY <1>t, <2>1, <2>3 DEF TxGood
  <2> QED BY <1>u, <2>1, <2>3, <2>4, TxMoves DEF Holds
<1> QED BY <1>1, <1>2, <1>3, <1>4, <1>5, <1>6

LEMMA KeysStepInv == KeysInv /\ [Next]_vars => KeysInv'
<1> SUFFICES ASSUME KeysInv, [Next]_vars PROVE KeysInv'
  OBVIOUS
<1>1. ASSUME UNCHANGED vars PROVE KeysInv'
  <2>1. UNCHANGED <<now, keys, boot, tx>>
    BY <1>1 DEF vars
  <2>2. /\ \A prefix : Rows(prefix)' = Rows(prefix)
        /\ \A id : Taken(id)' <=> Taken(id)
    BY <2>1 DEF Rows, Taken
  <2>3. TypeOK' /\ OneHolder' /\ InTime'
    BY <2>1 DEF KeysInv, TypeOK, OneHolder, Holds, InTime, InTx
  <2>5. StampedInTime' /\ StillApart' /\ RotationsApart' /\ IdsDense'
    BY <2>1 DEF KeysInv, StampedInTime, StillApart, RotationsApart, IdsDense
  <2>4. NoGap' /\ IdsCounted' /\ Pending'
    BY <2>1, <2>2 DEF KeysInv, NoGap, IdsCounted, Pending, Numbered
  <2> QED BY <2>3, <2>4, <2>5 DEF KeysInv
<1> QED BY <1>1, BootSteps, TxSteps, BootInsertStep, CommitStep, TickStep DEF Next

LEMMA KeysInvariant == Spec => []KeysInv
  BY KeysInitInv, KeysStepInv, PTL DEF Spec

\* The advisory lock and the primary key are enough, however replicas start and requests
\* rotate side by side: two rotations keep their distance, and the ids of each prefix are
\* unique and without a gap.
THEOREM KeysInOrderCorrect == Spec => []KeysInOrder
<1>1. KeysInv => KeysInOrder
  BY DEF KeysInv, KeysInOrder
<1> QED BY <1>1, KeysInvariant, PTL

-----------------------------------------------------------------------------
(* A key to sign with. *)

LEMMA StillSigns ==
  ASSUME KeysInv, [Next]_vars, now' = now, HasCurrent
  PROVE  HasCurrent'
<1>t. TypeOK /\ now \in Nat /\ DOMAIN keys = 1..Len(keys) /\ Len(keys) \in Nat
  BY KeysType DEF KeysInv, TypeOK
<1>1. PICK k \in DOMAIN keys : IsCurrent(keys[k])
  BY DEF HasCurrent
<1>2. ASSUME UNCHANGED keys PROVE HasCurrent'
  BY <1>2 DEF HasCurrent, IsCurrent, InWindow, ValidAt
<1>3. ASSUME NEW a \in Ac, BootInsert(a) PROVE HasCurrent'
  <2>1. PICK row : keys' = Append(keys, row)
    BY <1>3 DEF BootInsert
  <2>2. k \in DOMAIN keys' /\ keys'[k] = keys[k]
    BY <1>t, <2>1 DEF TypeOK
  <2> QED BY <1>1, <2>2 DEF HasCurrent, IsCurrent, InWindow, ValidAt
<1>4. ASSUME NEW r \in Request, Commit(r) PROVE HasCurrent'
  <2> DEFINE row == [id |-> tx[r].id, created |-> tx[r].begun, from |-> tx[r].from,
                     retired |-> None, rotated |-> TRUE]
             n == Len(keys) + 1
  <2>1. row \in Row /\ RowAdded(row)
    BY <1>4, CommittedRows
  <2>2. n \in DOMAIN keys' /\ keys'[n] = row
    BY <1>t, <2>1 DEF RowAdded
  <2>3. row.retired = None /\ row.from = tx[r].from
    OBVIOUS
  <2>4. tx[r].from <= now /\ now <= tx[r].begun + TxMax /\ tx[r].from >= tx[r].begun
    BY <1>4, TxGoodAll DEF Commit, TxGood
  <2>5. tx[r].from \in Nat /\ tx[r].begun \in Nat
    BY <1>t, KeysType DEF Tx
  <2> HIDE DEF row
  <2>6. now < row.from + Validity /\ row.from <= now
    BY <1>t, <2>3, <2>4, <2>5
  <2> QED BY <2>2, <2>3, <2>6 DEF HasCurrent, IsCurrent, InWindow, ValidAt
<1> QED BY <1>2, <1>3, <1>4 DEF Next, vars, BootCheck, BootCount, BootFails, Crash, Begin, Lock, Refuse,
        CheckInterval, CountKeys, Write, Abort, Tick

\* No rotation, start-up or failure of either takes away the last key to sign with.
THEOREM NeverKeylessCorrect == Spec => NeverKeyless
<1>1. KeysInv /\ [Next]_vars => [now' = now /\ HasCurrent => HasCurrent']_vars
  BY StillSigns
<1> QED BY <1>1, KeysInvariant, PTL DEF Spec, NeverKeyless

-----------------------------------------------------------------------------
(* The table implements the abstract key ring. *)

\* A row as the ring sees it, and the ring the table stands for.
AsKey(row) == [from |-> row.from, retired |-> row.retired, rotated |-> row.rotated]
RingOf == [k \in DOMAIN keys |-> AsKey(keys[k])]

LEMMA RingType ==
  ASSUME TypeOK
  PROVE  /\ DOMAIN RingOf = 1..Len(keys) /\ Len(keys) \in Nat /\ Len(RingOf) = Len(keys)
         /\ \A k \in 1..Len(keys) : RingOf[k] = AsKey(keys[k])
         /\ RingOf \in Seq({AsKey(row) : row \in Row})
<1>1. DOMAIN keys = 1..Len(keys) /\ Len(keys) \in Nat /\ \A k \in DOMAIN keys : keys[k] \in Row
  BY KeysType
<1>2. DOMAIN RingOf = 1..Len(keys) /\ \A k \in 1..Len(keys) : RingOf[k] = AsKey(keys[k])
  BY <1>1 DEF RingOf
<1>3. RingOf \in [1..Len(keys) -> {AsKey(row) : row \in Row}]
  BY <1>1 DEF RingOf
<1>4. RingOf \in Seq({AsKey(row) : row \in Row}) /\ Len(RingOf) = Len(keys)
  BY <1>1, <1>3
<1> QED BY <1>1, <1>2, <1>4

\* The table after a row is added, seen as a ring: the old keys, some retired, and one more.
LEMMA RingAppend ==
  ASSUME TypeOK, TypeOK', NEW row \in Row, RowAdded(row), NEW old \in Seq({AsKey(q) : q \in Row}),
         Len(old) = Len(keys), \A k \in 1..Len(keys) : old[k] = AsKey(keys'[k])
  PROVE  RingOf' = Append(old, AsKey(row))
<1> DEFINE s == Append(old, AsKey(row))
           n == Len(keys) + 1
<1>1. AsKey(row) \in {AsKey(q) : q \in Row} /\ Len(keys) \in Nat
  BY RingType
<1>2. s \in Seq({AsKey(q) : q \in Row}) /\ Len(s) = n /\ s[n] = AsKey(row) /\ \A k \in 1..Len(keys) : s[k] = old[k]
  <2> HIDE DEF AsKey
  <2> QED BY <1>1
<1>3. RingOf' \in Seq({AsKey(q) : q \in Row}) /\ Len(RingOf') = n /\ \A k \in 1..n : RingOf'[k] = AsKey(keys'[k])
  BY RingType, <1>1 DEF RowAdded, TypeOK, RingOf
<1> QED BY <1>2, <1>3 DEF RowAdded

LEMMA RingInitStep == Init => Ring!RingInit
<1> SUFFICES ASSUME Init PROVE Ring!RingInit
  OBVIOUS
<1>1. now = 0 /\ keys = <<>>
  BY DEF Init
<1>2. [k \in DOMAIN keys |-> [from |-> keys[k].from, retired |-> keys[k].retired, rotated |-> keys[k].rotated]] = <<>>
  BY <1>1
<1> QED BY <1>1, <1>2 DEF Ring!RingInit

LEMMA RingAddStep ==
  ASSUME KeysInv, NEW a \in Ac, BootInsert(a)
  PROVE  \E from \in Ring!Stamp : Ring!Add(from)
<1> DEFINE row == [id |-> boot[a].id, created |-> now, from |-> boot[a].from,
                   retired |-> None, rotated |-> FALSE]
           f == boot[a].from
<1>t. TypeOK /\ TypeOK' /\ now \in Nat /\ boot[a] \in Boot
  BY BootInsertStep, KeysType DEF KeysInv, TypeOK
<1>1. /\ boot[a].st = "counted" /\ keys' = Append(keys, row) /\ now' = now
  BY DEF BootInsert
<1>2. row \in Row /\ AsKey(row) = [from |-> f, retired |-> None, rotated |-> FALSE]
  BY <1>t DEF Row, Boot, AsKey
<1>3. f \in Nat /\ f <= now /\ now <= f + TxMax
  BY <1>t, <1>1 DEF KeysInv, InTime, Boot
<1> HIDE DEF row, f
<1>4. /\ keys' \in Seq(Row) /\ Len(keys') = Len(keys) + 1 /\ keys'[Len(keys) + 1] = row
      /\ \A k \in 1..Len(keys) : keys'[k] = keys[k]
  BY <1>1, <1>2, <1>t DEF TypeOK
<1>5. RowAdded(row)
  BY <1>4 DEF RowAdded
<1>6. /\ RingOf \in Seq({AsKey(q) : q \in Row}) /\ Len(RingOf) = Len(keys)
      /\ \A k \in 1..Len(keys) : RingOf[k] = AsKey(keys'[k])
  BY <1>4, <1>t, RingType
<1>7. RingOf' = Append(RingOf, AsKey(row))
  BY <1>2, <1>5, <1>6, <1>t, RingAppend
<1>8. RingOf' = Append(RingOf, [from |-> f, retired |-> None, rotated |-> FALSE])
  BY <1>2, <1>7
<1>9. f \in Ring!Stamp
  BY <1>3, <1>t DEF Ring!Stamp
<1> QED BY <1>1, <1>8, <1>9 DEF Ring!Add, RingOf, AsKey

LEMMA RingRotateStep ==
  ASSUME KeysInv, NEW r \in Request, Commit(r)
  PROVE  \E from \in Ring!Stamp, kept \in SUBSET DOMAIN RingOf : Ring!Rotate(from, kept)
<1> DEFINE row == [id |-> tx[r].id, created |-> tx[r].begun, from |-> tx[r].from,
                   retired |-> None, rotated |-> TRUE]
           f == tx[r].from
           kept == {k \in DOMAIN RingOf : RingOf[k].retired = None /\ k \notin tx[r].off}
           old == [k \in DOMAIN RingOf |->
                      IF RingOf[k].retired = None /\ k \notin kept
                      THEN [RingOf[k] EXCEPT !.retired = now] ELSE RingOf[k]]
<1>t. TypeOK /\ TypeOK' /\ now \in Nat /\ tx[r] \in Tx /\ TxGood(tx[r]) /\ Len(keys) \in Nat
  BY CommitStep, KeysType, TxGoodAll DEF KeysInv, TypeOK
<1>1. tx[r].st = "written" /\ now' = now
  BY DEF Commit
<1>2. /\ row \in Row /\ RowAdded(row)
      /\ \A k \in 1..Len(keys) : keys'[k].retired = IF k \in tx[r].off THEN now ELSE keys[k].retired
  BY CommittedRows
<1>3. AsKey(row) = [from |-> f, retired |-> None, rotated |-> TRUE]
  BY DEF AsKey
<1>4. f \in Nat /\ tx[r].begun \in Nat /\ f <= now /\ now <= f + TxMax
  BY <1>t, <1>1 DEF TxGood, Tx
<1>5. f \in Ring!Stamp
  BY <1>4, <1>t DEF Ring!Stamp
<1>6. /\ DOMAIN RingOf = 1..Len(keys) /\ Len(RingOf) = Len(keys) /\ \A k \in 1..Len(keys) : RingOf[k] = AsKey(keys[k])
      /\ \A k \in 1..Len(keys) : keys[k] \in Row /\ keys'[k] \in Row
  BY <1>2, <1>t, RingType, KeysType DEF RowAdded
<1>7. \A k \in DOMAIN RingOf : /\ RingOf[k].rotated = keys[k].rotated /\ RingOf[k].from = keys[k].from
                               /\ RingOf[k].retired = keys[k].retired
  BY <1>6 DEF AsKey
<1>8. \A k \in DOMAIN RingOf : RingOf[k].rotated => f >= RingOf[k].from + MinForced - TxMax
  <2> SUFFICES ASSUME NEW k \in 1..Len(keys), keys[k].rotated
               PROVE  f >= keys[k].from + MinForced - TxMax
    BY <1>6, <1>7
  <2>1. f >= keys[k].created + MinForced /\ keys[k].from <= keys[k].created + TxMax
    BY <1>1, <1>t, KeysType DEF TxGood, KeysInv, StampedInTime
  <2>2. keys[k].created \in Nat /\ keys[k].from \in Nat
    BY <1>6 DEF Row
  <2> QED BY <1>4, <2>1, <2>2
<1>9. kept \in SUBSET DOMAIN RingOf /\ \A k \in kept : ~RingOf[k].rotated
  BY <1>1, <1>t, <1>6, <1>7, KeysType DEF TxGood
<1>10. \A k \in 1..Len(keys) : old[k] = AsKey(keys'[k])
  <2> TAKE k \in 1..Len(keys)
  <2>1. keys[k].retired = None /\ k \notin kept <=> k \in tx[r].off
    BY <1>1, <1>t, <1>6, <1>7, KeysType DEF TxGood
  <2>2. /\ keys'[k].from = keys[k].from /\ keys'[k].rotated = keys[k].rotated
    BY <1>2 DEF RowAdded
  <2>3. CASE k \in tx[r].off
    <3>1. old[k] = [RingOf[k] EXCEPT !.retired = now] /\ keys'[k].retired = now
      BY <1>2, <1>6, <1>7, <2>1, <2>3
    <3> QED BY <2>2, <3>1, <1>6 DEF AsKey
  <2>4. CASE k \notin tx[r].off
    <3>1. old[k] = RingOf[k] /\ keys'[k].retired = keys[k].retired
      BY <1>2, <1>6, <1>7, <2>1, <2>4
    <3> QED BY <2>2, <3>1, <1>6 DEF AsKey
  <2> QED BY <2>3, <2>4
<1>11. old \in Seq({AsKey(q) : q \in Row}) /\ Len(old) = Len(keys)
  <2>1. DOMAIN old = 1..Len(keys)
    BY <1>6
  <2>2. old = [k \in 1..Len(keys) |-> old[k]]
    BY <2>1
  <2> HIDE DEF old
  <2>3. old \in [1..Len(keys) -> {AsKey(q) : q \in Row}]
    BY <1>6, <1>10, <2>1, <2>2
  <2> QED BY <2>3, <1>t
<1>12. RingOf' = Append(old, AsKey(row))
  <2> HIDE DEF old, row
  <2> QED BY <1>t, <1>2, <1>10, <1>11, RingAppend
<1>13. /\ RingOf' = Append(old, [from |-> f, retired |-> None, rotated |-> TRUE])
  BY <1>3, <1>12
<1>14. PICK from, stay : from = f /\ stay = kept
  OBVIOUS
<1>15. Ring!Rotate(from, stay)
  BY <1>1, <1>5, <1>8, <1>9, <1>13, <1>14 DEF Ring!Rotate, RingOf, AsKey
<1> QED BY <1>5, <1>9, <1>14, <1>15

\* Every step of the table is a step of the ring or leaves it alone.
LEMMA RingStep == KeysInv /\ [Next]_vars => [Ring!RingNext]_<<now, RingOf>>
<1> SUFFICES ASSUME KeysInv, [Next]_vars PROVE Ring!RingNext \/ UNCHANGED <<now, RingOf>>
  OBVIOUS
<1>1. ASSUME UNCHANGED <<now, keys>> PROVE UNCHANGED <<now, RingOf>>
  BY <1>1 DEF RingOf
<1>2. ASSUME Tick PROVE Ring!RingNext
  <2>1. Ring!Pass
    BY <1>2 DEF Tick, Ring!Pass
  <2> QED BY <2>1 DEF Ring!RingNext
<1>3. ASSUME NEW a \in Ac, BootInsert(a) PROVE Ring!RingNext
  BY <1>3, RingAddStep DEF Ring!RingNext
<1>4. ASSUME NEW r \in Request, Commit(r) PROVE Ring!RingNext
  BY <1>4, RingRotateStep DEF Ring!RingNext, RingOf, AsKey
<1> QED BY <1>1, <1>2, <1>3, <1>4 DEF Next, vars, BootCheck, BootCount, BootFails, Crash, Begin, Lock, Refuse,
        CheckInterval, CountKeys, Write, Abort

\* The replicas, their transactions and the table implement the ring of keys that
\* Credentials builds on: keys are only added, a rotation retires in the same step all but
\* those that a starting replica put in meanwhile, and two rotations keep their distance.
THEOREM KeyRingImplemented == Spec => ImplementsKeyRing
<1>1. KeysInv /\ [Next]_vars => [Ring!RingNext]_<<now, RingOf>>
  BY RingStep
<1> QED BY <1>1, RingInitStep, KeysInvariant, PTL DEF Spec, ImplementsKeyRing, Ring!RingSpec, RingOf, AsKey

-----------------------------------------------------------------------------
(* A service's token and a validator's cache, on top of the key ring. *)

\* The controller has a key to sign with.  Nothing in the code rotates keys by
\* itself: without a rotation within Validity this ends.
KeyAtHand == Signing # {}

Outages == since <= now /\ (~up => now <= since + MaxOutage)
KeysStamped ==
    \A k \in DOMAIN ring :
        ring[k].from <= now /\ (ring[k].retired # None => ring[k].retired <= now)

\* A token names a key that had not been retired when it signed.
Signed(t) ==
    /\ t \in Token /\ t.key \in DOMAIN ring /\ t.exp <= now + Lifetime
    /\ ring[t.key].retired # None => t.exp <= ring[t.key].retired + Lifetime

\* The task's timers, and the answer of a request under way.
TimersSet ==
    /\ tm.st # "top" => now <= tm.due
    /\ tm.st \in {"asking", "answered"} => tm.due <= now + AskMax
    /\ tm.st = "answered" => Signed(tm.got) /\ tm.due + Lifetime <= tm.got.exp + AskMax
    /\ tm.st = "backoff" => tm.due <= now + MaxBackoff

\* When the first request for the next token is due.
RefreshAt == tm.exp - Threshold

\* An outage that makes the first request fail begins while that is under way, and the
\* time of service after it is long enough for a retry.
OutageMet == IF up THEN since <= RefreshAt + AskMax + MaxOutage ELSE since <= RefreshAt + AskMax
OnTime ==
    CASE tm.st = "sleeping" -> tm.due <= RefreshAt
      [] tm.st = "top" -> now <= RefreshAt \/ (OutageMet /\ (up => now <= since + MaxBackoff))
      [] tm.st = "backoff" -> OutageMet
      [] OTHER -> \/ tm.due <= RefreshAt + AskMax
                  \/ OutageMet /\ (up => tm.due <= since + MaxBackoff + AskMax)

\* While there is a key to sign with, a failure needs an outage: so a pause that lasts
\* into a time of service began before it, and the token is replaced on time.
InPace ==
    /\ tm.st = "backoff" /\ up => tm.due <= since + MaxBackoff
    /\ token # None => OnTime

\* The token in the channel.
TokenKept ==
    token # None =>
        /\ Signed(token) /\ tm.exp \in Nat
        /\ token.exp <= tm.exp /\ tm.exp <= token.exp + AskMax

TmInv == TimersSet /\ TokenKept

\* A copy of the JWKS as it was at t.
CopyAt(copy, t) ==
    \A k \in DOMAIN ring : IF k \in copy THEN Listed(ring[k], t) ELSE Unlisted(ring[k], t)

\* A copy that is used until x is from at most lag before x.
Lags(copy, x, lag) ==
    copy \subseteq DOMAIN ring /\ \E t \in 0..now : x <= t + lag /\ CopyAt(copy, t)

CacheSound ==
    /\ cache \in [keys: SUBSET Nat, expires: Nat]
    /\ cache.expires <= now + Ttl
    /\ Lags(cache.keys, cache.expires, Ttl + FetchMax)

FetchSound(v) ==
    /\ val[v].st \in {"fetching", "answered", "refreshed"} =>
          val[v].token \in Token /\ val[v].token.key \in DOMAIN ring
    /\ val[v].st \in {"fetching", "answered"} => now <= val[v].due /\ val[v].due <= now + FetchMax
    /\ val[v].st = "answered" => Lags(val[v].keys, val[v].due, FetchMax)
    /\ val[v].st = "refreshed" => CacheSound /\ now <= cache.expires

ValInv == (cache # None => CacheSound) /\ \A v \in Validation : FetchSound(v)

CredInv == CredTypeOK /\ Outages /\ KeysStamped /\ TmInv /\ ValInv

LEMMA CredConstants ==
    /\ Validity \in Nat /\ TxMax \in Nat /\ Ttl \in Nat /\ FetchMax \in Nat /\ Lifetime \in Nat
    /\ Threshold \in Nat /\ AskMax \in Nat /\ MinBackoff \in Nat /\ MaxBackoff \in Nat
    /\ MaxOutage \in Nat /\ MinUp \in Nat /\ None \notin Nat
    /\ MinBackoff <= MaxBackoff /\ MinUp > MaxBackoff + AskMax
    /\ Threshold > MaxOutage + MaxBackoff + 3 * AskMax /\ Lifetime > Threshold
  BY KeyTimesAssumption, CredentialsAssumption

USE CredConstants

\* The task's state, with what its fields hold.
TmRec == [st: {"top", "asking", "answered", "sleeping", "backoff"}, due: Nat,
          exp: Nat \cup {None}, backoff: MinBackoff..MaxBackoff, got: Token \cup {None}]

LEMMA CredInitInv == CredInit => CredInv
<1> SUFFICES ASSUME CredInit PROVE CredInv
  OBVIOUS
<1>1. /\ DOMAIN ring = {1} /\ ring[1] = [from |-> 0, retired |-> None, rotated |-> FALSE]
      /\ ring \in Seq(Key)
  BY DEF CredInit, Key
<1>2. CredTypeOK
  BY <1>1 DEF CredInit, CredTypeOK, NoVal
<1>3. Outages /\ KeysStamped
  BY <1>1 DEF CredInit, Outages, KeysStamped
<1>4. TmInv
  BY DEF CredInit, TmInv, TimersSet, TokenKept
<1>5. ValInv
  BY DEF CredInit, ValInv, FetchSound, NoVal
<1> QED BY <1>2, <1>3, <1>4, <1>5 DEF CredInv

\* The parts depend on the variables they name.
LEMMA SignedSame ==
  ASSUME UNCHANGED <<now, ring>>, NEW t
  PROVE  Signed(t)' <=> Signed(t)
  BY DEF Signed

LEMMA TmSame ==
  ASSUME TmInv, UNCHANGED <<now, ring, up, since, token, tm>>
  PROVE  TmInv'
  BY DEF TmInv, TimersSet, TokenKept, Signed, OnTime, OutageMet, RefreshAt

LEMMA ValSame ==
  ASSUME ValInv, UNCHANGED <<now, ring, cache, val>>
  PROVE  ValInv'
  BY DEF ValInv, FetchSound, CacheSound, Lags, CopyAt

LEMMA KeyFields ==
  ASSUME CredTypeOK, NEW k \in DOMAIN ring
  PROVE  ring[k] \in Key /\ k \in Nat /\ ring[k].from \in Nat /\ ring[k].retired \in Nat \cup {None}
<1>1. ring \in Seq(Key)
  BY DEF CredTypeOK
<1>2. ring[k] \in Key /\ k \in Nat
  BY <1>1
<1> QED BY <1>2 DEF Key

LEMMA TmFields ==
  ASSUME CredTypeOK
  PROVE  /\ tm.st \in {"top", "asking", "answered", "sleeping", "backoff"} /\ tm.due \in Nat
         /\ tm.exp \in Nat \cup {None} /\ tm.backoff \in MinBackoff..MaxBackoff
         /\ tm.got \in Token \cup {None}
         /\ now \in Nat /\ since \in Nat /\ up \in BOOLEAN
         /\ tm \in TmRec
  BY DEF CredTypeOK, TmRec

\* What the steps of the token manager make of its state.
LEMMA TmMoves ==
  ASSUME NEW t \in TmRec, NEW st \in {"asking", "sleeping"}, NEW d \in Nat
  PROVE  LET r == [t EXCEPT !.st = st, !.due = d] IN
         r \in TmRec /\ r.st = st /\ r.due = d /\ r.exp = t.exp
  BY DEF TmRec

LEMMA TmRefreshed ==
  ASSUME NEW t \in TmRec, NEW e \in Nat
  PROVE  LET r == [t EXCEPT !.st = "top", !.exp = e, !.backoff = MinBackoff, !.got = None] IN
         r \in TmRec /\ r.st = "top" /\ r.exp = e
<1>1. MinBackoff \in MinBackoff..MaxBackoff
  OBVIOUS
<1> QED BY <1>1 DEF TmRec

LEMMA GoDownInv == CredInv /\ GoDown => CredInv' /\ (InPace => InPace')
<1> SUFFICES ASSUME CredInv, GoDown PROVE CredInv' /\ (InPace => InPace')
  OBVIOUS
<1> USE TmFields DEF CredInv
<1>1. /\ up /\ now >= since + MinUp /\ up' = FALSE /\ since' = now
      /\ UNCHANGED <<now, ring, token, tm, cache, val>>
  BY DEF GoDown, tmVars, valVars
<1>2. CredTypeOK'
  BY <1>1 DEF CredTypeOK
<1>3. Outages' /\ KeysStamped'
  BY <1>1 DEF Outages, KeysStamped
<1>4. ValInv'
  BY <1>1, ValSame
<1>5. TimersSet'
  BY <1>1 DEF TmInv, TimersSet, Signed
\* A retry is over before the next outage.
<1>6. ASSUME InPace, token # None PROVE OnTime'
  <2>1. OnTime /\ tm.exp \in Nat
    BY <1>6 DEF InPace, TmInv, TokenKept
  <2>2. TimersSet /\ (tm.st = "backoff" /\ up => tm.due <= since + MaxBackoff)
    BY <1>6 DEF TmInv, InPace
  <2>3. CASE tm.st = "sleeping"
    BY <1>1, <2>1, <2>3 DEF OnTime, RefreshAt
  <2>4. CASE tm.st = "top"
    BY <1>1, <2>1, <2>4 DEF OnTime, OutageMet, RefreshAt
  <2>5. CASE tm.st = "backoff"
    BY <1>1, <2>1, <2>2, <2>5 DEF TimersSet
  <2>6. CASE tm.st \in {"asking", "answered"}
    BY <1>1, <2>1, <2>2, <2>6 DEF OnTime, OutageMet, RefreshAt, TimersSet
  <2> QED BY <2>3, <2>4, <2>5, <2>6
<1>7. InPace => InPace'
  BY <1>1, <1>6 DEF InPace
<1>8. TokenKept'
  BY <1>1 DEF TmInv, TokenKept, Signed
<1> QED BY <1>2, <1>3, <1>4, <1>5, <1>7, <1>8 DEF TmInv

LEMMA ComeUpInv == CredInv /\ ComeUp => CredInv' /\ (InPace => InPace')
<1> SUFFICES ASSUME CredInv, ComeUp PROVE CredInv' /\ (InPace => InPace')
  OBVIOUS
<1> USE TmFields DEF CredInv
<1>1. /\ ~up /\ up' = TRUE /\ since' = now
      /\ UNCHANGED <<now, ring, token, tm, cache, val>>
  BY DEF ComeUp, tmVars, valVars
<1>2. CredTypeOK'
  BY <1>1 DEF CredTypeOK
<1>3. Outages' /\ KeysStamped' /\ now <= since + MaxOutage
  BY <1>1 DEF Outages, KeysStamped
<1>4. ValInv'
  BY <1>1, ValSame
<1>5. TimersSet'
  BY <1>1 DEF TmInv, TimersSet, Signed
<1>6. ASSUME InPace, token # None PROVE OnTime'
  <2>1. OnTime /\ tm.exp \in Nat
    BY <1>6 DEF InPace, TmInv, TokenKept
  <2>2. TimersSet
    BY DEF TmInv
  <2>3. CASE tm.st = "sleeping"
    BY <1>1, <2>1, <2>3 DEF OnTime, RefreshAt
  <2>4. CASE tm.st = "top"
    BY <1>1, <1>3, <2>1, <2>4 DEF OnTime, OutageMet, RefreshAt
  <2>5. CASE tm.st = "backoff"
    BY <1>1, <1>3, <2>1, <2>2, <2>5 DEF OnTime, OutageMet, RefreshAt
  <2>6. CASE tm.st \in {"asking", "answered"}
    BY <1>1, <1>3, <2>1, <2>2, <2>6 DEF OnTime, OutageMet, RefreshAt, TimersSet
  <2> QED BY <2>3, <2>4, <2>5, <2>6
<1>7. InPace => InPace'
  BY <1>1, <1>6 DEF InPace, TmInv, TimersSet
<1>8. TokenKept'
  BY <1>1 DEF TmInv, TokenKept, Signed
<1> QED BY <1>2, <1>3, <1>4, <1>5, <1>7, <1>8 DEF TmInv

\* A step of the token manager that leaves the rest alone.
LEMMA TmStep ==
  ASSUME CredInv, UNCHANGED <<now, ring, up, since, cache, val>>,
         token' \in Token \cup {None},
         tm' \in TmRec,
         TmInv'
  PROVE  CredInv'
<1>1. CredTypeOK'
  BY DEF CredInv, CredTypeOK, TmRec
<1>2. Outages' /\ KeysStamped'
  BY DEF CredInv, Outages, KeysStamped
<1>3. ValInv'
  BY ValSame DEF CredInv
<1> QED BY <1>1, <1>2, <1>3 DEF CredInv

LEMMA AskInv == CredInv /\ Ask => CredInv' /\ (InPace => InPace')
<1> SUFFICES ASSUME CredInv, Ask PROVE CredInv' /\ (InPace => InPace')
  OBVIOUS
<1> USE TmFields DEF CredInv
<1>1. /\ tm.st = "top" /\ tm' = [tm EXCEPT !.st = "asking", !.due = now + AskMax]
      /\ UNCHANGED <<now, ring, up, since, token, cache, val>>
  BY DEF Ask, valVars
<1>2. /\ tm'.st = "asking" /\ tm'.due = now + AskMax /\ tm'.exp = tm.exp
      /\ tm' \in TmRec
  <2> DEFINE d == now + AskMax
  <2>1. d \in Nat /\ tm \in TmRec /\ tm' = [tm EXCEPT !.st = "asking", !.due = d]
    BY <1>1
  <2>2. "asking" \in {"asking", "sleeping"}
    OBVIOUS
  <2>3. tm' \in TmRec /\ tm'.st = "asking" /\ tm'.due = d /\ tm'.exp = tm.exp
    <3> HIDE DEF d
    <3> QED BY ONLY <2>1, <2>2, TmMoves
  <2> QED BY <2>3
<1>3. TimersSet'
  BY <1>1, <1>2 DEF TimersSet
<1>4. ASSUME InPace, token # None PROVE OnTime'
  <2>1. OnTime /\ tm.exp \in Nat
    BY <1>4 DEF InPace, TmInv, TokenKept
  <2> QED BY <1>1, <1>2, <2>1 DEF OnTime, OutageMet, RefreshAt
<1>5. InPace => InPace'
  BY <1>1, <1>2, <1>4 DEF InPace
<1>6. TokenKept'
  BY <1>1, <1>2 DEF TmInv, TokenKept, Signed
<1> QED BY <1>1, <1>2, <1>3, <1>5, <1>6, TmStep DEF TmInv, CredTypeOK

LEMMA IssueInv == CredInv /\ Issue => CredInv' /\ (InPace => InPace')
<1> SUFFICES ASSUME CredInv, Issue PROVE CredInv' /\ (InPace => InPace')
  OBVIOUS
<1> USE TmFields DEF CredInv
<1>1. PICK k \in Signing : tm' = [tm EXCEPT !.st = "answered", !.got = [key |-> k, exp |-> now + Lifetime]]
  BY DEF Issue
<1>2. /\ tm.st = "asking" /\ up
      /\ UNCHANGED <<now, ring, up, since, token, cache, val>>
  BY DEF Issue, valVars
<1>3. k \in DOMAIN ring /\ ring[k].retired = None /\ k \in Nat
  BY KeyFields DEF Signing, Jwks, CurrentAt
<1>4. [key |-> k, exp |-> now + Lifetime] \in Token
  BY <1>3 DEF Token
<1>5. /\ tm'.st = "answered" /\ tm'.due = tm.due /\ tm'.exp = tm.exp
      /\ tm'.got = [key |-> k, exp |-> now + Lifetime]
      /\ tm' \in TmRec
  BY <1>1, <1>4 DEF TmRec
<1>6. Signed(tm.got)'
  BY <1>2, <1>3, <1>4, <1>5 DEF Signed
<1>7. TimersSet'
  BY <1>2, <1>5, <1>6 DEF TmInv, TimersSet
<1>8. ASSUME InPace, token # None PROVE OnTime'
  <2>1. OnTime /\ tm.exp \in Nat
    BY <1>8 DEF InPace, TmInv, TokenKept
  <2> QED BY <1>2, <1>5, <2>1 DEF OnTime, OutageMet, RefreshAt
<1>9. InPace => InPace'
  BY <1>2, <1>5, <1>8 DEF InPace
<1>10. TokenKept'
  BY <1>2, <1>5 DEF TmInv, TokenKept, Signed
<1> QED BY <1>2, <1>5, <1>7, <1>9, <1>10, TmStep DEF TmInv, CredTypeOK

LEMMA AcquireInv == CredInv /\ Acquire => CredInv' /\ (InPace => InPace')
<1> SUFFICES ASSUME CredInv, Acquire PROVE CredInv' /\ (InPace => InPace')
  OBVIOUS
<1> USE TmFields DEF CredInv
<1>1. /\ tm.st = "answered" /\ token' = tm.got
      /\ tm' = [tm EXCEPT !.st = "top", !.exp = now + Lifetime, !.backoff = MinBackoff, !.got = None]
      /\ UNCHANGED <<now, ring, up, since, cache, val>>
  BY DEF Acquire, valVars
<1>2. /\ tm'.st = "top" /\ tm'.exp = now + Lifetime
      /\ tm' \in TmRec
  <2>1. now + Lifetime \in Nat
    OBVIOUS
  <2> QED BY <1>1, <2>1, TmRefreshed, Zenon
<1>3. TimersSet'
  BY <1>1, <1>2 DEF TimersSet
<1>4. /\ Signed(tm.got) /\ tm.got.exp \in Nat
      /\ now <= tm.due /\ tm.due + Lifetime <= tm.got.exp + AskMax /\ tm.got.exp <= now + Lifetime
  BY <1>1 DEF TmInv, TimersSet, Signed, Token
<1>5. OnTime'
  BY <1>1, <1>2 DEF OnTime, RefreshAt
<1>6. InPace'
  BY <1>2, <1>5 DEF InPace
<1>7. TokenKept'
  BY <1>1, <1>2, <1>4 DEF TokenKept, Signed
<1> QED BY <1>1, <1>2, <1>3, <1>6, <1>7, TmStep DEF TmInv

LEMMA AskFailsInv == CredInv /\ AskFails => CredInv' /\ (InPace /\ KeyAtHand => InPace')
<1> SUFFICES ASSUME CredInv, AskFails PROVE CredInv' /\ (InPace /\ KeyAtHand => InPace')
  OBVIOUS
<1> USE TmFields DEF CredInv
<1> DEFINE longer == IF 2 * tm.backoff < MaxBackoff THEN 2 * tm.backoff ELSE MaxBackoff
<1>1. /\ tm.st \in {"asking", "answered"} /\ (KeyAtHand => ~up)
      /\ tm' = [tm EXCEPT !.st = "backoff", !.due = now + tm.backoff, !.backoff = longer, !.got = None]
      /\ UNCHANGED <<now, ring, up, since, token, cache, val>>
  BY DEF AskFails, KeyAtHand, valVars
<1>2. longer \in MinBackoff..MaxBackoff /\ tm.backoff \in Nat /\ tm.backoff <= MaxBackoff
  OBVIOUS
<1>3. /\ tm'.st = "backoff" /\ tm'.due = now + tm.backoff /\ tm'.exp = tm.exp
      /\ tm' \in TmRec
  <2> HIDE DEF longer
  <2> DEFINE d == now + tm.backoff
  <2>1. d \in Nat /\ tm \in TmRec
    BY <1>2
  <2>2. tm' \in TmRec /\ tm'.st = "backoff" /\ tm'.due = d /\ tm'.exp = tm.exp
    <3>1. tm' = [tm EXCEPT !.st = "backoff", !.due = d, !.backoff = longer, !.got = None]
      BY <1>1
    <3>2. longer \in MinBackoff..MaxBackoff
      BY <1>2
    <3> HIDE DEF d
    <3> QED BY ONLY <2>1, <3>1, <3>2 DEF TmRec
  <2> QED BY <2>2
<1>4. TimersSet'
  BY <1>1, <1>2, <1>3 DEF TimersSet
<1>5. ASSUME InPace, KeyAtHand, token # None PROVE OnTime'
  <2>1. OnTime /\ tm.exp \in Nat
    BY <1>5 DEF InPace, TmInv, TokenKept
  <2>2. now <= tm.due /\ since <= now
    BY <1>1 DEF TmInv, TimersSet, Outages
  <2> QED BY <1>1, <1>3, <1>5, <2>1, <2>2 DEF OnTime, OutageMet, RefreshAt
<1>6. InPace /\ KeyAtHand => InPace'
  BY <1>1, <1>3, <1>5 DEF InPace
<1>7. TokenKept'
  BY <1>1, <1>3 DEF TmInv, TokenKept, Signed
<1> QED BY <1>1, <1>3, <1>4, <1>6, <1>7, TmStep DEF TmInv, CredTypeOK

LEMMA SleepInv == CredInv /\ Sleep => CredInv' /\ (InPace => InPace')
<1> SUFFICES ASSUME CredInv, Sleep PROVE CredInv' /\ (InPace => InPace')
  OBVIOUS
<1> USE TmFields DEF CredInv
<1>1. /\ tm.st = "top" /\ tm.exp \in Nat /\ tm.exp - now > Threshold
      /\ tm' = [tm EXCEPT !.st = "sleeping", !.due = SleepUntil]
      /\ UNCHANGED <<now, ring, up, since, token, cache, val>>
  BY DEF Sleep, NeedsRefresh, valVars
<1>2. SleepUntil = tm.exp - Threshold /\ SleepUntil \in Nat /\ now <= SleepUntil
  BY <1>1 DEF SleepUntil
<1>3. /\ tm'.st = "sleeping" /\ tm'.due = tm.exp - Threshold /\ tm'.exp = tm.exp
      /\ tm' \in TmRec
  BY <1>1, <1>2 DEF TmRec
<1>4. TimersSet'
  BY <1>1, <1>2, <1>3 DEF TimersSet
<1>5. OnTime'
  BY <1>1, <1>3 DEF OnTime, RefreshAt
<1>6. InPace'
  BY <1>3, <1>5 DEF InPace
<1>7. TokenKept'
  BY <1>1, <1>3 DEF TmInv, TokenKept, Signed
<1> QED BY <1>1, <1>3, <1>4, <1>6, <1>7, TmStep DEF TmInv, CredTypeOK

LEMMA WakeInv == CredInv /\ Wake => CredInv' /\ (InPace => InPace')
<1> SUFFICES ASSUME CredInv, Wake PROVE CredInv' /\ (InPace => InPace')
  OBVIOUS
<1> USE TmFields DEF CredInv
<1>1. /\ tm.st \in {"sleeping", "backoff"} /\ now >= tm.due
      /\ tm' = [tm EXCEPT !.st = "top"]
      /\ UNCHANGED <<now, ring, up, since, token, cache, val>>
  BY DEF Wake, valVars
<1>2. /\ tm'.st = "top" /\ tm'.exp = tm.exp
      /\ tm' \in TmRec
  BY <1>1 DEF TmRec
<1>3. TimersSet'
  BY <1>1, <1>2 DEF TimersSet
<1>4. ASSUME InPace, token # None PROVE OnTime'
  <2>1. OnTime /\ tm.exp \in Nat
    BY <1>4 DEF InPace, TmInv, TokenKept
  <2>2. /\ tm.st # "top" => now <= tm.due
        /\ tm.st = "backoff" /\ up => tm.due <= since + MaxBackoff
    BY <1>4 DEF TmInv, TimersSet, InPace
  <2> QED BY <1>1, <1>2, <2>1, <2>2 DEF OnTime, OutageMet, RefreshAt
<1>5. InPace => InPace'
  BY <1>1, <1>2, <1>4 DEF InPace
<1>6. TokenKept'
  BY <1>1, <1>2 DEF TmInv, TokenKept, Signed
<1> QED BY <1>1, <1>2, <1>3, <1>5, <1>6, TmStep DEF TmInv, CredTypeOK

\* A key that was stamped within TxMax is added, and others may be retired now.
LEMMA AddFacts ==
  ASSUME CredInv, NEW from \in Stamp, Add(from)
  PROVE  /\ ring' \in Seq(Key) /\ now' = now
         /\ from \in Nat /\ from <= now /\ now <= from + TxMax
         /\ DOMAIN ring' = DOMAIN ring \cup {Len(ring) + 1} /\ Len(ring) + 1 \notin DOMAIN ring
         /\ ring'[Len(ring) + 1].from = from /\ ring'[Len(ring) + 1].retired = None
         /\ \A k \in DOMAIN ring : ring'[k] = ring[k]
<1> DEFINE new == [from |-> from, retired |-> None, rotated |-> FALSE]
<1>1. now \in Nat /\ ring \in Seq(Key) /\ Len(ring) \in Nat /\ DOMAIN ring = 1..Len(ring)
  BY DEF CredInv, CredTypeOK
<1>2. from \in Nat /\ from <= now /\ now <= from + TxMax
  BY <1>1 DEF Stamp
<1>3. ring' = Append(ring, new) /\ now' = now
  BY DEF Add
<1>4. new \in Key /\ new.from = from /\ new.retired = None
  BY <1>2 DEF Key
<1>5. /\ ring' \in Seq(Key) /\ Len(ring') = Len(ring) + 1
      /\ \A k \in DOMAIN ring : ring'[k] = ring[k]
      /\ ring'[Len(ring) + 1] = new
  <2> HIDE DEF new
  <2> QED BY ONLY <1>1, <1>3, <1>4, AppendProperties
<1>6. DOMAIN ring' = DOMAIN ring \cup {Len(ring) + 1} /\ Len(ring) + 1 \notin DOMAIN ring
  <2>1. DOMAIN ring' = 1..(Len(ring) + 1)
    BY <1>5
  <2>2. 1..(Len(ring) + 1) = (1..Len(ring)) \cup {Len(ring) + 1} /\ Len(ring) + 1 \notin 1..Len(ring)
    BY <1>1
  <2> QED BY <1>1, <2>1, <2>2
<1> HIDE DEF new
<1> QED BY <1>2, <1>3, <1>4, <1>5, <1>6

LEMMA RotateFacts ==
  ASSUME CredInv, NEW from \in Stamp, NEW kept, Rotate(from, kept)
  PROVE  /\ ring' \in Seq(Key) /\ now' = now
         /\ from \in Nat /\ from <= now /\ now <= from + TxMax
         /\ DOMAIN ring' = DOMAIN ring \cup {Len(ring) + 1} /\ Len(ring) + 1 \notin DOMAIN ring
         /\ ring'[Len(ring) + 1].from = from /\ ring'[Len(ring) + 1].retired = None
         /\ \A k \in DOMAIN ring :
               /\ ring'[k].from = ring[k].from
               /\ ring[k].retired # None => ring'[k].retired = ring[k].retired
               /\ ring[k].retired = None => ring'[k].retired \in {None, now}
<1> DEFINE retire(k) == IF ring[k].retired = None /\ k \notin kept THEN [ring[k] EXCEPT !.retired = now] ELSE ring[k]
           old == [k \in DOMAIN ring |-> retire(k)]
           new == [from |-> from, retired |-> None, rotated |-> TRUE]
<1>1. now \in Nat /\ ring \in Seq(Key) /\ Len(ring) \in Nat /\ DOMAIN ring = 1..Len(ring)
  BY DEF CredInv, CredTypeOK
<1>2. from \in Nat /\ from <= now /\ now <= from + TxMax
  BY <1>1 DEF Stamp
<1>3. ring' = Append(old, new) /\ now' = now
  BY DEF Rotate
<1>4. \A k \in DOMAIN ring :
        /\ retire(k) \in Key /\ retire(k).from = ring[k].from
        /\ ring[k].retired # None => retire(k).retired = ring[k].retired
        /\ ring[k].retired = None => retire(k).retired \in {None, now}
  BY <1>1, KeyFields DEF Key, CredInv
<1>5. new \in Key /\ new.from = from /\ new.retired = None
  BY <1>2 DEF Key
<1>6. old \in Seq(Key) /\ Len(old) = Len(ring) /\ \A k \in DOMAIN ring : old[k] = retire(k)
  <2> HIDE DEF retire
  <2> QED BY <1>1, <1>4
<1>7. /\ ring' \in Seq(Key) /\ Len(ring') = Len(ring) + 1
      /\ \A k \in DOMAIN ring : ring'[k] = old[k]
      /\ ring'[Len(ring) + 1] = new
  <2> HIDE DEF old, new
  <2>1. Len(old) \in Nat /\ DOMAIN ring = 1..Len(old)
    BY <1>1, <1>6
  <2>2. new \in Key /\ old \in Seq(Key) /\ Len(old) = Len(ring)
    BY <1>5, <1>6
  <2> QED BY ONLY <1>3, <2>1, <2>2, AppendProperties
<1>8. DOMAIN ring' = DOMAIN ring \cup {Len(ring) + 1} /\ Len(ring) + 1 \notin DOMAIN ring
  <2>1. DOMAIN ring' = 1..(Len(ring) + 1)
    BY <1>7
  <2>2. 1..(Len(ring) + 1) = (1..Len(ring)) \cup {Len(ring) + 1} /\ Len(ring) + 1 \notin 1..Len(ring)
    BY <1>1
  <2> QED BY <1>1, <2>1, <2>2
<1> HIDE DEF old, new, retire
<1> QED BY <1>2, <1>3, <1>4, <1>5, <1>6, <1>7, <1>8

LEMMA ChangeKeysInv == CredInv /\ ChangeKeys => CredInv' /\ (InPace => InPace')
<1> SUFFICES ASSUME CredInv, ChangeKeys PROVE CredInv' /\ (InPace => InPace')
  OBVIOUS
<1> USE TmFields DEF CredInv
<1>1. PICK from \in Stamp : Add(from) \/ \E kept \in SUBSET DOMAIN ring : Rotate(from, kept)
  BY DEF ChangeKeys
<1>2. UNCHANGED <<up, since, token, tm, cache, val>>
  BY DEF ChangeKeys, tmVars, valVars
<1> DEFINE n == Len(ring) + 1
<1>3. /\ ring' \in Seq(Key) /\ now' = now
      /\ from \in Nat /\ from <= now /\ now <= from + TxMax
      /\ DOMAIN ring' = DOMAIN ring \cup {n} /\ n \notin DOMAIN ring
      /\ ring'[n].from = from /\ ring'[n].retired = None
      /\ \A k \in DOMAIN ring :
            /\ ring'[k].from = ring[k].from
            /\ ring[k].retired # None => ring'[k].retired = ring[k].retired
            /\ ring[k].retired = None => ring'[k].retired \in {None, now}
  <2>1. CASE Add(from)
    BY <2>1, AddFacts
  <2>2. CASE \E kept \in SUBSET DOMAIN ring : Rotate(from, kept)
    BY <2>2, RotateFacts
  <2> QED BY <1>1, <2>1, <2>2
<1> HIDE DEF n
<1>4. CredTypeOK'
  BY <1>2, <1>3 DEF CredTypeOK
<1>5. Outages' /\ KeysStamped'
  <2>1. ASSUME NEW k \in DOMAIN ring'
        PROVE  ring'[k].from <= now' /\ (ring'[k].retired # None => ring'[k].retired <= now')
    <3>1. CASE k = n
      BY <1>3, <3>1
    <3>2. CASE k \in DOMAIN ring
      <4>1. ring[k].from <= now /\ (ring[k].retired # None => ring[k].retired <= now)
        BY <3>2 DEF KeysStamped
      <4>2. /\ ring'[k].from = ring[k].from /\ now' = now
            /\ ring'[k].retired = ring[k].retired \/ ring'[k].retired \in {None, now}
        BY <1>3, <3>2
      <4> QED BY <3>2, <4>1, <4>2
    <3> QED BY <1>3, <2>1, <3>1, <3>2
  <2> QED BY <1>2, <1>3, <2>1 DEF Outages, KeysStamped
<1>6. ASSUME NEW t, Signed(t) PROVE Signed(t)'
  <2>1. t \in Token /\ t.key \in DOMAIN ring /\ t.exp \in Nat /\ t.exp <= now + Lifetime
    BY <1>6 DEF Signed, Token
  <2> QED BY <1>3, <1>6, <2>1 DEF Signed
<1>7. TmInv'
  <2>1. TimersSet'
    BY <1>2, <1>3, <1>6 DEF TmInv, TimersSet
  <2>2. TokenKept'
    BY <1>2, <1>3, <1>6 DEF TmInv, TokenKept
  <2> QED BY <2>1, <2>2 DEF TmInv
\* A copy is from before the change: the new key was not committed, nor the others retired.
<1>8. ASSUME NEW copy, NEW x, NEW lag, Lags(copy, x, lag)
      PROVE  Lags(copy, x, lag)'
  <2>1. PICK t \in 0..now : x <= t + lag /\ CopyAt(copy, t)
    BY <1>8 DEF Lags
  <2>2. copy \subseteq DOMAIN ring
    BY <1>8 DEF Lags
  <2>3. t \in Nat /\ t <= now
    BY <2>1
  <2>4. ASSUME NEW k \in DOMAIN ring
        PROVE  IF k \in copy THEN Listed(ring'[k], t) ELSE Unlisted(ring'[k], t)
    <3>1. IF k \in copy THEN Listed(ring[k], t) ELSE Unlisted(ring[k], t)
      BY <2>1 DEF CopyAt
    <3>2. /\ ring'[k].from = ring[k].from
          /\ ring[k].retired # None => ring'[k].retired = ring[k].retired
          /\ ring[k].retired = None => ring'[k].retired \in {None, now}
      BY <1>3
    <3> QED BY <2>3, <3>1, <3>2, KeyFields DEF Listed, Unlisted
  <2>5. n \notin copy /\ Unlisted(ring'[n], t)
    BY <1>3, <2>2, <2>3 DEF Unlisted
  <2>6. CopyAt(copy, t)'
    BY <1>3, <2>4, <2>5 DEF CopyAt
  <2> QED BY <1>3, <2>1, <2>2, <2>6 DEF Lags
<1>9. ASSUME CacheSound PROVE CacheSound'
  BY <1>2, <1>3, <1>8, <1>9 DEF CacheSound
<1>10. ASSUME NEW v \in Validation PROVE FetchSound(v)'
  <2>1. FetchSound(v) /\ val[v].due \in Nat
    BY DEF ValInv, CredTypeOK
  <2> QED BY <1>2, <1>3, <1>8, <1>9, <2>1 DEF FetchSound
<1>11. ValInv'
  BY <1>2, <1>9, <1>10 DEF ValInv
<1>12. InPace => InPace'
  BY <1>2, <1>3 DEF InPace, OnTime, OutageMet, RefreshAt
<1> QED BY <1>4, <1>5, <1>7, <1>11, <1>12

\* Copies only get older.
LEMMA LagsLater ==
  ASSUME CredTypeOK, now' = now + 1, ring' = ring, NEW copy, NEW x, NEW lag, Lags(copy, x, lag)
  PROVE  Lags(copy, x, lag)'
<1>1. 0..now \subseteq 0..now'
  BY TmFields
<1> QED BY <1>1 DEF Lags, CopyAt

LEMMA TickInv == CredInv /\ CredTick => CredInv' /\ (InPace => InPace')
<1> SUFFICES ASSUME CredInv, CredTick PROVE CredInv' /\ (InPace => InPace')
  OBVIOUS
<1> USE TmFields DEF CredInv
<1>1. AllWait /\ now' = now + 1 /\ UNCHANGED <<ring, up, since, token, tm, cache, val>>
  BY DEF CredTick, Pass, tmVars, valVars
<1>2. CredTypeOK'
  BY <1>1 DEF CredTypeOK
<1>3. Outages'
  BY <1>1 DEF Outages, AllWait
<1>4. KeysStamped'
  BY <1>1, KeyFields DEF KeysStamped
<1>5. ASSUME NEW t, Signed(t) PROVE Signed(t)'
  BY <1>1, <1>5 DEF Signed, Token
<1>6. tm.st # "top" /\ now < tm.due
  BY <1>1 DEF AllWait
<1>7. TimersSet'
  BY <1>1, <1>5, <1>6 DEF TmInv, TimersSet
<1>8. TokenKept'
  BY <1>1, <1>5 DEF TmInv, TokenKept
<1>9. ASSUME CacheSound PROVE CacheSound'
  BY <1>1, <1>9, LagsLater DEF CacheSound
<1>10. ASSUME NEW v \in Validation PROVE FetchSound(v)'
  <2>1. FetchSound(v) /\ val[v].due \in Nat /\ val[v].st # "refreshed"
        /\ (val[v].st \in {"fetching", "answered"} => now < val[v].due)
    BY <1>1 DEF ValInv, CredTypeOK, AllWait
  <2> QED BY <1>1, <2>1, LagsLater DEF FetchSound
<1>11. ValInv'
  BY <1>1, <1>9, <1>10 DEF ValInv
<1>12. InPace => InPace'
  BY <1>1, <1>6 DEF InPace, OnTime, OutageMet, RefreshAt
<1> QED BY <1>2, <1>3, <1>4, <1>7, <1>8, <1>11, <1>12 DEF TmInv

\* The state of a validation.
ValRec == [st: {"idle", "fetching", "answered", "refreshed"} \cup Verdict,
           token: Token \cup {None}, due: Nat, keys: SUBSET Nat]

\* A step of a validation changes its own state, and perhaps replaces the cache.
LEMMA ValStep ==
  ASSUME CredInv, NEW v \in Validation, UNCHANGED <<now, ring, up, since, token, tm>>,
         cache' = cache \/ (CacheSound' /\ now <= cache'.expires),
         NEW r \in ValRec, val' = [val EXCEPT ![v] = r], FetchSound(v)'
  PROVE  CredInv'
<1>1. /\ val' \in [Validation -> ValRec] /\ val'[v] = r
      /\ \A w \in Validation \ {v} : val'[w] = val[w]
  BY DEF CredInv, CredTypeOK, ValRec
<1>2. CredTypeOK'
  <2>1. cache' \in [keys: SUBSET Nat, expires: Nat] \cup {None}
    BY DEF CredInv, CredTypeOK, CacheSound
  <2> QED BY <1>1, <2>1 DEF CredInv, CredTypeOK, ValRec
<1>3. Outages' /\ KeysStamped'
  BY DEF CredInv, Outages, KeysStamped
<1>4. TmInv'
  BY TmSame DEF CredInv
<1>5. CacheSound => CacheSound'
  BY DEF CacheSound, Lags, CopyAt
<1>6. ASSUME NEW w \in Validation \ {v} PROVE FetchSound(w)'
  <2>1. FetchSound(w) /\ val'[w] = val[w]
    BY <1>1 DEF CredInv, ValInv
  <2> QED BY <1>5, <2>1 DEF FetchSound, Lags, CopyAt
<1>7. ValInv'
  BY <1>5, <1>6 DEF CredInv, ValInv
<1> QED BY <1>2, <1>3, <1>4, <1>7 DEF CredInv

LEMMA ValFields ==
  ASSUME CredInv, NEW v \in Validation
  PROVE  /\ val[v] \in ValRec /\ FetchSound(v)
         /\ now \in Nat /\ token \in Token \cup {None}
         /\ token # None => token.key \in DOMAIN ring
  BY DEF CredInv, CredTypeOK, ValInv, ValRec, TmInv, TokenKept, Signed

\* What is over needs nothing any more.
LEMMA EndInv ==
  ASSUME CredInv, NEW v \in Validation, UNCHANGED <<now, ring, up, since, token, tm, cache>>,
         NEW r \in ValRec, r.st \in Verdict \cup {"idle"}, val' = [val EXCEPT ![v] = r]
  PROVE  CredInv'
<1>1. val'[v] = r
  BY DEF CredInv, CredTypeOK
<1>2. FetchSound(v)'
  BY <1>1 DEF FetchSound, Verdict
<1> QED BY <1>2, ValStep

LEMMA EndVal ==
  ASSUME NEW st \in Verdict
  PROVE  [NoVal EXCEPT !.st = st] \in ValRec /\ [NoVal EXCEPT !.st = st].st = st
  BY DEF NoVal, ValRec

LEMMA DecideVerdict ==
  ASSUME NEW t, NEW copy
  PROVE  Decide(t, copy) \in Verdict
  BY DEF Decide, Verdict

LEMMA PresentInv == ASSUME NEW v \in Validation PROVE CredInv /\ Present(v) => CredInv'
<1> SUFFICES ASSUME CredInv, Present(v) PROVE CredInv'
  OBVIOUS
<1>1. /\ val[v].st = "idle" /\ token # None
      /\ UNCHANGED <<now, ring, up, since, token, tm, cache>>
  BY DEF Present, tmVars
<1>2. CASE Fresh
  <2>1. val' = [val EXCEPT ![v] = [NoVal EXCEPT !.st = Decide(token, cache.keys)]]
    BY <1>2 DEF Present, End
  <2>2. Decide(token, cache.keys) \in Verdict
    BY DecideVerdict
  <2> QED BY <1>1, <2>1, <2>2, EndVal, EndInv
<1>3. CASE ~Fresh
  <2> DEFINE r == [NoVal EXCEPT !.st = "fetching", !.token = token, !.due = now + FetchMax]
  <2>1. val' = [val EXCEPT ![v] = r]
    BY <1>3 DEF Present
  <2>2. now \in Nat /\ token \in Token /\ token.key \in DOMAIN ring
    BY <1>1, ValFields
  <2>3. r \in ValRec /\ r.st = "fetching" /\ r.token = token /\ r.due = now + FetchMax
    <3> DEFINE d == now + FetchMax
    <3>1. d \in Nat
      BY <2>2
    <3>2. r = [NoVal EXCEPT !.st = "fetching", !.token = token, !.due = d]
      OBVIOUS
    <3> HIDE DEF d
    <3>3. r \in ValRec /\ r.st = "fetching" /\ r.token = token /\ r.due = d
      BY <2>2, <3>1, <3>2 DEF NoVal, ValRec
    <3> QED BY <3>3 DEF d
  <2> HIDE DEF r
  <2>4. val'[v] = r
    BY <2>1 DEF CredInv, CredTypeOK
  <2>5. FetchSound(v)'
    BY <1>1, <2>2, <2>3, <2>4 DEF FetchSound
  <2> QED BY <1>1, <2>1, <2>3, <2>5, ValStep
<1> QED BY <1>2, <1>3

LEMMA ServeJwksInv == ASSUME NEW v \in Validation PROVE CredInv /\ ServeJwks(v) => CredInv'
<1> SUFFICES ASSUME CredInv, ServeJwks(v) PROVE CredInv'
  OBVIOUS
<1> DEFINE r == [val[v] EXCEPT !.st = "answered", !.keys = Jwks]
<1>1. /\ val[v].st = "fetching" /\ val' = [val EXCEPT ![v] = r]
      /\ UNCHANGED <<now, ring, up, since, token, tm, cache>>
  BY ValFields DEF ServeJwks, tmVars, CredInv, CredTypeOK
<1>2. Jwks \subseteq Nat
  BY KeyFields DEF Jwks, CredInv
<1>3. /\ r \in ValRec /\ r.st = "answered" /\ r.keys = Jwks
      /\ r.token = val[v].token /\ r.due = val[v].due
  BY <1>2, ValFields DEF ValRec
<1> HIDE DEF r
<1>4. val'[v] = r
  BY <1>1 DEF CredInv, CredTypeOK
<1>5. Lags(Jwks, val[v].due, FetchMax)
  <2>1. now \in 0..now /\ val[v].due <= now + FetchMax
    BY <1>1, ValFields DEF FetchSound
  <2>2. ASSUME NEW k \in DOMAIN ring
        PROVE  IF k \in Jwks THEN Listed(ring[k], now) ELSE Unlisted(ring[k], now)
    BY KeyFields, ValFields DEF Jwks, CurrentAt, Listed, Unlisted, CredInv, KeysStamped
  <2>3. CopyAt(Jwks, now) /\ Jwks \subseteq DOMAIN ring
    BY <2>2 DEF CopyAt, Jwks
  <2> QED BY <2>1, <2>3 DEF Lags
<1>6. FetchSound(v)'
  <2>1. Lags(val[v].keys, val[v].due, FetchMax)'
    BY <1>1, <1>3, <1>4, <1>5 DEF Lags, CopyAt
  <2> QED BY <1>1, <1>3, <1>4, <2>1, ValFields DEF FetchSound
<1> QED BY <1>1, <1>3, <1>6, ValStep

LEMMA InstallInv == ASSUME NEW v \in Validation PROVE CredInv /\ Install(v) => CredInv'
<1> SUFFICES ASSUME CredInv, Install(v) PROVE CredInv'
  OBVIOUS
<1> DEFINE r == [val[v] EXCEPT !.st = "refreshed"]
<1>1. /\ val[v].st = "answered" /\ val' = [val EXCEPT ![v] = r]
      /\ cache' = [keys |-> val[v].keys, expires |-> now + Ttl]
      /\ UNCHANGED <<now, ring, up, since, token, tm>>
  BY ValFields DEF Install, tmVars, CredInv, CredTypeOK
<1>2. r \in ValRec /\ r.st = "refreshed" /\ r.token = val[v].token
  BY ValFields DEF ValRec
<1> HIDE DEF r
<1>3. val'[v] = r
  BY <1>1 DEF CredInv, CredTypeOK
<1>4. /\ now \in Nat /\ val[v].due \in Nat /\ val[v].keys \subseteq Nat
      /\ now <= val[v].due /\ Lags(val[v].keys, val[v].due, FetchMax)
      /\ val[v].token \in Token /\ val[v].token.key \in DOMAIN ring
  BY <1>1, ValFields DEF FetchSound, ValRec
\* The copy was fetched within FetchMax, so it may be used for Ttl more.
<1>5. Lags(val[v].keys, now + Ttl, Ttl + FetchMax)
  <2>1. PICK t \in 0..now : val[v].due <= t + FetchMax /\ CopyAt(val[v].keys, t)
    BY <1>4 DEF Lags
  <2>2. now + Ttl <= t + (Ttl + FetchMax)
    BY <1>4, <2>1
  <2> QED BY <1>4, <2>1, <2>2 DEF Lags
<1>6. CacheSound' /\ now <= cache'.expires
  <2>1. cache'.keys = val[v].keys /\ cache'.expires = now + Ttl
        /\ cache' \in [keys: SUBSET Nat, expires: Nat]
    BY <1>1, <1>4
  <2>2. Lags(cache.keys, cache.expires, Ttl + FetchMax)'
    BY <1>1, <1>5, <2>1 DEF Lags, CopyAt
  <2> QED BY <1>1, <1>4, <2>1, <2>2 DEF CacheSound
<1>7. FetchSound(v)'
  BY <1>1, <1>2, <1>3, <1>4, <1>6 DEF FetchSound
<1> QED BY <1>1, <1>2, <1>6, <1>7, ValStep

LEMMA FetchFailsInv == ASSUME NEW v \in Validation PROVE CredInv /\ FetchFails(v) => CredInv'
<1> SUFFICES ASSUME CredInv, FetchFails(v) PROVE CredInv'
  OBVIOUS
<1>1. "unavailable" \in Verdict
  BY DEF Verdict
<1> QED BY <1>1, EndVal, EndInv DEF FetchFails, End, tmVars

LEMMA LookupInv == ASSUME NEW v \in Validation PROVE CredInv /\ Lookup(v) => CredInv'
<1> SUFFICES ASSUME CredInv, Lookup(v) PROVE CredInv'
  OBVIOUS
<1>1. Decide(val[v].token, cache.keys) \in Verdict
  BY DecideVerdict
<1> QED BY <1>1, EndVal, EndInv DEF Lookup, End, tmVars

LEMMA ReturnInv == ASSUME NEW v \in Validation PROVE CredInv /\ Return(v) => CredInv'
<1> SUFFICES ASSUME CredInv, Return(v) PROVE CredInv'
  OBVIOUS
<1>1. NoVal \in ValRec /\ NoVal.st = "idle"
  BY DEF NoVal, ValRec
<1> QED BY <1>1, EndInv DEF Return, tmVars

\* The validations leave the token manager in pace.
LEMMA PaceSame == InPace /\ UNCHANGED <<now, up, since, token, tm>> => InPace'
  BY DEF InPace, OnTime, OutageMet, RefreshAt

LEMMA CredStepInv ==
  ASSUME CredInv, [CredNext]_credVars
  PROVE  CredInv' /\ (InPace /\ KeyAtHand => InPace')
<1>1. CASE UNCHANGED credVars
  <2>1. UNCHANGED <<now, ring, up, since, token, tm, cache, val>>
    BY <1>1 DEF credVars
  <2>2. TmInv' /\ ValInv' /\ (InPace => InPace')
    BY <2>1, TmSame, ValSame, PaceSame DEF CredInv
  <2> QED BY <2>1, <2>2 DEF CredInv, CredTypeOK, Outages, KeysStamped
<1>2. ASSUME NEW v \in Validation,
             Present(v) \/ ServeJwks(v) \/ Install(v) \/ FetchFails(v) \/ Lookup(v) \/ Return(v)
      PROVE  CredInv' /\ (InPace => InPace')
  <2>1. CredInv'
    BY <1>2, PresentInv, ServeJwksInv, InstallInv, FetchFailsInv, LookupInv, ReturnInv
  <2>2. UNCHANGED <<now, up, since, token, tm>>
    BY <1>2 DEF Present, ServeJwks, Install, FetchFails, Lookup, Return, tmVars
  <2> QED BY <2>1, <2>2, PaceSame
<1>3. CASE ChangeKeys \/ GoDown \/ ComeUp \/ CredTick
  BY <1>3, ChangeKeysInv, GoDownInv, ComeUpInv, TickInv
<1>4. CASE Ask \/ Issue \/ Acquire \/ AskFails \/ Sleep \/ Wake
  BY <1>4, AskInv, IssueInv, AcquireInv, AskFailsInv, SleepInv, WakeInv
<1> QED BY <1>1, <1>2, <1>3, <1>4 DEF CredNext

LEMMA CredInvUsable == CredInv /\ InPace => TokenUsable
<1> SUFFICES ASSUME CredInv, InPace PROVE TokenUsable
  OBVIOUS
<1> USE TmFields DEF CredInv
<1>1. ASSUME token # None
      PROVE  /\ now <= token.exp - Threshold + MaxOutage + MaxBackoff + 3 * AskMax
             /\ token \in Token /\ token.exp \in Nat /\ token.key \in DOMAIN ring
             /\ ring[token.key].retired # None => token.exp <= ring[token.key].retired + Lifetime
  <2>1. /\ Signed(token) /\ tm.exp \in Nat /\ token.exp <= tm.exp /\ tm.exp <= token.exp + AskMax
        /\ OnTime
    BY <1>1 DEF TmInv, TokenKept, InPace
  <2>2. token \in Token /\ token.exp \in Nat
    BY <2>1 DEF Signed, Token
  <2>3. now <= RefreshAt + 2 * AskMax + MaxOutage + MaxBackoff
    <3>1. (tm.st # "top" => now <= tm.due) /\ (tm.st = "backoff" /\ up => tm.due <= since + MaxBackoff)
      BY DEF TmInv, TimersSet, InPace
    <3>2. ~up => now <= since + MaxOutage
      BY DEF Outages
    <3> QED BY <2>1, <3>1, <3>2 DEF OnTime, OutageMet, RefreshAt
  <2> QED BY <2>1, <2>2, <2>3 DEF Signed, RefreshAt
<1>2. TokenUnexpired
  BY <1>1 DEF TokenUnexpired
<1>3. RetiredTokenReplaced
  BY <1>1, KeyFields DEF RetiredTokenReplaced
<1> QED BY <1>2, <1>3 DEF TokenUsable

\* As long as the controller has a key to sign with, a service's token is never expired
\* when it is used, and one whose key was retired is replaced in bounded time, for every
\* timing that satisfies CredentialsAssumption (token_refresh_loop).
THEOREM TokenUsableCorrect == CredSpec /\ []KeyAtHand => []TokenUsable
<1>1. CredInit => CredInv /\ InPace
  BY CredInitInv DEF CredInit, InPace
<1>2. CredInv /\ InPace /\ [CredNext]_credVars /\ KeyAtHand => (CredInv /\ InPace)'
  BY CredStepInv
<1>3. CredInv /\ InPace => TokenUsable
  BY CredInvUsable
<1> QED BY <1>1, <1>2, <1>3, PTL DEF CredSpec

\* Who decides: a validation that presents its token to a fresh copy, or one that looks
\* again after its refresh.
LEMMA DecidedBy ==
  ASSUME CredInv, CredNext, NEW v \in Validation, NEW st \in {"ok", "key_not_found"}, Decided(v, st)
  PROVE  \/ /\ val[v].st = "idle" /\ token # None /\ Fresh
            /\ st = Decide(token, cache.keys)
         \/ val[v].st = "refreshed" /\ st = Decide(val[v].token, cache.keys)
<1>1. ASSUME NEW w \in Validation,
             Present(w) \/ ServeJwks(w) \/ Install(w) \/ FetchFails(w) \/ Lookup(w) \/ Return(w)
      PROVE  w = v
  <2>1. val \in [Validation -> ValRec]
    BY DEF CredInv, CredTypeOK, ValRec
  <2>2. w # v => val'[v] = val[v]
    BY <1>1, <2>1 DEF Present, ServeJwks, Install, FetchFails, Lookup, Return, End
  <2> QED BY <2>2 DEF Decided
<1>2. ASSUME NEW verdict, End(v, verdict) PROVE verdict = st
  BY <1>2 DEF End, Decided, NoVal, CredInv, CredTypeOK
<1>3. ~UNCHANGED val
  BY DEF Decided
<1>4. CASE Present(v)
  <2>1. Fresh
    <3> SUFFICES ASSUME ~Fresh PROVE FALSE
      OBVIOUS
    <3>1. val'[v].st = "fetching"
      BY <1>4 DEF Present, NoVal, CredInv, CredTypeOK
    <3> QED BY <3>1 DEF Decided
  <2> QED BY <1>2, <1>4, <2>1 DEF Present
<1>5. CASE ServeJwks(v)
  <2>1. val'[v].st = "answered"
    BY <1>5 DEF ServeJwks, CredInv, CredTypeOK
  <2> QED BY <2>1 DEF Decided
<1>6. CASE Install(v)
  <2>1. val'[v].st = "refreshed"
    BY <1>6 DEF Install, CredInv, CredTypeOK
  <2> QED BY <2>1 DEF Decided
<1>7. CASE FetchFails(v)
  BY <1>2, <1>7 DEF FetchFails
<1>8. CASE Lookup(v)
  BY <1>2, <1>8 DEF Lookup
<1>9. CASE Return(v)
  <2>1. val'[v].st = "idle"
    BY <1>9 DEF Return, NoVal, CredInv, CredTypeOK
  <2> QED BY <2>1 DEF Decided
<1>10. CASE \/ ChangeKeys \/ GoDown \/ ComeUp \/ Ask \/ Issue \/ Acquire \/ AskFails \/ Sleep \/ Wake
            \/ CredTick
  BY <1>3, <1>10 DEF ChangeKeys, GoDown, ComeUp, Ask, Issue, Acquire, AskFails, Sleep, Wake, CredTick, valVars
<1> QED BY <1>1, <1>4, <1>5, <1>6, <1>7, <1>8, <1>9, <1>10 DEF CredNext

\* A decision is made with a copy that has not run out.
LEMMA DecidedInTime ==
  ASSUME CredInv, CredNext, NEW v \in Validation, NEW st \in {"ok", "key_not_found"}, Decided(v, st)
  PROVE  \E k \in DOMAIN ring :
            /\ KeyUsed(v) = ring[k] /\ (st = "ok" <=> k \in cache.keys)
            /\ cache.expires \in Nat /\ now <= cache.expires
            /\ Lags(cache.keys, cache.expires, Ttl + FetchMax)
<1>1. CASE val[v].st = "idle" /\ token # None /\ Fresh /\ st = Decide(token, cache.keys)
  <2>1. token.key \in DOMAIN ring /\ KeyUsed(v) = ring[token.key]
    BY <1>1, ValFields DEF KeyUsed
  <2>2. CacheSound /\ cache.expires > now
    BY <1>1 DEF Fresh, CredInv, ValInv
  <2>3. st = "ok" <=> token.key \in cache.keys
    BY <1>1 DEF Decide
  <2> QED BY <2>1, <2>2, <2>3, TmFields DEF CacheSound, CredInv
<1>2. CASE val[v].st = "refreshed" /\ st = Decide(val[v].token, cache.keys)
  <2>1. /\ val[v].token.key \in DOMAIN ring /\ KeyUsed(v) = ring[val[v].token.key]
        /\ CacheSound /\ now <= cache.expires
    BY <1>2, ValFields DEF KeyUsed, FetchSound
  <2>2. st = "ok" <=> val[v].token.key \in cache.keys
    BY <1>2 DEF Decide
  <2> QED BY <2>1, <2>2 DEF CacheSound
<1> QED BY <1>1, <1>2, DecidedBy

\* Every verdict is that of the JWKS at most the life of a cached copy and one fetch ago,
\* however many validations refresh the cache side by side, and for all additions and
\* rotations of keys (JwksClient::get_key, refresh_cache).
THEOREM VerdictsFollowJwksCorrect == CredSpec => VerdictsFollowJwks
<1>1. CredInit => CredInv
  BY CredInitInv
<1>2. CredInv /\ [CredNext]_credVars => CredInv'
  BY CredStepInv
<1>3. ASSUME CredInv, CredNext, NEW v \in Validation, NEW st \in {"ok", "key_not_found"},
             Decided(v, st)
      PROVE  \E t \in Recent : IF st = "ok" THEN Listed(KeyUsed(v), t) ELSE Unlisted(KeyUsed(v), t)
  <2>1. PICK k \in DOMAIN ring :
            /\ KeyUsed(v) = ring[k] /\ (st = "ok" <=> k \in cache.keys)
            /\ cache.expires \in Nat /\ now <= cache.expires
            /\ Lags(cache.keys, cache.expires, Ttl + FetchMax)
    BY <1>3, DecidedInTime
  <2>2. PICK t \in 0..now : cache.expires <= t + (Ttl + FetchMax) /\ CopyAt(cache.keys, t)
    BY <2>1 DEF Lags
  <2>3. t \in Recent
    BY <1>3, <2>1, <2>2, TmFields DEF Recent, CredInv
  <2> QED BY <2>1, <2>2, <2>3 DEF CopyAt
<1>4. CredInv /\ [CredNext]_credVars =>
        [\A v \in Validation :
           /\ Decided(v, "ok") => \E t \in Recent : Listed(KeyUsed(v), t)
           /\ Decided(v, "key_not_found") => \E t \in Recent : Unlisted(KeyUsed(v), t)]_credVars
  BY <1>3
<1> QED BY <1>1, <1>2, <1>4, PTL DEF CredSpec, VerdictsFollowJwks
=============================================================================
