---------------------------- MODULE AccessProofs ----------------------------
(* Proofs about the parts of the access run: the clients and the users of the *)
(* auth controller, the meeting endpoints of the global controller, the       *)
(* tokens and the checks that admit them, the developers' helper and its port *)
(* registry.  Each part has an inductive invariant of its own and one lemma   *)
(* per action.                                                                *)
EXTENDS MCAccess, FiniteSetTheorems, WellFoundedInduction, TLAPS

-----------------------------------------------------------------------------
(* The clients of the auth controller. *)

CRequest == {Idle} \cup [op: ClientOp, at: ClientAt \ {"idle"}, c: Client, secret: Nat, row: Row]
Creator(r) == r.at # "idle" /\ r.op \in {"register", "create"}

ClientsShapes ==
    /\ creds \in [Client -> Row]
    /\ trail \in [Client -> BOOLEAN]
    /\ failed \in [Client -> Nat]
    /\ creq \in [Handler -> CRequest]
    /\ secrets \in 0..MaxSecrets
    /\ told \in [Client -> SUBSET (1..secrets)] /\ lost \in [Client -> SUBSET (1..secrets)]
    /\ cfaults \in 0..MaxFaults

\* The token requests of a client that are past the check of its lockout.
Past(c) == {h \in Handler : CAt(h, {"token"}, "counted") /\ creq[h].c = c}

\* Of the attempts past the check, the last to count saw all the failures before them.
FailuresBounded ==
    \A c \in Client : failed[c] + Cardinality(Past(c)) <= MaxAttempts + Cardinality(Handler) - 1

\* A client is made by one handler, of a drawn secret, and has no row before its insert.
MadeOnce ==
    /\ \A h \in Handler : creq[h].at \in {"inserted", "logged"} => Creator(creq[h])
    /\ \A h \in Handler : Creator(creq[h]) =>
        /\ creq[h].secret \in 1..secrets /\ creq[h].at \in {"read", "inserted", "logged"}
        /\ creq[h].at = "read" => creds[creq[h].c].st = "absent"
        /\ \A g \in Handler \ {h} : Creator(creq[g]) => creq[g].c # creq[h].c

ClientsInv == ClientsShapes /\ FailuresBounded /\ MadeOnce /\ SecretKnown /\ TrailKept

USE ClientsAssumption

LEMMA CIdle == Idle \in CRequest /\ Idle.at = "idle" /\ ~Creator(Idle)
  BY DEF Idle, CRequest, Creator

LEMMA CRequestType ==
  ASSUME NEW q \in CRequest, q.at # "idle"
  PROVE  q.c \in Client /\ q.secret \in Nat /\ q.row \in Row /\ q.op \in ClientOp /\ q.at \in ClientAt
  BY DEF CRequest, Idle

\* The request of a handler goes on.
LEMMA CRequestGo ==
  ASSUME NEW r \in CRequest, r.at # "idle", NEW at \in ClientAt \ {"idle"}
  PROVE  LET q == [r EXCEPT !.at = at] IN
         /\ q \in CRequest /\ q.at = at /\ q.op = r.op /\ q.c = r.c /\ q.secret = r.secret
  BY DEF CRequest, Idle

LEMMA CPastFinite ==
  ASSUME ClientsShapes, NEW c
  PROVE  /\ IsFiniteSet(Past(c)) /\ Cardinality(Past(c)) \in Nat
         /\ Cardinality(Past(c)) <= Cardinality(Handler) /\ Cardinality(Handler) \in Nat
<1>1. Past(c) \subseteq Handler
  BY DEF Past
<1> QED BY <1>1, FS_Subset, FS_CardinalityType

LEMMA ClientsInitInv == ClientsInit => ClientsInv
<1> SUFFICES ASSUME ClientsInit PROVE ClientsInv
  OBVIOUS
<1>1. ClientsShapes
  <2>1. NoRow \in Row
    BY DEF NoRow, Row
  <2>2. creds \in [Client -> Row] /\ creq \in [Handler -> CRequest]
    BY <2>1, CIdle DEF ClientsInit
  <2> QED BY <2>2 DEF ClientsInit, ClientsShapes
<1>2. ASSUME NEW c \in Client PROVE failed[c] + Cardinality(Past(c)) <= MaxAttempts + Cardinality(Handler) - 1
  <2>1. Past(c) = {}
    BY CIdle DEF ClientsInit, Past, CAt, CBusy
  <2>2. Cardinality(Past(c)) = 0
    BY <2>1, FS_EmptySet
  <2>3. Cardinality(Handler) \in Nat \ {0}
    BY FS_EmptySet, FS_CardinalityType
  <2>4. failed[c] = 0
    BY DEF ClientsInit
  <2> QED BY <2>2, <2>3, <2>4
<1>3. MadeOnce
  BY CIdle DEF ClientsInit, MadeOnce
<1>4. SecretKnown /\ TrailKept
  BY DEF ClientsInit, SecretKnown, TrailKept, Exists, NoRow
<1> QED BY <1>1, <1>2, <1>3, <1>4 DEF ClientsInv, FailuresBounded

\* What a step of one handler must do to keep the invariant.
LEMMA CMoves ==
  ASSUME ClientsInv, NEW h \in Handler, NEW q \in CRequest, creq' = [creq EXCEPT ![h] = q],
         creds' \in [Client -> Row], trail' \in [Client -> BOOLEAN], failed' \in [Client -> Nat],
         secrets' \in 0..MaxSecrets, secrets <= secrets',
         told' \in [Client -> SUBSET (1..secrets')], lost' \in [Client -> SUBSET (1..secrets')],
         cfaults' \in 0..MaxFaults,
         \A c \in Client : told[c] \subseteq told'[c] /\ lost[c] \subseteq lost'[c],
         \A c \in Client : trail'[c] => creds'[c].st = "there",
         \A c \in Client : failed'[c] + Cardinality(Past(c)') <= MaxAttempts + Cardinality(Handler) - 1,
         q.at \in {"inserted", "logged"} => Creator(q),
         Creator(q) => /\ q.secret \in 1..secrets' /\ q.at \in {"read", "inserted", "logged"}
                       /\ q.at = "read" => creds'[q.c].st = "absent"
                       /\ \A g \in Handler \ {h} : Creator(creq[g]) => creq[g].c # q.c,
         \A c \in Client : creds[c].st = "absent" => creds'[c].st = "absent" \/ (Creator(creq[h]) /\ creq[h].c = c),
         \A c \in Client : creds'[c].st = "there" =>
            \/ creds[c].st = "there" /\ creds'[c].secret = creds[c].secret
            \/ creds'[c].secret \in told'[c] \cup lost'[c]
            \/ Creator(q) /\ q.c = c /\ q.secret = creds'[c].secret,
         Creator(creq[h]) /\ creq[h].at # "read" =>
            \/ creq[h].secret \in told'[creq[h].c] \cup lost'[creq[h].c]
            \/ Creator(q) /\ q.c = creq[h].c /\ q.secret = creq[h].secret
  PROVE  ClientsInv'
<1>1. ClientsShapes'
  BY DEF ClientsInv, ClientsShapes
<1>2. \A g \in Handler : creq'[g] = (IF g = h THEN q ELSE creq[g])
  BY DEF ClientsInv, ClientsShapes
<1>3. FailuresBounded'
  BY DEF FailuresBounded
<1>4. MadeOnce'
  <2>1. \A g \in Handler : creq'[g].at \in {"inserted", "logged"} => Creator(creq'[g])
    BY <1>2 DEF ClientsInv, MadeOnce
  <2>2. ASSUME NEW g \in Handler, Creator(creq'[g])
        PROVE  /\ creq'[g].secret \in 1..secrets' /\ creq'[g].at \in {"read", "inserted", "logged"}
               /\ creq'[g].at = "read" => creds'[creq'[g].c].st = "absent"
               /\ \A k \in Handler \ {g} : Creator(creq'[k]) => creq'[k].c # creq'[g].c
    <3>1. CASE g = h
      BY <1>2, <2>2, <3>1
    <3>2. CASE g # h
      <4>1. creq'[g] = creq[g] /\ Creator(creq[g])
        BY <1>2, <2>2, <3>2
      <4>2. creq[g].c \in Client
        BY <4>1, CRequestType DEF ClientsInv, ClientsShapes, Creator
      <4>3. /\ creq[g].secret \in 1..secrets /\ creq[g].at \in {"read", "inserted", "logged"}
            /\ creq[g].at = "read" => creds[creq[g].c].st = "absent"
            /\ \A k \in Handler \ {g} : Creator(creq[k]) => creq[k].c # creq[g].c
        BY <4>1 DEF ClientsInv, MadeOnce
      <4>4. creq[g].secret \in 1..secrets'
        BY <4>3 DEF ClientsInv, ClientsShapes
      <4>5. creq[g].at = "read" => creds'[creq[g].c].st = "absent"
        BY <3>2, <4>2, <4>3
      <4>6. \A k \in Handler \ {g} : Creator(creq'[k]) => creq'[k].c # creq[g].c
        BY <1>2, <3>2, <4>1, <4>3
      <4> QED BY <4>1, <4>3, <4>4, <4>5, <4>6
    <3> QED BY <3>1, <3>2
  <2> QED BY <2>1, <2>2 DEF MadeOnce, Creator
<1>5. SecretKnown'
  <2> SUFFICES ASSUME NEW c \in Client, creds'[c].st = "there"
               PROVE  \/ creds'[c].secret \in told'[c] \cup lost'[c]
                      \/ \E g \in Handler : Creator(creq'[g]) /\ creq'[g].c = c /\ creq'[g].secret = creds'[c].secret
    BY DEF SecretKnown, Exists, CAt, CBusy, Creator
  <2>1. CASE creds[c].st = "there" /\ creds'[c].secret = creds[c].secret
    <3>1. CASE creds[c].secret \in told[c] \cup lost[c]
      BY <2>1, <3>1
    <3>2. CASE \E g \in Handler : Creator(creq[g]) /\ creq[g].c = c /\ creq[g].secret = creds[c].secret
      <4>1. PICK g \in Handler : Creator(creq[g]) /\ creq[g].c = c /\ creq[g].secret = creds[c].secret
        BY <3>2
      <4>2. CASE g # h
        BY <1>2, <2>1, <4>1, <4>2
      <4>3. CASE g = h
        <5>1. creq[h].at # "read"
          BY <2>1, <4>1, <4>3 DEF ClientsInv, MadeOnce
        <5>2. CASE creq[h].secret \in told'[creq[h].c] \cup lost'[creq[h].c]
          BY <2>1, <4>1, <4>3, <5>2
        <5>3. CASE Creator(q) /\ q.c = creq[h].c /\ q.secret = creq[h].secret
          BY <1>2, <2>1, <4>1, <4>3, <5>3
        <5> QED BY <4>1, <4>3, <5>1, <5>2, <5>3
      <4> QED BY <4>2, <4>3
    <3>3. \/ creds[c].secret \in told[c] \cup lost[c]
          \/ \E g \in Handler : Creator(creq[g]) /\ creq[g].c = c /\ creq[g].secret = creds[c].secret
      BY <2>1 DEF ClientsInv, SecretKnown, Exists, CAt, CBusy, Creator
    <3> QED BY <3>1, <3>2, <3>3
  <2>2. CASE creds'[c].secret \in told'[c] \cup lost'[c]
    BY <2>2
  <2>3. CASE Creator(q) /\ q.c = c /\ q.secret = creds'[c].secret
    BY <1>2, <2>3
  <2> QED BY <2>1, <2>2, <2>3
<1>6. TrailKept'
  BY DEF TrailKept, Exists
<1> QED BY <1>1, <1>3, <1>4, <1>5, <1>6 DEF ClientsInv

\* The bound where no failure is added and nobody passes the check.
LEMMA CBoundKept ==
  ASSUME ClientsInv, NEW h \in Handler, NEW q \in CRequest, creq' = [creq EXCEPT ![h] = q],
         q.at = "counted" => q = creq[h],
         NEW c \in Client, failed' \in [Client -> Nat], failed'[c] <= failed[c]
  PROVE  failed'[c] + Cardinality(Past(c)') <= MaxAttempts + Cardinality(Handler) - 1
<1>1. \A g \in Handler : creq'[g] = (IF g = h THEN q ELSE creq[g])
  BY DEF ClientsInv, ClientsShapes
<1>2. Past(c)' \subseteq Past(c)
  BY <1>1 DEF Past, CAt, CBusy
<1>3. IsFiniteSet(Past(c)) /\ Cardinality(Past(c)) \in Nat /\ Cardinality(Handler) \in Nat
  BY CPastFinite DEF ClientsInv
<1>4. Cardinality(Past(c)') \in Nat /\ Cardinality(Past(c)') <= Cardinality(Past(c))
  BY <1>2, <1>3, FS_Subset, FS_CardinalityType
<1>5. failed[c] + Cardinality(Past(c)) <= MaxAttempts + Cardinality(Handler) - 1 /\ failed[c] \in Nat
  BY DEF ClientsInv, FailuresBounded, ClientsShapes
<1>6. failed'[c] \in Nat
  OBVIOUS
<1> QED BY <1>3, <1>4, <1>5, <1>6

LEMMA CTypes ==
  ASSUME ClientsInv
  PROVE  /\ creds \in [Client -> Row] /\ trail \in [Client -> BOOLEAN] /\ failed \in [Client -> Nat]
         /\ creq \in [Handler -> CRequest] /\ secrets \in 0..MaxSecrets /\ secrets \in Nat
         /\ told \in [Client -> SUBSET (1..secrets)] /\ lost \in [Client -> SUBSET (1..secrets)]
         /\ cfaults \in 0..MaxFaults
         /\ \A c \in Client : trail[c] => creds[c].st = "there"
  BY DEF ClientsInv, ClientsShapes, TrailKept, Exists

\* A step that touches no row, or only its log.
LEMMA CRequestMoves ==
  ASSUME ClientsInv, NEW h \in Handler, NEW q \in CRequest, creq' = [creq EXCEPT ![h] = q],
         UNCHANGED <<creds, secrets>>,
         trail' \in [Client -> BOOLEAN], failed' \in [Client -> Nat], cfaults' \in 0..MaxFaults,
         told' \in [Client -> SUBSET (1..secrets)], lost' \in [Client -> SUBSET (1..secrets)],
         \A c \in Client : told[c] \subseteq told'[c] /\ lost[c] \subseteq lost'[c],
         \A c \in Client : trail'[c] => creds[c].st = "there",
         \A c \in Client : failed'[c] + Cardinality(Past(c)') <= MaxAttempts + Cardinality(Handler) - 1,
         q.at \in {"inserted", "logged"} => Creator(q),
         Creator(q) => /\ Creator(creq[h]) /\ q.c = creq[h].c /\ q.secret = creq[h].secret
                       /\ q.at \in {"inserted", "logged"},
         Creator(creq[h]) /\ creq[h].at # "read" =>
            \/ creq[h].secret \in told'[creq[h].c] \cup lost'[creq[h].c]
            \/ Creator(q) /\ q.c = creq[h].c /\ q.secret = creq[h].secret
  PROVE  ClientsInv'
<1>1. creds' \in [Client -> Row] /\ secrets' \in 0..MaxSecrets /\ secrets <= secrets' /\ creds' = creds /\ secrets' = secrets
  BY CTypes
<1>2. Creator(q) => /\ q.secret \in 1..secrets' /\ q.at \in {"read", "inserted", "logged"}
                    /\ q.at = "read" => creds'[q.c].st = "absent"
                    /\ \A g \in Handler \ {h} : Creator(creq[g]) => creq[g].c # q.c
  BY <1>1 DEF ClientsInv, MadeOnce
<1>3. told' \in [Client -> SUBSET (1..secrets')] /\ lost' \in [Client -> SUBSET (1..secrets')]
  BY <1>1
<1> QED BY <1>1, <1>2, <1>3, CMoves

\* A step that only changes the request, of a handler that made no row.
LEMMA COnlyRequest ==
  ASSUME ClientsInv, NEW h \in Handler, NEW q \in CRequest, creq' = [creq EXCEPT ![h] = q],
         UNCHANGED <<creds, trail, failed, secrets, told, lost, cfaults>>,
         \A c \in Client : failed'[c] + Cardinality(Past(c)') <= MaxAttempts + Cardinality(Handler) - 1,
         ~Creator(q), q.at \notin {"inserted", "logged"}, Creator(creq[h]) => creq[h].at = "read"
  PROVE  ClientsInv'
<1>1. /\ trail' \in [Client -> BOOLEAN] /\ failed' \in [Client -> Nat] /\ cfaults' \in 0..MaxFaults
      /\ told' \in [Client -> SUBSET (1..secrets)] /\ lost' \in [Client -> SUBSET (1..secrets)]
      /\ \A c \in Client : trail'[c] => creds[c].st = "there"
  BY CTypes
<1>2. \A c \in Client : told[c] \subseteq told'[c] /\ lost[c] \subseteq lost'[c]
  OBVIOUS
<1> QED BY <1>1, <1>2, CRequestMoves

\* The same when it neither adds a failure nor passes the check.
LEMMA COnlyRequestOff ==
  ASSUME ClientsInv, NEW h \in Handler, NEW q \in CRequest, creq' = [creq EXCEPT ![h] = q],
         UNCHANGED <<creds, trail, failed, secrets, told, lost, cfaults>>,
         q.at \notin {"counted", "inserted", "logged"},
         ~Creator(q), Creator(creq[h]) => creq[h].at = "read"
  PROVE  ClientsInv'
<1>1. failed \in [Client -> Nat] /\ failed' = failed
  BY CTypes
<1>2. failed' \in [Client -> Nat] /\ \A c \in Client : failed'[c] <= failed[c]
  BY <1>1
<1>3. \A c \in Client : failed'[c] + Cardinality(Past(c)') <= MaxAttempts + Cardinality(Handler) - 1
  BY <1>2, CBoundKept
<1> QED BY <1>3, COnlyRequest

LEMMA CTokenReads ==
  ASSUME ClientsInv, NEW h \in Handler, NEW c \in Client, NEW s \in 0..MaxSecrets, TokenRead(h, c, s)
  PROVE  ClientsInv'
<1>1. creds[c] \in Row
  BY CTypes
<1>2. PICK q : q = [op |-> "token", at |-> "read", c |-> c, secret |-> s, row |-> creds[c]]
  OBVIOUS
<1>3. q \in CRequest /\ q.at = "read" /\ ~Creator(q)
  BY <1>1, <1>2 DEF CRequest, ClientOp, ClientAt, Creator
<1>4. ~CBusy(h) /\ creq' = [creq EXCEPT ![h] = q] /\ UNCHANGED <<creds, trail, failed, secrets, told, lost, cfaults>>
  BY <1>2 DEF TokenRead, CStart
<1> QED BY <1>3, <1>4, COnlyRequestOff DEF CBusy, Creator

LEMMA CTokenCounts ==
  ASSUME ClientsInv, NEW h \in Handler, TokenCount(h)
  PROVE  ClientsInv'
<1>1. PICK r : r = creq[h]
  OBVIOUS
<1>2. r \in CRequest /\ r.at = "read" /\ r.op = "token" /\ ~Creator(r)
  BY <1>1, CTypes DEF TokenCount, CAt, Creator
<1>3. CASE creq[h].row.st = "there" /\ ~Locked(creq[h].c)
  <2>1. PICK q : q = [r EXCEPT !.at = "counted"]
    OBVIOUS
  <2>2. q \in CRequest /\ q.at = "counted" /\ q.op = r.op /\ q.c = r.c
    BY <1>2, <2>1, CRequestGo DEF ClientAt
  <2>3. creq' = [creq EXCEPT ![h] = q] /\ UNCHANGED <<creds, trail, failed, secrets, told, lost, cfaults>>
    BY <1>1, <1>3, <2>1, CTypes DEF TokenCount, CGo
  <2>4. ~Creator(q)
    BY <1>2, <2>2 DEF Creator
  <2>5. \A g \in Handler : creq'[g] = (IF g = h THEN q ELSE creq[g])
    BY <2>3, CTypes
  <2>6. ASSUME NEW c \in Client
        PROVE failed'[c] + Cardinality(Past(c)') <= MaxAttempts + Cardinality(Handler) - 1
    <3>1. /\ IsFiniteSet(Past(c)) /\ Cardinality(Past(c)) \in Nat /\ Cardinality(Handler) \in Nat
      BY CPastFinite DEF ClientsInv
    <3>2. failed[c] \in Nat /\ failed'[c] = failed[c]
      BY <2>3, CTypes
    <3>3. failed[c] + Cardinality(Past(c)) <= MaxAttempts + Cardinality(Handler) - 1
      BY DEF ClientsInv, FailuresBounded
    <3>4. CASE c = r.c
      <4>1. failed[c] < MaxAttempts
        BY <1>1, <1>3, <3>2, <3>4 DEF Locked
      <4>2. Past(c)' \subseteq Handler
        BY DEF Past
      <4>3. Cardinality(Past(c)') \in Nat /\ Cardinality(Past(c)') <= Cardinality(Handler)
        BY <4>2, FS_Subset, FS_CardinalityType
      <4> QED BY <3>1, <3>2, <4>1, <4>3
    <3>5. CASE c # r.c
      <4>1. Past(c)' \subseteq Past(c)
        BY <2>2, <2>5, <3>5 DEF Past, CAt, CBusy
      <4>2. Cardinality(Past(c)') \in Nat /\ Cardinality(Past(c)') <= Cardinality(Past(c))
        BY <3>1, <4>1, FS_Subset, FS_CardinalityType
      <4> QED BY <3>1, <3>2, <3>3, <4>2
    <3> QED BY <3>4, <3>5
  <2> QED BY <1>1, <1>2, <2>2, <2>3, <2>4, <2>6, COnlyRequest
<1>4. CASE ~(creq[h].row.st = "there" /\ ~Locked(creq[h].c))
  <2>1. creq' = [creq EXCEPT ![h] = Idle] /\ UNCHANGED <<creds, trail, failed, secrets, told, lost, cfaults>>
    BY <1>4 DEF TokenCount, CAnswer
  <2> QED BY <1>1, <1>2, <2>1, CIdle, COnlyRequestOff
<1> QED BY <1>3, <1>4

LEMMA CTokenScopes ==
  ASSUME ClientsInv, NEW h \in Handler, NEW asked, TokenScopes(h, asked)
  PROVE  ClientsInv'
<1>1. PICK r : r = creq[h]
  OBVIOUS
<1>2. r \in CRequest /\ r.at # "idle" /\ r.op = "token" /\ ~Creator(r)
  BY <1>1, CTypes DEF TokenScopes, CAt, CBusy, Creator
<1>3. PICK q : q = [r EXCEPT !.at = "valid"]
  OBVIOUS
<1>4. q \in CRequest /\ q.at = "valid" /\ ~Creator(q)
  BY <1>2, <1>3, CRequestGo DEF ClientAt, Creator
<1>5. /\ creq' = [creq EXCEPT ![h] = q] \/ creq' = [creq EXCEPT ![h] = Idle]
      /\ UNCHANGED <<creds, trail, failed, secrets, told, lost, cfaults>>
  BY <1>1, <1>3, CTypes DEF TokenScopes, CGo, CAnswer
<1> QED BY <1>1, <1>2, <1>4, <1>5, CIdle, COnlyRequestOff

\* log_event of a success.
LEMMA CLogged ==
  ASSUME ClientsInv, NEW c \in Client, CLogOrNot(c, 0)
  PROVE  /\ trail' \in [Client -> BOOLEAN] /\ cfaults' \in 0..MaxFaults /\ failed' = failed
         /\ \A d \in Client : trail'[d] => creds[d].st = "there"
<1>1. cfaults' \in 0..MaxFaults
  BY CTypes DEF CLogOrNot, CFault
<1>2. failed' = failed
  BY CTypes DEF CLogOrNot, CLog
<1>3. trail' \in [Client -> BOOLEAN]
  BY CTypes DEF CLogOrNot, CLog
<1>4. \A d \in Client : trail'[d] => creds[d].st = "there"
  BY CTypes DEF CLogOrNot, CLog, Exists
<1> QED BY <1>1, <1>2, <1>3, <1>4

LEMMA CTokenIssues ==
  ASSUME ClientsInv, NEW h \in Handler, TokenIssue(h)
  PROVE  ClientsInv'
<1>1. creq[h] \in CRequest /\ creq[h].at # "idle" /\ ~Creator(creq[h])
  BY CTypes DEF TokenIssue, CAt, CBusy, Creator
<1>2. PICK c \in Client : c = creq[h].c
  BY <1>1, CRequestType
<1>3. CLogOrNot(c, 0) /\ creq' = [creq EXCEPT ![h] = Idle] /\ UNCHANGED <<creds, secrets, told, lost>>
  BY <1>2 DEF TokenIssue, CAnswer
<1>4. /\ trail' \in [Client -> BOOLEAN] /\ cfaults' \in 0..MaxFaults /\ failed' = failed
      /\ \A d \in Client : trail'[d] => creds[d].st = "there"
  BY <1>3, CLogged
<1>5. failed' \in [Client -> Nat] /\ \A d \in Client : failed'[d] <= failed[d]
  BY <1>4, CTypes
<1>6. \A d \in Client : failed'[d] + Cardinality(Past(d)') <= MaxAttempts + Cardinality(Handler) - 1
  BY <1>3, <1>5, CIdle, CBoundKept
<1>7. /\ told' \in [Client -> SUBSET (1..secrets)] /\ lost' \in [Client -> SUBSET (1..secrets)]
      /\ \A d \in Client : told[d] \subseteq told'[d] /\ lost[d] \subseteq lost'[d]
  BY <1>3, CTypes
<1> QED BY <1>1, <1>3, <1>4, <1>5, <1>6, <1>7, CIdle, CRequestMoves

LEMMA CTokenRefuses ==
  ASSUME ClientsInv, NEW h \in Handler, TokenRefuse(h)
  PROVE  ClientsInv'
<1>1. creq[h] \in CRequest /\ creq[h].at # "idle" /\ ~Creator(creq[h]) /\ CAt(h, {"token"}, "counted")
  BY CTypes DEF TokenRefuse, CAt, CBusy, Creator
<1>2. PICK c \in Client : c = creq[h].c
  BY <1>1, CRequestType
<1>3. CLogOrNot(c, 1) /\ creq' = [creq EXCEPT ![h] = Idle] /\ UNCHANGED <<creds, secrets, told, lost>>
  BY <1>2 DEF TokenRefuse, CAnswer
<1>4. cfaults' \in 0..MaxFaults
  BY <1>3, CTypes DEF CLogOrNot, CFault
<1>a. trail' \in [Client -> BOOLEAN]
  BY <1>3, CTypes DEF CLogOrNot, CLog
<1>b. failed' \in [Client -> Nat]
  BY <1>3, CTypes DEF CLogOrNot, CLog
<1>5. trail' \in [Client -> BOOLEAN] /\ failed' \in [Client -> Nat]
  BY <1>a, <1>b
<1>6. \A d \in Client : trail'[d] => creds[d].st = "there"
  BY <1>3, CTypes DEF CLogOrNot, CLog, Exists
<1>7. \A d \in Client : failed'[d] <= failed[d] + (IF d = c THEN 1 ELSE 0)
  BY <1>3, CTypes DEF CLogOrNot, CLog
<1>8. \A g \in Handler : creq'[g] = (IF g = h THEN Idle ELSE creq[g])
  BY <1>3, CTypes
<1>9. ASSUME NEW d \in Client
      PROVE failed'[d] + Cardinality(Past(d)') <= MaxAttempts + Cardinality(Handler) - 1
  <2>1. IsFiniteSet(Past(d)) /\ Cardinality(Past(d)) \in Nat /\ Cardinality(Handler) \in Nat
    BY CPastFinite DEF ClientsInv
  <2>2. failed[d] + Cardinality(Past(d)) <= MaxAttempts + Cardinality(Handler) - 1
    BY DEF ClientsInv, FailuresBounded
  <2>3. failed[d] \in Nat /\ failed'[d] \in Nat
    BY <1>5, CTypes
  <2>4. CASE d = c
    <3>1. Past(d)' = Past(d) \ {h} /\ h \in Past(d)
      BY <1>1, <1>2, <1>8, <2>4, CIdle DEF Past, CAt, CBusy
    <3>2. Cardinality(Past(d)') = Cardinality(Past(d)) - 1
      <4>1. Cardinality(Past(d) \ {h}) = Cardinality(Past(d)) - 1
        BY <2>1, <3>1, FS_RemoveElement
      <4> QED BY <3>1, <4>1
    <3>3. failed'[d] <= failed[d] + 1
      BY <1>7, <2>4
    <3> QED BY <2>1, <2>2, <2>3, <3>2, <3>3
  <2>5. CASE d # c
    <3>1. failed'[d] <= failed[d] + 0
      BY <1>7, <2>5
    <3>2. failed'[d] <= failed[d]
      BY <2>3, <3>1
    <3> QED BY <1>3, <1>5, <3>2, CIdle, CBoundKept
  <2> QED BY <2>4, <2>5
<1>10. /\ told' \in [Client -> SUBSET (1..secrets)] /\ lost' \in [Client -> SUBSET (1..secrets)]
       /\ \A d \in Client : told[d] \subseteq told'[d] /\ lost[d] \subseteq lost'[d]
  BY <1>3, CTypes
<1> QED BY <1>1, <1>3, <1>4, <1>5, <1>6, <1>9, <1>10, CIdle, CRequestMoves

LEMMA CLoses ==
  ASSUME ClientsInv, NEW c \in Client, NEW s \in 1..secrets, Lose(c, s)
  PROVE  lost' \in [Client -> SUBSET (1..secrets)] /\ s \in lost'[c] /\ \A d \in Client : lost[d] \subseteq lost'[d]
  BY CTypes DEF Lose

LEMMA CTells ==
  ASSUME ClientsInv, NEW c \in Client, NEW s \in 1..secrets, Tell(c, s)
  PROVE  told' \in [Client -> SUBSET (1..secrets)] /\ s \in told'[c] /\ \A d \in Client : told[d] \subseteq told'[d]
  BY CTypes DEF Tell

\* A handler ends; one that made a row has told or lost its secret.
LEMMA CEnds ==
  ASSUME ClientsInv, NEW h \in Handler, creq' = [creq EXCEPT ![h] = Idle],
         UNCHANGED <<creds, trail, failed, secrets>>, cfaults' \in 0..MaxFaults,
         told' \in [Client -> SUBSET (1..secrets)], lost' \in [Client -> SUBSET (1..secrets)],
         \A c \in Client : told[c] \subseteq told'[c] /\ lost[c] \subseteq lost'[c],
         Creator(creq[h]) /\ creq[h].at # "read" => creq[h].secret \in told'[creq[h].c] \cup lost'[creq[h].c]
  PROVE  ClientsInv'
<1>1. failed \in [Client -> Nat] /\ failed' = failed
  BY CTypes
<1>2. failed' \in [Client -> Nat] /\ \A c \in Client : failed'[c] <= failed[c]
  BY <1>1
<1>3. \A c \in Client : failed'[c] + Cardinality(Past(c)') <= MaxAttempts + Cardinality(Handler) - 1
  BY <1>2, CIdle, CBoundKept
<1>4. trail' \in [Client -> BOOLEAN] /\ \A c \in Client : trail'[c] => creds[c].st = "there"
  BY CTypes
<1> QED BY <1>2, <1>3, <1>4, CIdle, CRequestMoves

LEMMA CFailsOrDrops ==
  ASSUME ClientsInv, NEW h \in Handler, CCallFails(h) \/ CDrop(h)
  PROVE  ClientsInv'
<1>1. PICK r : r = creq[h]
  OBVIOUS
<1>2. r \in CRequest /\ r.at # "idle" /\ r.c \in Client
  BY <1>1, CTypes, CRequestType DEF CCallFails, CDrop, CBusy
<1>3. Creator(r) => r.secret \in 1..secrets /\ r.at \in {"read", "inserted", "logged"}
  BY <1>1 DEF ClientsInv, MadeOnce
<1>4. r.at \in {"inserted", "logged"} => Creator(r)
  BY <1>1 DEF ClientsInv, MadeOnce
<1>5. /\ creq' = [creq EXCEPT ![h] = Idle] /\ UNCHANGED <<creds, trail, failed, secrets>>
      /\ told' = told
  BY DEF CCallFails, CDrop, CAnswer
<1>6. cfaults' \in 0..MaxFaults
  BY CTypes DEF CCallFails, CDrop, CFault
<1>7. Creator(r) /\ r.at # "read" => Lose(r.c, r.secret)
  BY <1>1, <1>3 DEF CCallFails, CDrop, Creator
<1>8. ~(Creator(r) /\ r.at # "read") => lost' = lost
  BY <1>1, <1>4 DEF CCallFails, CDrop, Creator
<1>9. /\ lost' \in [Client -> SUBSET (1..secrets)] /\ \A c \in Client : lost[c] \subseteq lost'[c]
      /\ Creator(r) /\ r.at # "read" => r.secret \in lost'[r.c]
  <2>1. CASE Creator(r) /\ r.at # "read"
    BY <1>2, <1>3, <1>7, <2>1, CLoses
  <2>2. CASE ~(Creator(r) /\ r.at # "read")
    BY <1>8, <2>2, CTypes
  <2> QED BY <2>1, <2>2
<1>10. told' \in [Client -> SUBSET (1..secrets)] /\ \A c \in Client : told[c] \subseteq told'[c]
  BY <1>5, CTypes
<1> QED BY <1>1, <1>5, <1>6, <1>9, <1>10, CEnds

LEMMA CCreateKind ==
  ASSUME ClientsInv, NEW h \in Handler, NEW at, CAt(h, {"register", "create"}, at)
  PROVE  /\ creq[h] \in CRequest /\ creq[h].at = at /\ at # "idle" /\ Creator(creq[h])
         /\ creq[h].c \in Client /\ creq[h].secret \in 1..secrets /\ creq[h].secret \in Nat
<1>1. creq[h] \in CRequest /\ creq[h].at = at /\ at # "idle" /\ Creator(creq[h])
  BY CTypes DEF CAt, CBusy, Creator
<1>2. creq[h].c \in Client /\ creq[h].secret \in Nat
  BY <1>1, CRequestType
<1> QED BY <1>1, <1>2 DEF ClientsInv, MadeOnce

LEMMA CCreateAnswers ==
  ASSUME ClientsInv, NEW h \in Handler, CreateAnswer(h)
  PROVE  ClientsInv'
<1>1. PICK c \in Client, s \in 1..secrets : c = creq[h].c /\ s = creq[h].secret
  BY CCreateKind DEF CreateAnswer
<1>2. /\ creq' = [creq EXCEPT ![h] = Idle] /\ UNCHANGED <<creds, trail, failed, secrets, cfaults>>
      /\ (Tell(c, s) /\ UNCHANGED lost) \/ (Lose(c, s) /\ UNCHANGED told)
  BY <1>1 DEF CreateAnswer, CAnswer
<1>3. /\ told' \in [Client -> SUBSET (1..secrets)] /\ lost' \in [Client -> SUBSET (1..secrets)]
      /\ \A d \in Client : told[d] \subseteq told'[d] /\ lost[d] \subseteq lost'[d]
      /\ s \in told'[c] \cup lost'[c]
  <2>1. CASE Tell(c, s) /\ UNCHANGED lost
    BY <2>1, CTells, CTypes
  <2>2. CASE Lose(c, s) /\ UNCHANGED told
    BY <2>2, CLoses, CTypes
  <2> QED BY <1>2, <2>1, <2>2
<1>4. cfaults' \in 0..MaxFaults
  BY <1>2, CTypes
<1> QED BY <1>1, <1>2, <1>3, <1>4, CEnds

LEMMA CCreateLogs ==
  ASSUME ClientsInv, NEW h \in Handler, CreateLog(h)
  PROVE  ClientsInv'
<1>1. PICK r : r = creq[h]
  OBVIOUS
<1>2. r \in CRequest /\ r.at = "inserted" /\ Creator(r) /\ r.c \in Client
  BY <1>1, CCreateKind DEF CreateLog
<1>3. PICK q : q = [r EXCEPT !.at = "logged"]
  OBVIOUS
<1>4. q \in CRequest /\ q.at = "logged" /\ q.op = r.op /\ q.c = r.c /\ q.secret = r.secret
  BY <1>2, <1>3, CRequestGo DEF ClientAt
<1>5. Creator(q)
  BY <1>2, <1>4 DEF Creator
<1>6. creq' = [creq EXCEPT ![h] = q] /\ UNCHANGED <<creds, secrets, told, lost>>
  BY <1>1, <1>3, CTypes DEF CreateLog, CGo
<1>7. PICK c \in Client : c = r.c
  BY <1>2
<1>8. CLogOrNot(c, 0)
  BY <1>1, <1>7 DEF CreateLog
<1>9. /\ trail' \in [Client -> BOOLEAN] /\ cfaults' \in 0..MaxFaults /\ failed' = failed
      /\ \A d \in Client : trail'[d] => creds[d].st = "there"
  BY <1>8, CLogged
<1>10. failed' \in [Client -> Nat] /\ \A d \in Client : failed'[d] <= failed[d]
  BY <1>9, CTypes
<1>11. \A d \in Client : failed'[d] + Cardinality(Past(d)') <= MaxAttempts + Cardinality(Handler) - 1
  BY <1>4, <1>6, <1>10, CBoundKept
<1>12. /\ told' \in [Client -> SUBSET (1..secrets)] /\ lost' \in [Client -> SUBSET (1..secrets)]
       /\ \A d \in Client : told[d] \subseteq told'[d] /\ lost[d] \subseteq lost'[d]
  BY <1>6, CTypes
<1> QED BY <1>1, <1>2, <1>4, <1>5, <1>6, <1>9, <1>10, <1>11, <1>12, CRequestMoves

LEMMA CAdminReads ==
  ASSUME ClientsInv, NEW h \in Handler, NEW c \in Client, NEW op \in {"update", "delete", "rotate"}, AdminRead(h, op, c)
  PROVE  ClientsInv'
<1>1. creds[c] \in Row
  BY CTypes
<1>2. PICK q : q = [op |-> op, at |-> "read", c |-> c, secret |-> 0, row |-> creds[c]]
  OBVIOUS
<1>3. q \in CRequest /\ q.at = "read" /\ ~Creator(q)
  BY <1>1, <1>2 DEF CRequest, ClientOp, ClientAt, Creator
<1>4. ~CBusy(h) /\ UNCHANGED <<creds, trail, failed, secrets, told, lost, cfaults>>
  BY DEF AdminRead
<1>5. creq[h] \in CRequest /\ ~Creator(creq[h]) /\ creq[h].at = "idle"
  BY <1>4, CTypes DEF CBusy, Creator
<1>6. CASE creq' = [creq EXCEPT ![h] = q]
  BY <1>3, <1>4, <1>5, <1>6, COnlyRequestOff
<1>7. CASE UNCHANGED creq
  <2>1. PICK r : r = creq[h]
    OBVIOUS
  <2>2. creq' = [creq EXCEPT ![h] = r]
    BY <1>7, <2>1, CTypes
  <2> QED BY <1>4, <1>5, <2>1, <2>2, COnlyRequestOff
<1> QED BY <1>2, <1>6, <1>7 DEF AdminRead, CStart

\* A step that writes at most one row, and no log.
LEMMA CRowMoves ==
  ASSUME ClientsInv, NEW h \in Handler, NEW q \in CRequest, creq' = [creq EXCEPT ![h] = q],
         NEW c \in Client, NEW w \in Row, creds' = [creds EXCEPT ![c] = w],
         UNCHANGED <<trail, failed>>, secrets' \in 0..MaxSecrets, secrets <= secrets', cfaults' \in 0..MaxFaults,
         told' \in [Client -> SUBSET (1..secrets')], lost' \in [Client -> SUBSET (1..secrets')],
         \A d \in Client : told[d] \subseteq told'[d] /\ lost[d] \subseteq lost'[d],
         trail[c] => w.st = "there",
         q.at = "counted" => q = creq[h],
         q.at \in {"inserted", "logged"} => Creator(q),
         Creator(q) => /\ q.secret \in 1..secrets' /\ q.at \in {"read", "inserted", "logged"}
                       /\ q.at = "read" => creds'[q.c].st = "absent"
                       /\ \A g \in Handler \ {h} : Creator(creq[g]) => creq[g].c # q.c,
         creds[c].st = "absent" => w.st = "absent" \/ (Creator(creq[h]) /\ creq[h].c = c),
         w.st = "there" =>
            \/ creds[c].st = "there" /\ w.secret = creds[c].secret
            \/ w.secret \in told'[c] \cup lost'[c]
            \/ Creator(q) /\ q.c = c /\ q.secret = w.secret,
         Creator(creq[h]) /\ creq[h].at # "read" =>
            \/ creq[h].secret \in told'[creq[h].c] \cup lost'[creq[h].c]
            \/ Creator(q) /\ q.c = creq[h].c /\ q.secret = creq[h].secret
  PROVE  ClientsInv'
<1>1. creds' \in [Client -> Row] /\ \A d \in Client : creds'[d] = (IF d = c THEN w ELSE creds[d])
  BY CTypes
<1>2. /\ failed' \in [Client -> Nat] /\ trail' \in [Client -> BOOLEAN]
      /\ \A d \in Client : failed'[d] = failed[d] /\ failed[d] \in Nat
  BY CTypes
<1>3. \A d \in Client : failed'[d] <= failed[d]
  BY <1>2
<1>4. \A d \in Client : failed'[d] + Cardinality(Past(d)') <= MaxAttempts + Cardinality(Handler) - 1
  BY <1>2, <1>3, CBoundKept
<1>5. \A d \in Client : trail'[d] => creds'[d].st = "there"
  BY <1>1, CTypes
<1>6. \A d \in Client : creds[d].st = "absent" => creds'[d].st = "absent" \/ (Creator(creq[h]) /\ creq[h].c = d)
  BY <1>1
<1>7. \A d \in Client : creds'[d].st = "there" =>
            \/ creds[d].st = "there" /\ creds'[d].secret = creds[d].secret
            \/ creds'[d].secret \in told'[d] \cup lost'[d]
            \/ Creator(q) /\ q.c = d /\ q.secret = creds'[d].secret
  BY <1>1
<1> QED BY <1>1, <1>2, <1>4, <1>5, <1>6, <1>7, CMoves

LEMMA CRowWith ==
  ASSUME NEW w \in Row
  PROVE  /\ \A s \in Nat : LET v == [w EXCEPT !.secret = s] IN v \in Row /\ v.st = w.st /\ v.secret = s
         /\ \A x \in SUBSET Scope : LET v == [w EXCEPT !.scopes = x] IN v \in Row /\ v.st = w.st /\ v.secret = w.secret
         /\ LET v == [w EXCEPT !.active = FALSE] IN v \in Row /\ v.st = w.st /\ v.secret = w.secret
         /\ LET v == [w EXCEPT !.st = "deleted"] IN v \in Row /\ v.st = "deleted"
<1>1. w = [st |-> w.st, secret |-> w.secret, scopes |-> w.scopes, active |-> w.active]
      /\ w.st \in {"absent", "there", "deleted"} /\ w.secret \in Nat /\ w.scopes \in SUBSET Scope /\ w.active \in BOOLEAN
  BY DEF Row
<1>2. \A s \in Nat : LET v == [w EXCEPT !.secret = s] IN v \in Row /\ v.st = w.st /\ v.secret = s
  BY <1>1 DEF Row
<1>3. \A x \in SUBSET Scope : LET v == [w EXCEPT !.scopes = x] IN v \in Row /\ v.st = w.st /\ v.secret = w.secret
  BY <1>1 DEF Row
<1>4. LET v == [w EXCEPT !.active = FALSE] IN v \in Row /\ v.st = w.st /\ v.secret = w.secret
  BY <1>1 DEF Row
<1>5. LET v == [w EXCEPT !.st = "deleted"] IN v \in Row /\ v.st = "deleted"
  BY <1>1 DEF Row
<1> QED BY <1>2, <1>3, <1>4, <1>5

LEMMA CCreateBegins ==
  ASSUME ClientsInv, NEW h \in Handler, NEW c \in Client, NEW op \in {"register", "create"}, CreateBegin(h, op, c)
  PROVE  ClientsInv'
<1>1. PICK w : w = creds[c]
  OBVIOUS
<1>2. w \in Row /\ w.st = "absent" /\ creds' = [creds EXCEPT ![c] = w]
  BY <1>1, CTypes DEF CreateBegin
<1>3. PICK n : n = secrets + 1
  OBVIOUS
<1>4. secrets' = n /\ n \in 0..MaxSecrets /\ secrets <= n /\ n \in 1..n /\ n \in Nat
  BY <1>3, CTypes DEF CreateBegin
<1>5. PICK q : q = [op |-> op, at |-> "read", c |-> c, secret |-> n, row |-> w]
  OBVIOUS
<1>6. q \in CRequest /\ q.at = "read" /\ q.c = c /\ q.secret = n
  BY <1>2, <1>4, <1>5 DEF CRequest, ClientOp, ClientAt
<1>7. creq' = [creq EXCEPT ![h] = q] /\ UNCHANGED <<creds, trail, failed, told, lost, cfaults>> /\ ~CBusy(h)
  BY <1>1, <1>3, <1>5 DEF CreateBegin, CStart
<1>8. 1..secrets \subseteq 1..n
  BY <1>3, CTypes
<1>9. /\ told' \in [Client -> SUBSET (1..secrets')] /\ lost' \in [Client -> SUBSET (1..secrets')] /\ cfaults' \in 0..MaxFaults
      /\ \A d \in Client : told[d] \subseteq told'[d] /\ lost[d] \subseteq lost'[d]
  BY <1>4, <1>7, <1>8, CTypes
<1>10. \A g \in Handler \ {h} : Creator(creq[g]) => creq[g].c # q.c
  BY <1>6 DEF CreateBegin, CBusy, Creator
<1>11. creds'[q.c].st = "absent" /\ ~Creator(creq[h]) /\ (trail[c] => w.st = "there")
  BY <1>1, <1>2, <1>6, <1>7, CTypes DEF CBusy, Creator
<1>12. Creator(q) => /\ q.secret \in 1..secrets' /\ q.at \in {"read", "inserted", "logged"}
                     /\ q.at = "read" => creds'[q.c].st = "absent"
                     /\ \A g \in Handler \ {h} : Creator(creq[g]) => creq[g].c # q.c
  BY <1>4, <1>6, <1>10, <1>11
<1>13. secrets' \in 0..MaxSecrets /\ secrets <= secrets' /\ UNCHANGED <<trail, failed>>
  BY <1>4, <1>7
<1>14. q.at # "counted" /\ q.at \notin {"inserted", "logged"} /\ w.st # "there" /\ ~(Creator(creq[h]) /\ creq[h].at # "read")
  BY <1>2, <1>6, <1>11
<1>15. w.st = "there" =>
            \/ creds[c].st = "there" /\ w.secret = creds[c].secret
            \/ w.secret \in told'[c] \cup lost'[c]
            \/ Creator(q) /\ q.c = c /\ q.secret = w.secret
  BY <1>14
<1>16. Creator(creq[h]) /\ creq[h].at # "read" =>
            \/ creq[h].secret \in told'[creq[h].c] \cup lost'[creq[h].c]
            \/ Creator(q) /\ q.c = creq[h].c /\ q.secret = creq[h].secret
  BY <1>14
<1>17. creds[c].st = "absent" => w.st = "absent" \/ (Creator(creq[h]) /\ creq[h].c = c)
  BY <1>2
<1>18. w \in Row /\ creds' = [creds EXCEPT ![c] = w] /\ (trail[c] => w.st = "there") /\ q \in CRequest
       /\ creq' = [creq EXCEPT ![h] = q]
  BY <1>2, <1>6, <1>7, <1>11
<1>19. (q.at = "counted" => q = creq[h]) /\ (q.at \in {"inserted", "logged"} => Creator(q))
  BY <1>14
<1> QED BY <1>9, <1>12, <1>13, <1>15, <1>16, <1>17, <1>18, <1>19, CRowMoves

LEMMA CCreateInserts ==
  ASSUME ClientsInv, NEW h \in Handler, CreateInsert(h)
  PROVE  ClientsInv'
<1>1. PICK r : r = creq[h]
  OBVIOUS
<1>2. r \in CRequest /\ r.at = "read" /\ Creator(r) /\ r.c \in Client /\ r.secret \in 1..secrets /\ r.secret \in Nat
  BY <1>1, CCreateKind DEF CreateInsert
<1>3. PICK w : w = NewRow(r.secret)
  OBVIOUS
<1>4. w \in Row /\ w.st = "there" /\ w.secret = r.secret
  BY <1>2, <1>3 DEF NewRow, Row
<1>5. creds' = [creds EXCEPT ![r.c] = w] /\ UNCHANGED <<trail, failed, secrets, told>>
  BY <1>1, <1>3 DEF CreateInsert
<1>6. secrets' \in 0..MaxSecrets /\ secrets <= secrets' /\ secrets' = secrets /\ told' \in [Client -> SUBSET (1..secrets')]
  BY <1>5, CTypes
<1>7. CASE CGo(h, "inserted") /\ UNCHANGED <<lost, cfaults>>
  <2>1. PICK q : q = [r EXCEPT !.at = "inserted"]
    OBVIOUS
  <2>2. q \in CRequest /\ q.at = "inserted" /\ q.op = r.op /\ q.c = r.c /\ q.secret = r.secret
    BY <1>2, <2>1, CRequestGo DEF ClientAt
  <2>3. Creator(q)
    BY <1>2, <2>2 DEF Creator
  <2>4. creq' = [creq EXCEPT ![h] = q]
    BY <1>1, <1>7, <2>1, CTypes DEF CGo
  <2>5. \A g \in Handler \ {h} : Creator(creq[g]) => creq[g].c # q.c
    BY <1>1, <1>2, <2>2 DEF ClientsInv, MadeOnce
  <2>6. /\ lost' \in [Client -> SUBSET (1..secrets')] /\ cfaults' \in 0..MaxFaults
        /\ \A d \in Client : told[d] \subseteq told'[d] /\ lost[d] \subseteq lost'[d]
    BY <1>5, <1>7, CTypes
  <2>7. q.secret \in 1..secrets'
    BY <1>2, <1>5, <2>2
  <2>8. Creator(q) => /\ q.secret \in 1..secrets' /\ q.at \in {"read", "inserted", "logged"}
                      /\ q.at = "read" => creds'[q.c].st = "absent"
                      /\ \A g \in Handler \ {h} : Creator(creq[g]) => creq[g].c # q.c
    BY <2>2, <2>5, <2>7
  <2>9. /\ q.at # "counted" /\ ~(Creator(creq[h]) /\ creq[h].at # "read") /\ Creator(creq[h]) /\ creq[h].c = r.c
        /\ Creator(q) /\ q.c = r.c /\ q.secret = w.secret
    BY <1>1, <1>2, <1>4, <2>2, <2>3
  <2>10. r.c \in Client /\ creds' = [creds EXCEPT ![r.c] = w] /\ UNCHANGED <<trail, failed>>
    BY <1>2, <1>5
  <2> QED BY <1>4, <1>6, <2>2, <2>4, <2>6, <2>8, <2>9, <2>10, CRowMoves
<1>8. CASE CFault /\ CAnswer(h) /\ Lose(r.c, r.secret)
  <2>1. lost' \in [Client -> SUBSET (1..secrets)] /\ r.secret \in lost'[r.c] /\ \A d \in Client : lost[d] \subseteq lost'[d]
    BY <1>2, <1>8, CLoses
  <2>2. lost' \in [Client -> SUBSET (1..secrets')] /\ \A d \in Client : told[d] \subseteq told'[d]
    BY <1>5, <2>1
  <2>3. cfaults' \in 0..MaxFaults /\ creq' = [creq EXCEPT ![h] = Idle]
    BY <1>8, CTypes DEF CFault, CAnswer
  <2> QED BY <1>1, <1>2, <1>4, <1>5, <1>6, <2>1, <2>2, <2>3, CIdle, CRowMoves
<1> QED BY <1>1, <1>7, <1>8 DEF CreateInsert

\* An update, a delete or the operator's deactivation.
LEMMA CRowChanges ==
  ASSUME ClientsInv, NEW h \in Handler, NEW q \in CRequest, creq' = [creq EXCEPT ![h] = q],
         (q = Idle /\ ~Creator(creq[h])) \/ q = creq[h],
         NEW c \in Client, NEW w \in Row, creds' = [creds EXCEPT ![c] = w],
         UNCHANGED <<trail, failed, secrets, told, lost, cfaults>>,
         w = creds[c] \/ /\ creds[c].st = "there"
                         /\ \/ w.st = "there" /\ w.secret = creds[c].secret
                            \/ w.st = "deleted" /\ ~trail[c]
  PROVE  ClientsInv'
<1>1. /\ secrets' \in 0..MaxSecrets /\ secrets <= secrets' /\ cfaults' \in 0..MaxFaults
      /\ told' \in [Client -> SUBSET (1..secrets')] /\ lost' \in [Client -> SUBSET (1..secrets')]
      /\ \A d \in Client : told[d] \subseteq told'[d] /\ lost[d] \subseteq lost'[d]
      /\ trail[c] => w.st = "there"
  BY CTypes
<1>2. q.at \in {"inserted", "logged"} => Creator(q)
  BY CIdle DEF ClientsInv, MadeOnce
<1>3. \A d \in Client : creds'[d].st = "absent" \/ creds[d].st # "absent"
  BY CTypes
<1>4. Creator(q) => /\ q.secret \in 1..secrets' /\ q.at \in {"read", "inserted", "logged"}
                    /\ q.at = "read" => creds[q.c].st = "absent" /\ q.c \in Client
                    /\ \A g \in Handler \ {h} : Creator(creq[g]) => creq[g].c # q.c
  BY CIdle, CRequestType DEF ClientsInv, MadeOnce, Creator
<1>5. Creator(q) /\ q.at = "read" => creds'[q.c].st = "absent"
  BY <1>3, <1>4
<1>6. creds[c].st = "absent" => w.st = "absent"
  OBVIOUS
<1>7. w.st = "there" => creds[c].st = "there" /\ w.secret = creds[c].secret
  OBVIOUS
<1>8. q.at = "counted" => q = creq[h]
  BY CIdle
<1>9. Creator(creq[h]) => q = creq[h]
  OBVIOUS
<1>10. Creator(q) => /\ q.secret \in 1..secrets' /\ q.at \in {"read", "inserted", "logged"}
                     /\ q.at = "read" => creds'[q.c].st = "absent"
                     /\ \A g \in Handler \ {h} : Creator(creq[g]) => creq[g].c # q.c
  BY <1>4, <1>5
<1>11. UNCHANGED <<trail, failed>>
  OBVIOUS
<1>12. w.st = "there" =>
            \/ creds[c].st = "there" /\ w.secret = creds[c].secret
            \/ w.secret \in told'[c] \cup lost'[c]
            \/ Creator(q) /\ q.c = c /\ q.secret = w.secret
  BY <1>7
<1>13. Creator(creq[h]) /\ creq[h].at # "read" =>
            \/ creq[h].secret \in told'[creq[h].c] \cup lost'[creq[h].c]
            \/ Creator(q) /\ q.c = creq[h].c /\ q.secret = creq[h].secret
  BY <1>9
<1>14. creds[c].st = "absent" => w.st = "absent" \/ (Creator(creq[h]) /\ creq[h].c = c)
  BY <1>6
<1>15. \A d \in Client : told[d] \subseteq told'[d] /\ lost[d] \subseteq lost'[d]
  BY <1>1
<1> QED BY <1>1, <1>2, <1>8, <1>10, <1>11, <1>12, <1>13, <1>14, <1>15, CRowMoves

LEMMA CUpdatesOrDeletes ==
  ASSUME ClientsInv, NEW h \in Handler, DeleteRow(h) \/ \E x \in SUBSET Scope : UpdateWrite(h, x)
  PROVE  ClientsInv'
<1>1. creq[h] \in CRequest /\ creq[h].at # "idle" /\ ~Creator(creq[h])
  BY CTypes DEF DeleteRow, UpdateWrite, CAt, CBusy, Creator
<1>2. PICK c \in Client : c = creq[h].c
  BY <1>1, CRequestType
<1>3. creds[c] \in Row /\ creds \in [Client -> Row]
  BY CTypes
<1>4. creq' = [creq EXCEPT ![h] = Idle] /\ UNCHANGED <<trail, failed, secrets, told, lost, cfaults>>
  BY DEF DeleteRow, UpdateWrite, CAnswer
<1>5. CASE creds' = creds
  <2>1. PICK w : w = creds[c]
    OBVIOUS
  <2>2. w \in Row /\ creds' = [creds EXCEPT ![c] = w]
    BY <1>3, <1>5, <2>1
  <2> QED BY <1>1, <1>4, <2>1, <2>2, CIdle, CRowChanges
<1>6. ASSUME NEW x \in SUBSET Scope, Exists(c), creds' = [creds EXCEPT ![c].scopes = x] PROVE ClientsInv'
  <2>1. PICK w : w = [creds[c] EXCEPT !.scopes = x]
    OBVIOUS
  <2>2. w \in Row /\ w.st = creds[c].st /\ w.secret = creds[c].secret
    BY <1>3, <2>1, CRowWith
  <2>3. creds' = [creds EXCEPT ![c] = w]
    BY <1>3, <1>6, <2>1
  <2>4. creds[c].st = "there" /\ w.st = "there"
    BY <1>6, <2>2 DEF Exists
  <2> QED BY <1>1, <1>4, <2>2, <2>3, <2>4, CIdle, CRowChanges
<1>7. CASE Deletable(c) /\ creds' = [creds EXCEPT ![c].st = "deleted"]
  <2>1. PICK w : w = [creds[c] EXCEPT !.st = "deleted"]
    OBVIOUS
  <2>2. w \in Row /\ w.st = "deleted"
    BY <1>3, <2>1, CRowWith
  <2>3. creds' = [creds EXCEPT ![c] = w]
    BY <1>3, <1>7, <2>1
  <2> QED BY <1>1, <1>4, <1>7, <2>2, <2>3, CIdle, CRowChanges DEF Deletable, Exists
<1>8. CASE DeleteRow(h)
  BY <1>2, <1>5, <1>7, <1>8 DEF DeleteRow
<1>9. ASSUME NEW x \in SUBSET Scope, UpdateWrite(h, x) PROVE ClientsInv'
  BY <1>2, <1>5, <1>6, <1>9 DEF UpdateWrite
<1> QED BY <1>8, <1>9

LEMMA CDeactivates ==
  ASSUME ClientsInv, NEW c \in Client, Deactivate(c)
  PROVE  ClientsInv'
<1>1. PICK h \in Handler, q \in CRequest : q = creq[h] /\ creq' = [creq EXCEPT ![h] = q]
  BY CTypes DEF Deactivate
<1>2. creds[c] \in Row /\ creds \in [Client -> Row]
  BY CTypes
<1>3. PICK w : w = [creds[c] EXCEPT !.active = FALSE]
  OBVIOUS
<1>4. w \in Row /\ w.st = creds[c].st /\ w.secret = creds[c].secret
  BY <1>2, <1>3, CRowWith
<1>5. creds' = [creds EXCEPT ![c] = w] /\ creds[c].st = "there" /\ UNCHANGED <<trail, failed, secrets, told, lost, cfaults>>
  BY <1>2, <1>3 DEF Deactivate, Exists
<1> QED BY <1>1, <1>4, <1>5, CRowChanges

LEMMA CRotates ==
  ASSUME ClientsInv, NEW h \in Handler, RotateWrite(h)
  PROVE  ClientsInv'
<1>1. creq[h] \in CRequest /\ creq[h].at # "idle" /\ ~Creator(creq[h])
  BY CTypes DEF RotateWrite, CAt, CBusy, Creator
<1>2. PICK c \in Client : c = creq[h].c
  BY <1>1, CRequestType
<1>3. creds[c] \in Row /\ creds \in [Client -> Row]
  BY CTypes
<1>4. PICK n : n = secrets + 1
  OBVIOUS
<1>5. secrets' = n /\ n \in 0..MaxSecrets /\ secrets <= n /\ n \in Nat /\ n \in 1..n
  BY <1>4, CTypes DEF RotateWrite
<1>6. 1..secrets \subseteq 1..n
  BY <1>4, CTypes
<1>7. creq' = [creq EXCEPT ![h] = Idle] /\ UNCHANGED <<trail, failed>> /\ cfaults' \in 0..MaxFaults
  BY CTypes DEF RotateWrite, CAnswer, CFault
<1>8. told \in [Client -> SUBSET (1..n)] /\ lost \in [Client -> SUBSET (1..n)]
  BY <1>6, CTypes
<1>9. CASE ~Exists(c)
  <2>1. creds' = creds /\ told' = told /\ lost' = lost
    BY <1>2, <1>9 DEF RotateWrite
  <2>2. PICK w : w = creds[c]
    OBVIOUS
  <2>3. w \in Row /\ creds' = [creds EXCEPT ![c] = w] /\ w.st # "there" /\ (trail[c] => w.st = "there")
    BY <1>3, <1>9, <2>1, <2>2, CTypes DEF Exists
  <2>4. \A d \in Client : told[d] \subseteq told'[d] /\ lost[d] \subseteq lost'[d]
    BY <2>1
  <2>5. told' \in [Client -> SUBSET (1..secrets')] /\ lost' \in [Client -> SUBSET (1..secrets')]
    BY <1>5, <1>8, <2>1
  <2> QED BY <1>1, <1>5, <1>7, <2>2, <2>3, <2>4, <2>5, CIdle, CRowMoves
<1>10. CASE Exists(c)
  <2>1. PICK w : w = [creds[c] EXCEPT !.secret = n]
    OBVIOUS
  <2>2. w \in Row /\ w.st = creds[c].st /\ w.secret = n
    BY <1>3, <1>5, <2>1, CRowWith
  <2>3. creds' = [creds EXCEPT ![c] = w] /\ creds[c].st = "there"
    BY <1>2, <1>3, <1>4, <1>10, <2>1 DEF RotateWrite, Exists
  <2>4. \/ told' = [told EXCEPT ![c] = @ \cup {n}] /\ lost' = lost
        \/ lost' = [lost EXCEPT ![c] = @ \cup {n}] /\ told' = told
    BY <1>2, <1>4, <1>10 DEF RotateWrite, Tell, Lose
  <2>5. /\ told' \in [Client -> SUBSET (1..n)] /\ lost' \in [Client -> SUBSET (1..n)]
        /\ \A d \in Client : told[d] \subseteq told'[d] /\ lost[d] \subseteq lost'[d]
        /\ n \in told'[c] \cup lost'[c]
    BY <1>5, <1>8, <2>4
  <2>6. told' \in [Client -> SUBSET (1..secrets')] /\ lost' \in [Client -> SUBSET (1..secrets')]
    BY <1>5, <2>5
  <2> QED BY <1>1, <1>5, <1>7, <2>2, <2>3, <2>5, <2>6, CIdle, CRowMoves
<1> QED BY <1>9, <1>10

LEMMA CAges ==
  ASSUME ClientsInv, NEW c \in Client, CAge(c)
  PROVE  ClientsInv'
<1>1. PICK h \in Handler, q \in CRequest : q = creq[h] /\ creq' = [creq EXCEPT ![h] = q]
  BY CTypes DEF CAge
<1>2. UNCHANGED <<creds, trail, secrets, told, lost, cfaults>> /\ failed[c] > 0 /\ failed' = [failed EXCEPT ![c] = @ - 1]
  BY DEF CAge
<1>3. failed' \in [Client -> Nat] /\ \A d \in Client : failed'[d] <= failed[d]
  BY <1>2, CTypes
<1>4. \A d \in Client : failed'[d] + Cardinality(Past(d)') <= MaxAttempts + Cardinality(Handler) - 1
  BY <1>1, <1>3, CBoundKept
<1>5. /\ secrets' \in 0..MaxSecrets /\ secrets <= secrets' /\ cfaults' \in 0..MaxFaults
      /\ creds' \in [Client -> Row] /\ trail' \in [Client -> BOOLEAN]
      /\ told' \in [Client -> SUBSET (1..secrets')] /\ lost' \in [Client -> SUBSET (1..secrets')]
      /\ \A d \in Client : told[d] \subseteq told'[d] /\ lost[d] \subseteq lost'[d]
      /\ \A d \in Client : trail'[d] => creds'[d].st = "there"
  BY <1>2, CTypes
<1>6. /\ q.at \in {"inserted", "logged"} => Creator(q)
      /\ Creator(q) => /\ q.secret \in 1..secrets' /\ q.at \in {"read", "inserted", "logged"}
                       /\ q.at = "read" => creds'[q.c].st = "absent"
                       /\ \A g \in Handler \ {h} : Creator(creq[g]) => creq[g].c # q.c
  BY <1>1, <1>2 DEF ClientsInv, MadeOnce
<1>7. /\ \A d \in Client : creds[d].st = "absent" => creds'[d].st = "absent"
      /\ \A d \in Client : creds'[d].st = "there" => creds[d].st = "there" /\ creds'[d].secret = creds[d].secret
  BY <1>2
<1> QED BY <1>1, <1>3, <1>4, <1>5, <1>6, <1>7, CMoves

LEMMA ClientsStutters ==
  ASSUME ClientsInv, UNCHANGED clientsVars PROVE ClientsInv'
<1>1. /\ creds' = creds /\ trail' = trail /\ failed' = failed /\ creq' = creq
      /\ secrets' = secrets /\ told' = told /\ lost' = lost /\ cfaults' = cfaults
  BY DEF clientsVars
<1>2. \A c : Past(c)' = Past(c)
  BY <1>1 DEF Past, CAt, CBusy
<1>3. FailuresBounded'
  BY <1>1, <1>2 DEF ClientsInv, FailuresBounded
<1>4. ClientsShapes' /\ MadeOnce' /\ SecretKnown' /\ TrailKept'
  BY <1>1 DEF ClientsInv, ClientsShapes, MadeOnce, SecretKnown, TrailKept, Exists, CAt, CBusy, Creator
<1> QED BY <1>3, <1>4 DEF ClientsInv

\* ClientsInv is kept by every operation on the clients.
LEMMA ClientsInductive == ClientsInv /\ [ClientsNext]_clientsVars => ClientsInv'
<1> SUFFICES ASSUME ClientsInv, [ClientsNext]_clientsVars PROVE ClientsInv'
  OBVIOUS
<1>1. ASSUME NEW h \in Handler, NEW c \in Client, NEW s \in 0..MaxSecrets, TokenRead(h, c, s) PROVE ClientsInv'
  BY <1>1, CTokenReads
<1>2. ASSUME NEW h \in Handler, NEW c \in Client, NEW op \in {"register", "create"}, CreateBegin(h, op, c)
      PROVE ClientsInv'
  BY <1>2, CCreateBegins
<1>3. ASSUME NEW h \in Handler, NEW c \in Client, NEW op \in {"update", "delete", "rotate"}, AdminRead(h, op, c)
      PROVE ClientsInv'
  BY <1>3, CAdminReads
<1>4. ASSUME NEW h \in Handler, NEW sc \in SUBSET Scope, TokenScopes(h, sc) PROVE ClientsInv'
  BY <1>4, CTokenScopes
<1>5. ASSUME NEW h \in Handler, NEW sc \in SUBSET Scope, UpdateWrite(h, sc) PROVE ClientsInv'
  BY <1>5, CUpdatesOrDeletes
<1>6. ASSUME NEW h \in Handler, TokenCount(h) \/ TokenRefuse(h) \/ TokenIssue(h) PROVE ClientsInv'
  BY <1>6, CTokenCounts, CTokenRefuses, CTokenIssues
<1>7. ASSUME NEW h \in Handler, CreateInsert(h) \/ CreateLog(h) \/ CreateAnswer(h) PROVE ClientsInv'
  BY <1>7, CCreateInserts, CCreateLogs, CCreateAnswers
<1>8. ASSUME NEW h \in Handler, DeleteRow(h) \/ RotateWrite(h) \/ CCallFails(h) \/ CDrop(h) PROVE ClientsInv'
  BY <1>8, CUpdatesOrDeletes, CRotates, CFailsOrDrops
<1>9. ASSUME NEW c \in Client, Deactivate(c) \/ CAge(c) PROVE ClientsInv'
  BY <1>9, CDeactivates, CAges
<1>10. CASE UNCHANGED clientsVars
  BY <1>10, ClientsStutters
<1> QED BY <1>1, <1>2, <1>3, <1>4, <1>5, <1>6, <1>7, <1>8, <1>9, <1>10 DEF ClientsNext

LEMMA ClientsInvCorrect == ClientsInv => ClientsCorrect
<1> SUFFICES ASSUME ClientsInv PROVE ClientsCorrect
  OBVIOUS
<1>1. ClientsTypeOK
  <2>1. ASSUME NEW q \in CRequest PROVE q \in Request \cup {Idle}
    BY DEF CRequest, Request
  <2> QED BY <2>1, CTypes DEF ClientsTypeOK
<1>2. ASSUME NEW c \in Client PROVE failed[c] <= MaxAttempts + Cardinality(Handler) - 1
  <2>1. Cardinality(Past(c)) \in Nat /\ Cardinality(Handler) \in Nat
    BY CPastFinite DEF ClientsInv
  <2>2. failed[c] + Cardinality(Past(c)) <= MaxAttempts + Cardinality(Handler) - 1 /\ failed[c] \in Nat
    BY CTypes DEF ClientsInv, FailuresBounded
  <2> QED BY <2>1, <2>2
<1> QED BY <1>1, <1>2 DEF ClientsInv, ClientsCorrect, LockoutBound

\* However the token and admin requests of the auth controller interleave, fail or
\* are dropped: failures pass the lockout only by the handlers that run at once, the
\* secret that verifies was told, is about to be told or was lost with its handler,
\* and no event names a credential that is gone.
THEOREM ClientsCorrectProved == ClientsSpec => []ClientsCorrect
<1>1. ClientsSpec => []ClientsInv
  BY ClientsInitInv, ClientsInductive, PTL DEF ClientsSpec
<1> QED BY <1>1, ClientsInvCorrect, PTL

HIDE ClientsAssumption

-----------------------------------------------------------------------------
(* The users of the auth controller. *)

URequest == {UIdle} \cup [op: {"register", "login"}, at: UserAt \ {"idle"}, e: Email, pw: Password, row: UserRow]

UsersShapes ==
    /\ users \in [Email -> UserRow]
    /\ ufailed \in [Email -> Nat]
    /\ regs \in Nat /\ logins \in Nat
    /\ ureq \in [UHandler -> URequest]
    /\ owners \in [Email -> SUBSET Password]
    /\ abandoned \subseteq Email
    /\ miscounts \in Nat /\ misregs \in Nat /\ ufaults \in Nat
    /\ miscounts + misregs + ufaults <= MaxUFaults

\* The logins of an email past the check of its lockout, the registrations past theirs.
UPast(e) == {h \in UHandler : UAt(h, "allowed") /\ ureq[h].e = e}
RegAt    == {"limited", "free", "created", "roled"}
RPast    == {h \in UHandler : ureq[h].at \in RegAt}

LoginsBounded ==
    \A e \in Email : ufailed[e] + Cardinality(UPast(e)) <= MaxFailures + Cardinality(UHandler) - 1 + miscounts
RegsBounded == regs + Cardinality(RPast) <= MaxRegs + Cardinality(UHandler) - 1 + misregs

\* The handler that made the row finds its password in it, and once it gave the role, the role.
HasRow(r, u) ==
    /\ r.at = "created" => u[r.e].pw = r.pw
    /\ r.at = "roled" => u[r.e] = [pw |-> r.pw, role |-> TRUE]
    /\ r.at \in {"login", "read", "allowed", "roles"} /\ r.op = "register" =>
        u[r.e] = [pw |-> r.pw, role |-> TRUE]
RowsMade == \A h \in UHandler : HasRow(ureq[h], users)

UsersInv == UsersShapes /\ LoginsBounded /\ RegsBounded /\ RowsMade /\ OwnerKept /\ RolelessExplained

USE UsersAssumption

LEMMA UIdleKind == UIdle \in URequest /\ UIdle.at = "idle" /\ \A u : HasRow(UIdle, u)
  BY DEF UIdle, URequest, HasRow

LEMMA URequestType ==
  ASSUME NEW q \in URequest, q.at # "idle"
  PROVE  /\ q.e \in Email /\ q.pw \in Password /\ q.row \in UserRow /\ q.op \in {"register", "login"} /\ q.at \in UserAt
         /\ q \in [op: {"register", "login"}, at: UserAt \ {"idle"}, e: Email, pw: Password, row: UserRow]
  BY DEF URequest, UIdle

LEMMA URequestGo ==
  ASSUME NEW r \in URequest, r.at # "idle", NEW at \in UserAt \ {"idle"}
  PROVE  LET q == [r EXCEPT !.at = at] IN
         q \in URequest /\ q.at = at /\ q.op = r.op /\ q.e = r.e /\ q.pw = r.pw
<1>1. r \in [op: {"register", "login"}, at: UserAt \ {"idle"}, e: Email, pw: Password, row: UserRow]
  BY URequestType
<1> QED BY <1>1 DEF URequest

LEMMA UTypes ==
  ASSUME UsersInv
  PROVE  /\ users \in [Email -> UserRow] /\ ufailed \in [Email -> Nat] /\ regs \in Nat /\ logins \in Nat
         /\ ureq \in [UHandler -> URequest] /\ owners \in [Email -> SUBSET Password] /\ abandoned \subseteq Email
         /\ miscounts \in Nat /\ misregs \in Nat /\ ufaults \in Nat
         /\ miscounts + misregs + ufaults <= MaxUFaults
  BY DEF UsersInv, UsersShapes

LEMMA UCounts ==
  /\ IsFiniteSet(RPast) /\ Cardinality(RPast) \in Nat
  /\ Cardinality(RPast) <= Cardinality(UHandler) /\ Cardinality(UHandler) \in Nat
  /\ \A e : /\ IsFiniteSet(UPast(e)) /\ Cardinality(UPast(e)) \in Nat
            /\ Cardinality(UPast(e)) <= Cardinality(UHandler)
<1>1. RPast \subseteq UHandler /\ \A e : UPast(e) \subseteq UHandler
  BY DEF RPast, UPast
<1> QED BY <1>1, FS_Subset, FS_CardinalityType

LEMMA UsersInitInv == UsersInit => UsersInv
<1> SUFFICES ASSUME UsersInit PROVE UsersInv
  OBVIOUS
<1>1. UsersShapes
  <2>1. NoUser \in UserRow
    BY DEF NoUser, UserRow
  <2>2. users \in [Email -> UserRow] /\ ureq \in [UHandler -> URequest]
    BY <2>1, UIdleKind DEF UsersInit
  <2> QED BY <2>2 DEF UsersInit, UsersShapes
<1>2. RPast = {} /\ \A e : UPast(e) = {}
  BY UIdleKind DEF UsersInit, RPast, RegAt, UPast, UAt
<1>3. Cardinality(RPast) = 0 /\ \A e : Cardinality(UPast(e)) = 0
  BY <1>2, FS_EmptySet
<1>4. Cardinality(UHandler) \in Nat \ {0}
  BY FS_EmptySet, FS_CardinalityType
<1>5. LoginsBounded
  BY <1>3, <1>4 DEF UsersInit, LoginsBounded
<1>6. RegsBounded
  BY <1>3, <1>4 DEF UsersInit, RegsBounded
<1>7. RowsMade
  BY UIdleKind DEF UsersInit, RowsMade
<1>8. OwnerKept /\ RolelessExplained
  BY DEF UsersInit, OwnerKept, RolelessExplained, Registered, NoUser
<1> QED BY <1>1, <1>5, <1>6, <1>7, <1>8 DEF UsersInv

\* What a step of one handler must do to keep the invariant.
LEMMA UMoves ==
  ASSUME UsersInv, NEW h \in UHandler, NEW q \in URequest, ureq' = [ureq EXCEPT ![h] = q],
         users' \in [Email -> UserRow], ufailed' \in [Email -> Nat], regs' \in Nat, logins' \in Nat,
         owners' \in [Email -> SUBSET Password], abandoned' \subseteq Email, abandoned \subseteq abandoned',
         miscounts' \in Nat, misregs' \in Nat, ufaults' \in Nat, miscounts' + misregs' + ufaults' <= MaxUFaults,
         \A e \in Email : ufailed'[e] + Cardinality(UPast(e)') <= MaxFailures + Cardinality(UHandler) - 1 + miscounts',
         regs' + Cardinality(RPast') <= MaxRegs + Cardinality(UHandler) - 1 + misregs',
         \A e \in Email, pw \in Password :
            /\ users[e].pw = pw => users'[e].pw = pw
            /\ users[e] = [pw |-> pw, role |-> TRUE] => users'[e] = [pw |-> pw, role |-> TRUE],
         HasRow(q, users'),
         \A e \in Email, pw \in Password :
            pw \in owners'[e] => pw \in owners[e] \/ users'[e] = [pw |-> pw, role |-> TRUE],
         \A e \in Email : users'[e].pw # NoPassword /\ ~users'[e].role =>
            \/ users[e].pw # NoPassword /\ ~users[e].role
            \/ e \in abandoned' \/ (q.at = "created" /\ q.e = e),
         ureq[h].at = "created" =>
            \/ users'[ureq[h].e].role \/ ureq[h].e \in abandoned'
            \/ q.at = "created" /\ q.e = ureq[h].e
  PROVE  UsersInv'
<1>1. UsersShapes'
  BY DEF UsersInv, UsersShapes
<1>2. \A g \in UHandler : ureq'[g] = (IF g = h THEN q ELSE ureq[g])
  BY UTypes
<1>3. LoginsBounded'
  BY DEF LoginsBounded
<1>4. RegsBounded'
  BY DEF RegsBounded
<1>5. ASSUME NEW g \in UHandler PROVE HasRow(ureq'[g], users')
  <2>1. CASE g = h
    BY <1>2, <2>1
  <2>2. CASE g # h
    <3>1. HasRow(ureq[g], users) /\ ureq[g] \in URequest
      BY UTypes DEF UsersInv, RowsMade
    <3>2. CASE ureq[g].at = "idle"
      BY <1>2, <2>2, <3>2 DEF HasRow
    <3>3. CASE ureq[g].at # "idle"
      <4>1. ureq[g].e \in Email /\ ureq[g].pw \in Password
        BY <3>1, <3>3, URequestType
      <4>2. HasRow(ureq[g], users')
        BY <3>1, <4>1 DEF HasRow
      <4> QED BY <1>2, <2>2, <4>2
    <3> QED BY <3>2, <3>3
  <2> QED BY <2>1, <2>2
<1>6. RowsMade'
  BY <1>5 DEF RowsMade, HasRow
<1>7. OwnerKept'
  <2>1. ASSUME NEW e \in Email, NEW pw \in Password, pw \in owners'[e] PROVE users'[e] = [pw |-> pw, role |-> TRUE]
    <3>1. CASE pw \in owners[e]
      <4>1. users[e] = [pw |-> pw, role |-> TRUE]
        BY <3>1 DEF UsersInv, OwnerKept
      <4> QED BY <4>1
    <3>2. CASE pw \notin owners[e]
      BY <2>1, <3>2
    <3> QED BY <3>1, <3>2
  <2> QED BY <2>1 DEF OwnerKept
<1>8. RolelessExplained'
  <2> SUFFICES ASSUME NEW e \in Email, users'[e].pw # NoPassword, ~users'[e].role
               PROVE  e \in abandoned' \/ \E g \in UHandler : ureq'[g].at = "created" /\ ureq'[g].e = e
    BY DEF RolelessExplained, Registered, UAt
  <2>1. CASE users[e].pw # NoPassword /\ ~users[e].role
    <3>1. e \in abandoned \/ \E g \in UHandler : ureq[g].at = "created" /\ ureq[g].e = e
      BY <2>1 DEF UsersInv, RolelessExplained, Registered, UAt
    <3>2. ASSUME NEW g \in UHandler, ureq[g].at = "created", ureq[g].e = e
          PROVE e \in abandoned' \/ \E k \in UHandler : ureq'[k].at = "created" /\ ureq'[k].e = e
      <4>1. CASE g = h
        BY <1>2, <3>2, <4>1
      <4>2. CASE g # h
        BY <1>2, <3>2, <4>2
      <4> QED BY <4>1, <4>2
    <3> QED BY <3>1, <3>2
  <2>2. CASE q.at = "created" /\ q.e = e
    BY <1>2, <2>2
  <2> QED BY <2>1, <2>2
<1> QED BY <1>1, <1>3, <1>4, <1>6, <1>7, <1>8 DEF UsersInv

\* The bounds where no event is added and nobody passes a check.
LEMMA ULoginsKept ==
  ASSUME UsersInv, NEW h \in UHandler, NEW q \in URequest, ureq' = [ureq EXCEPT ![h] = q],
         q.at = "allowed" => q = ureq[h],
         NEW e \in Email, ufailed' \in [Email -> Nat], ufailed'[e] <= ufailed[e],
         miscounts' \in Nat, miscounts <= miscounts'
  PROVE  ufailed'[e] + Cardinality(UPast(e)') <= MaxFailures + Cardinality(UHandler) - 1 + miscounts'
<1>1. \A g \in UHandler : ureq'[g] = (IF g = h THEN q ELSE ureq[g])
  BY UTypes
<1>2. UPast(e)' \subseteq UPast(e)
  BY <1>1 DEF UPast, UAt
<1>3. IsFiniteSet(UPast(e)) /\ Cardinality(UPast(e)) \in Nat /\ Cardinality(UHandler) \in Nat
  BY UCounts
<1>4. Cardinality(UPast(e)') \in Nat /\ Cardinality(UPast(e)') <= Cardinality(UPast(e))
  BY <1>2, <1>3, FS_Subset, FS_CardinalityType
<1>5. ufailed[e] + Cardinality(UPast(e)) <= MaxFailures + Cardinality(UHandler) - 1 + miscounts
  BY DEF UsersInv, LoginsBounded
<1>6. ufailed'[e] \in Nat /\ ufailed[e] \in Nat /\ miscounts \in Nat
  BY UTypes
<1> QED BY <1>3, <1>4, <1>5, <1>6

LEMMA URegsKept ==
  ASSUME UsersInv, NEW h \in UHandler, NEW q \in URequest, ureq' = [ureq EXCEPT ![h] = q],
         q.at \in RegAt => ureq[h].at \in RegAt,
         regs' \in Nat, regs' <= regs, misregs' \in Nat, misregs <= misregs'
  PROVE  regs' + Cardinality(RPast') <= MaxRegs + Cardinality(UHandler) - 1 + misregs'
<1>1. \A g \in UHandler : ureq'[g] = (IF g = h THEN q ELSE ureq[g])
  BY UTypes
<1>2. RPast' \subseteq RPast
  BY <1>1 DEF RPast
<1>3. IsFiniteSet(RPast) /\ Cardinality(RPast) \in Nat /\ Cardinality(UHandler) \in Nat
  BY UCounts
<1>4. Cardinality(RPast') \in Nat /\ Cardinality(RPast') <= Cardinality(RPast)
  BY <1>2, <1>3, FS_Subset, FS_CardinalityType
<1>5. regs + Cardinality(RPast) <= MaxRegs + Cardinality(UHandler) - 1 + misregs
  BY DEF UsersInv, RegsBounded
<1>6. regs \in Nat /\ misregs \in Nat
  BY UTypes
<1> QED BY <1>3, <1>4, <1>5, <1>6

\* A step that changes the request and no bound, row or owner.
LEMMA UOnlyRequest ==
  ASSUME UsersInv, NEW h \in UHandler, NEW q \in URequest, ureq' = [ureq EXCEPT ![h] = q],
         UNCHANGED <<users, limitVars, owners>>, ufaults' \in Nat, ufaults' <= ufaults,
         abandoned' \subseteq Email, abandoned \subseteq abandoned',
         q.at # "allowed", q.at \in RegAt => ureq[h].at \in RegAt,
         HasRow(q, users),
         ureq[h].at = "created" => ureq[h].e \in abandoned'
  PROVE  UsersInv'
<1>1. /\ users' = users /\ ufailed' = ufailed /\ regs' = regs /\ logins' = logins
      /\ miscounts' = miscounts /\ misregs' = misregs /\ owners' = owners
  BY DEF limitVars
<1>2. /\ users' \in [Email -> UserRow] /\ ufailed' \in [Email -> Nat] /\ regs' \in Nat /\ logins' \in Nat
      /\ owners' \in [Email -> SUBSET Password] /\ miscounts' \in Nat /\ misregs' \in Nat
      /\ miscounts' + misregs' + ufaults' <= MaxUFaults
      /\ regs' <= regs /\ misregs <= misregs' /\ miscounts <= miscounts'
      /\ \A e \in Email : ufailed'[e] <= ufailed[e]
  BY <1>1, UTypes
<1>3. \A e \in Email : ufailed'[e] + Cardinality(UPast(e)') <= MaxFailures + Cardinality(UHandler) - 1 + miscounts'
  BY <1>2, ULoginsKept
<1>4. regs' + Cardinality(RPast') <= MaxRegs + Cardinality(UHandler) - 1 + misregs'
  BY <1>2, URegsKept
<1>5. HasRow(q, users')
  BY <1>1
<1> QED BY <1>1, <1>2, <1>3, <1>4, <1>5, UMoves

LEMMA UFailsOrDrops ==
  ASSUME UsersInv, NEW h \in UHandler, UCallFails(h) \/ UDrop(h)
  PROVE  UsersInv'
<1>1. ureq' = [ureq EXCEPT ![h] = UIdle] /\ UNCHANGED <<users, limitVars, owners>>
  BY DEF UCallFails, UDrop, UAnswer
<1>2. ufaults' \in Nat /\ ufaults' <= ufaults
  BY UTypes DEF UCallFails, UDrop, UFault
<1>3. abandoned' = IF ureq[h].at = "created" THEN abandoned \cup {ureq[h].e} ELSE abandoned
  BY DEF UCallFails, UDrop, Abandon, UAt
<1>4. ureq[h].at = "created" => ureq[h].e \in Email
  BY URequestType, UTypes
<1>5. abandoned' \subseteq Email /\ abandoned \subseteq abandoned' /\ (ureq[h].at = "created" => ureq[h].e \in abandoned')
  BY <1>3, <1>4, UTypes
<1>6. UIdle.at # "allowed" /\ UIdle.at \notin RegAt
  BY UIdleKind DEF RegAt
<1> QED BY <1>1, <1>2, <1>5, <1>6, UIdleKind, UOnlyRequest

\* A step that leaves the abandoned registrations alone too.
LEMMA UGoes ==
  ASSUME UsersInv, NEW h \in UHandler, NEW q \in URequest, ureq' = [ureq EXCEPT ![h] = q],
         UNCHANGED <<users, limitVars, owners, abandoned, ufaults>>,
         q.at # "allowed", q.at \in RegAt => ureq[h].at \in RegAt,
         HasRow(q, users), ureq[h].at # "created"
  PROVE  UsersInv'
<1>1. /\ UNCHANGED <<users, limitVars, owners>> /\ ufaults' \in Nat /\ ufaults' <= ufaults
      /\ abandoned' \subseteq Email /\ abandoned \subseteq abandoned'
  BY UTypes
<1> QED BY <1>1, UOnlyRequest

LEMMA URegChecks ==
  ASSUME UsersInv, NEW h \in UHandler, RegCheck(h)
  PROVE  UsersInv'
<1>1. PICK r, w : r = ureq[h] /\ w = r.row
  OBVIOUS
<1>2. r \in URequest /\ r.at = "limited" /\ w \in UserRow
  BY <1>1, UTypes, URequestType DEF RegCheck, UAt
<1>3. PICK q : q = [r EXCEPT !.at = "free"]
  OBVIOUS
<1>4. q \in URequest /\ q.at = "free"
  BY <1>2, <1>3, URequestGo DEF UserAt
<1>5. HasRow(q, users)
  BY <1>4 DEF HasRow
<1>6. /\ ureq' = [ureq EXCEPT ![h] = q] \/ ureq' = [ureq EXCEPT ![h] = UIdle]
      /\ UNCHANGED <<users, limitVars, owners, abandoned, ufaults>>
  BY <1>1, <1>3, UTypes DEF RegCheck, UGo, UAnswer
<1> QED BY <1>1, <1>2, <1>4, <1>5, <1>6, UIdleKind, UGoes DEF RegAt

LEMMA UStarts ==
  ASSUME NEW op \in {"register", "login"}, NEW at \in {"limited", "login"}, NEW e \in Email, NEW pw \in Password
  PROVE  LET q == [op |-> op, at |-> at, e |-> e, pw |-> pw, row |-> NoUser] IN
         q \in URequest /\ q.at = at /\ q.op = op
<1>1. NoUser \in UserRow
  BY DEF NoUser, UserRow
<1> QED BY <1>1 DEF URequest, UserAt

LEMMA ULoginBegins ==
  ASSUME UsersInv, NEW h \in UHandler, NEW e \in Email, NEW pw \in Password, LoginBegin(h, e, pw)
  PROVE  UsersInv'
<1>1. PICK q : q = [op |-> "login", at |-> "login", e |-> e, pw |-> pw, row |-> NoUser]
  OBVIOUS
<1>2. q \in URequest /\ q.at = "login" /\ q.op = "login"
  BY <1>1, UStarts
<1>3. /\ ureq' = [ureq EXCEPT ![h] = q] /\ ureq[h].at = "idle"
      /\ UNCHANGED <<users, limitVars, owners, abandoned, ufaults>>
  BY <1>1 DEF LoginBegin, UStart, UBusy
<1>4. HasRow(q, users)
  BY <1>2 DEF HasRow
<1> QED BY <1>2, <1>3, <1>4, UGoes DEF RegAt

LEMMA ULoginReads ==
  ASSUME UsersInv, NEW h \in UHandler, LoginRead(h)
  PROVE  UsersInv'
<1>1. PICK r : r = ureq[h]
  OBVIOUS
<1>2. r \in URequest /\ r.at = "login" /\ r.e \in Email /\ users[r.e] \in UserRow
  BY <1>1, UTypes, URequestType DEF LoginRead, UAt
<1>3. PICK q, w : w = users[r.e] /\ q = [r EXCEPT !.at = "read", !.row = w]
  OBVIOUS
<1>a. w \in UserRow /\ "read" \in UserAt \ {"idle"} /\ r.at # "idle"
  BY <1>2, <1>3 DEF UserAt
<1>c. r \in [op: {"register", "login"}, at: UserAt \ {"idle"}, e: Email, pw: Password, row: UserRow]
  BY <1>2, <1>a, URequestType
<1>b. q = [r EXCEPT !.at = "read", !.row = w]
  BY <1>3
<1>4. q \in URequest /\ q.at = "read" /\ q.op = r.op /\ q.e = r.e /\ q.pw = r.pw
  BY <1>a, <1>b, <1>c DEF URequest
<1>5. HasRow(q, users)
  <2>1. HasRow(r, users)
    BY <1>1 DEF UsersInv, RowsMade
  <2> QED BY <1>2, <1>4, <2>1 DEF HasRow
<1>6. /\ ureq' = [ureq EXCEPT ![h] = q] \/ ureq' = [ureq EXCEPT ![h] = UIdle]
      /\ UNCHANGED <<users, limitVars, owners, abandoned, ufaults>>
  BY <1>1, <1>3, UTypes DEF LoginRead
<1> QED BY <1>1, <1>2, <1>4, <1>5, <1>6, UIdleKind, UGoes DEF RegAt

LEMMA URowRole ==
  ASSUME NEW w \in UserRow
  PROVE  /\ w.role \in BOOLEAN /\ w.pw \in Password \cup {NoPassword}
         /\ \A b \in BOOLEAN : LET v == [w EXCEPT !.role = b] IN v \in UserRow /\ v.pw = w.pw /\ v.role = b
         /\ \A b \in BOOLEAN : [w EXCEPT !.role = b] = [pw |-> w.pw, role |-> b]
<1>1. w = [pw |-> w.pw, role |-> w.role] /\ w.pw \in Password \cup {NoPassword} /\ w.role \in BOOLEAN
  BY DEF UserRow
<1> QED BY <1>1 DEF UserRow

LEMMA ULoginRoles ==
  ASSUME UsersInv, NEW h \in UHandler, LoginRoles(h)
  PROVE  UsersInv'
<1>1. PICK r : r = ureq[h]
  OBVIOUS
<1>2. r \in URequest /\ r.at = "allowed" /\ r.e \in Email /\ users[r.e] \in UserRow /\ r.row \in UserRow
  BY <1>1, UTypes, URequestType DEF LoginRoles, UAt
<1>3. users[r.e].role \in BOOLEAN
  BY <1>2, URowRole
<1>4. PICK q, w : w = [r.row EXCEPT !.role = users[r.e].role] /\ q = [r EXCEPT !.at = "roles", !.row = w]
  OBVIOUS
<1>5. w \in UserRow
  BY <1>2, <1>3, <1>4, URowRole
<1>a. w \in UserRow /\ "roles" \in UserAt \ {"idle"} /\ r.at # "idle"
  BY <1>2, <1>4, <1>5 DEF UserAt
<1>c. r \in [op: {"register", "login"}, at: UserAt \ {"idle"}, e: Email, pw: Password, row: UserRow]
  BY <1>2, <1>a, URequestType
<1>b. q = [r EXCEPT !.at = "roles", !.row = w]
  BY <1>4
<1>6. q \in URequest /\ q.at = "roles" /\ q.op = r.op /\ q.e = r.e /\ q.pw = r.pw
  BY <1>a, <1>b, <1>c DEF URequest
<1>7. HasRow(q, users)
  <2>1. HasRow(r, users)
    BY <1>1 DEF UsersInv, RowsMade
  <2> QED BY <1>2, <1>6, <2>1 DEF HasRow
<1>8. /\ ureq' = [ureq EXCEPT ![h] = q]
      /\ UNCHANGED <<users, limitVars, owners, abandoned, ufaults>>
  BY <1>1, <1>4, UTypes DEF LoginRoles
<1> QED BY <1>1, <1>2, <1>6, <1>7, <1>8, UGoes DEF RegAt

\* A step that leaves the rows, the owners and the abandoned registrations alone.
LEMMA UCountMoves ==
  ASSUME UsersInv, NEW h \in UHandler, NEW q \in URequest, ureq' = [ureq EXCEPT ![h] = q],
         UNCHANGED <<users, owners, abandoned>>,
         ufailed' \in [Email -> Nat], regs' \in Nat, logins' \in Nat,
         miscounts' \in Nat, misregs' \in Nat, ufaults' \in Nat, miscounts' + misregs' + ufaults' <= MaxUFaults,
         \A e \in Email : ufailed'[e] + Cardinality(UPast(e)') <= MaxFailures + Cardinality(UHandler) - 1 + miscounts',
         regs' + Cardinality(RPast') <= MaxRegs + Cardinality(UHandler) - 1 + misregs',
         HasRow(q, users), ureq[h].at # "created" \/ q = ureq[h]
  PROVE  UsersInv'
<1>1. /\ users' \in [Email -> UserRow] /\ owners' \in [Email -> SUBSET Password]
      /\ abandoned' \subseteq Email /\ abandoned \subseteq abandoned'
      /\ users' = users /\ owners' = owners
  BY UTypes
<1>2. HasRow(q, users')
  BY <1>1
<1>3. \A e \in Email, pw \in Password :
            /\ users[e].pw = pw => users'[e].pw = pw
            /\ users[e] = [pw |-> pw, role |-> TRUE] => users'[e] = [pw |-> pw, role |-> TRUE]
  BY <1>1
<1> QED BY <1>1, <1>2, <1>3, UMoves

LEMMA URegBegins ==
  ASSUME UsersInv, NEW h \in UHandler, NEW e \in Email, NEW pw \in Password, RegBegin(h, e, pw)
  PROVE  UsersInv'
<1>1. PICK q : q = [op |-> "register", at |-> "limited", e |-> e, pw |-> pw, row |-> NoUser]
  OBVIOUS
<1>2. q \in URequest /\ q.at = "limited" /\ q.op = "register"
  BY <1>1, UStarts
<1>3. /\ ureq' = [ureq EXCEPT ![h] = q] /\ ureq[h].at = "idle"
      /\ UNCHANGED <<users, ufailed, regs, logins, miscounts, owners, abandoned>>
  BY <1>1 DEF RegBegin, UStart, UBusy
<1>4. HasRow(q, users)
  BY <1>2 DEF HasRow
<1>5. /\ misregs' \in Nat /\ ufaults' \in Nat /\ miscounts' + misregs' + ufaults' <= MaxUFaults
      /\ (misregs' = misregs /\ regs < MaxRegs) \/ misregs' = misregs + 1
  BY <1>3, UTypes DEF RegBegin, UFault, IpCount
<1>6. /\ ufailed' \in [Email -> Nat] /\ regs' \in Nat /\ logins' \in Nat /\ miscounts' \in Nat /\ miscounts <= miscounts'
      /\ \A f \in Email : ufailed'[f] <= ufailed[f]
  BY <1>3, UTypes
<1>7. \A f \in Email : ufailed'[f] + Cardinality(UPast(f)') <= MaxFailures + Cardinality(UHandler) - 1 + miscounts'
  BY <1>2, <1>3, <1>6, ULoginsKept
<1>8. regs' + Cardinality(RPast') <= MaxRegs + Cardinality(UHandler) - 1 + misregs'
  <2>1. IsFiniteSet(RPast) /\ Cardinality(RPast) \in Nat /\ Cardinality(UHandler) \in Nat
    BY UCounts
  <2>2. RPast' \subseteq UHandler
    BY DEF RPast
  <2>3. Cardinality(RPast') \in Nat /\ Cardinality(RPast') <= Cardinality(UHandler)
    BY <2>2, FS_Subset, FS_CardinalityType
  <2>4. CASE misregs' = misregs /\ regs < MaxRegs
    BY <1>3, <1>6, <2>1, <2>3, <2>4, UTypes
  <2>5. CASE misregs' = misregs + 1
    <3>1. \A g \in UHandler : ureq'[g] = (IF g = h THEN q ELSE ureq[g])
      BY <1>3, UTypes
    <3>2. RPast' = RPast \cup {h} /\ h \notin RPast
      BY <1>2, <1>3, <3>1 DEF RPast, RegAt
    <3>3. Cardinality(RPast') = Cardinality(RPast) + 1
      BY <2>1, <3>2, FS_AddElement
    <3>4. regs + Cardinality(RPast) <= MaxRegs + Cardinality(UHandler) - 1 + misregs
      BY DEF UsersInv, RegsBounded
    <3> QED BY <1>3, <2>1, <2>5, <3>3, <3>4, UTypes
  <2> QED BY <1>5, <2>4, <2>5
<1> QED BY <1>2, <1>3, <1>4, <1>5, <1>6, <1>7, <1>8, UCountMoves

LEMMA URegLogs ==
  ASSUME UsersInv, NEW h \in UHandler, RegLog(h)
  PROVE  UsersInv'
<1>1. PICK r, w : r = ureq[h] /\ w = r.row
  OBVIOUS
<1>2. r \in URequest /\ r.at = "roled" /\ w \in UserRow
  BY <1>1, UTypes, URequestType DEF RegLog, UAt
<1>3. PICK q : q = [r EXCEPT !.at = "login"]
  OBVIOUS
<1>4. q \in URequest /\ q.at = "login" /\ q.op = r.op /\ q.e = r.e /\ q.pw = r.pw
  BY <1>2, <1>3, URequestGo DEF UserAt
<1>5. HasRow(q, users)
  <2>1. HasRow(r, users)
    BY <1>1 DEF UsersInv, RowsMade
  <2> QED BY <1>2, <1>4, <2>1 DEF HasRow
<1>6. /\ ureq' = [ureq EXCEPT ![h] = q]
      /\ UNCHANGED <<users, ufailed, logins, miscounts, misregs, owners, abandoned>>
  BY <1>1, <1>3, UTypes DEF RegLog, UGo
<1>7. regs' \in Nat /\ regs' <= regs + 1 /\ ufaults' \in Nat /\ ufaults' <= ufaults
  BY UTypes DEF RegLog, UFault
<1>8. /\ ufailed' \in [Email -> Nat] /\ logins' \in Nat /\ miscounts' \in Nat /\ miscounts <= miscounts' /\ misregs' \in Nat
      /\ \A f \in Email : ufailed'[f] <= ufailed[f]
      /\ miscounts' + misregs' + ufaults' <= MaxUFaults
  BY <1>6, <1>7, UTypes
<1>9. \A f \in Email : ufailed'[f] + Cardinality(UPast(f)') <= MaxFailures + Cardinality(UHandler) - 1 + miscounts'
  BY <1>4, <1>6, <1>8, ULoginsKept
<1>10. regs' + Cardinality(RPast') <= MaxRegs + Cardinality(UHandler) - 1 + misregs'
  <2>1. IsFiniteSet(RPast) /\ Cardinality(RPast) \in Nat /\ Cardinality(UHandler) \in Nat
    BY UCounts
  <2>2. \A g \in UHandler : ureq'[g] = (IF g = h THEN q ELSE ureq[g])
    BY <1>6, UTypes
  <2>3. RPast' = RPast \ {h} /\ h \in RPast
    BY <1>1, <1>2, <1>4, <2>2 DEF RPast, RegAt
  <2>4. Cardinality(RPast') = Cardinality(RPast) - 1
    BY <2>1, <2>3, FS_RemoveElement
  <2>5. regs + Cardinality(RPast) <= MaxRegs + Cardinality(UHandler) - 1 + misregs
    BY DEF UsersInv, RegsBounded
  <2> QED BY <1>6, <1>7, <2>1, <2>4, <2>5, UTypes
<1> QED BY <1>1, <1>2, <1>4, <1>5, <1>6, <1>7, <1>8, <1>9, <1>10, UCountMoves

LEMMA ULoginCounts ==
  ASSUME UsersInv, NEW h \in UHandler, LoginCount(h)
  PROVE  UsersInv'
<1>1. PICK r, w : r = ureq[h] /\ w = r.row
  OBVIOUS
<1>2. r \in URequest /\ r.at = "read" /\ w \in UserRow /\ r.e \in Email
  BY <1>1, UTypes, URequestType DEF LoginCount, UAt
<1>3. PICK q : q = [r EXCEPT !.at = "allowed"]
  OBVIOUS
<1>4. q \in URequest /\ q.at = "allowed" /\ q.op = r.op /\ q.e = r.e /\ q.pw = r.pw
  BY <1>2, <1>3, URequestGo DEF UserAt
<1>5. HasRow(q, users)
  <2>1. HasRow(r, users)
    BY <1>1 DEF UsersInv, RowsMade
  <2> QED BY <1>2, <1>4, <2>1 DEF HasRow
<1>6. UNCHANGED <<users, ufailed, regs, logins, misregs, owners, abandoned>>
  BY DEF LoginCount
<1>7. /\ ufailed' \in [Email -> Nat] /\ regs' \in Nat /\ logins' \in Nat /\ misregs' \in Nat
      /\ regs' <= regs /\ misregs <= misregs' /\ \A f \in Email : ufailed'[f] <= ufailed[f]
  BY <1>6, UTypes
<1>8. CASE ureq' = [ureq EXCEPT ![h] = UIdle] /\ UNCHANGED <<miscounts, ufaults>>
  BY <1>1, <1>2, <1>6, <1>8, UIdleKind, UGoes DEF limitVars, RegAt
<1>9. ASSUME ureq' = [ureq EXCEPT ![h] = q],
             \/ UNCHANGED <<miscounts, ufaults>> /\ ufailed[r.e] < MaxFailures
             \/ UFault /\ miscounts' = miscounts + 1
      PROVE  UsersInv'
  <2>1. miscounts' \in Nat /\ ufaults' \in Nat /\ miscounts' + misregs' + ufaults' <= MaxUFaults /\ miscounts <= miscounts'
    BY <1>6, <1>9, UTypes DEF UFault
  <2>2. regs' + Cardinality(RPast') <= MaxRegs + Cardinality(UHandler) - 1 + misregs'
    BY <1>4, <1>7, <1>9, URegsKept DEF RegAt
  <2>3. \A g \in UHandler : ureq'[g] = (IF g = h THEN q ELSE ureq[g])
    BY <1>9, UTypes
  <2>4. ASSUME NEW f \in Email
        PROVE ufailed'[f] + Cardinality(UPast(f)') <= MaxFailures + Cardinality(UHandler) - 1 + miscounts'
    <3>1. IsFiniteSet(UPast(f)) /\ Cardinality(UPast(f)) \in Nat /\ Cardinality(UHandler) \in Nat
      BY UCounts
    <3>2. ufailed[f] + Cardinality(UPast(f)) <= MaxFailures + Cardinality(UHandler) - 1 + miscounts
      BY DEF UsersInv, LoginsBounded
    <3>3. ufailed'[f] = ufailed[f] /\ ufailed[f] \in Nat /\ miscounts \in Nat
      BY <1>6, UTypes
    <3>4. CASE f = r.e /\ miscounts' = miscounts + 1
      <4>1. UPast(f)' = UPast(f) \cup {h} /\ h \notin UPast(f)
        BY <1>1, <1>2, <1>4, <2>3, <3>4 DEF UPast, UAt
      <4>2. Cardinality(UPast(f)') = Cardinality(UPast(f)) + 1
        BY <3>1, <4>1, FS_AddElement
      <4> QED BY <3>1, <3>2, <3>3, <3>4, <4>2
    <3>5. CASE f = r.e /\ miscounts' = miscounts /\ ufailed[r.e] < MaxFailures
      <4>1. UPast(f)' \subseteq UHandler
        BY DEF UPast
      <4>2. Cardinality(UPast(f)') \in Nat /\ Cardinality(UPast(f)') <= Cardinality(UHandler)
        BY <4>1, FS_Subset, FS_CardinalityType
      <4> QED BY <3>1, <3>3, <3>5, <4>2
    <3>6. CASE f # r.e
      <4>1. UPast(f)' \subseteq UPast(f)
        BY <1>4, <2>3, <3>6 DEF UPast, UAt
      <4>2. Cardinality(UPast(f)') \in Nat /\ Cardinality(UPast(f)') <= Cardinality(UPast(f))
        BY <3>1, <4>1, FS_Subset, FS_CardinalityType
      <4> QED BY <2>1, <3>1, <3>2, <3>3, <4>2
    <3> QED BY <1>9, <3>4, <3>5, <3>6
  <2> QED BY <1>1, <1>2, <1>4, <1>5, <1>6, <1>7, <1>9, <2>1, <2>2, <2>4, UCountMoves
<1>10. \/ ureq' = [ureq EXCEPT ![h] = UIdle] /\ UNCHANGED <<miscounts, ufaults>>
       \/ ureq' = [ureq EXCEPT ![h] = q] /\ UNCHANGED <<miscounts, ufaults>> /\ ufailed[r.e] < MaxFailures
       \/ ureq' = [ureq EXCEPT ![h] = q] /\ UFault /\ miscounts' = miscounts + 1
  <2>1. ufailed[r.e] \in Nat
    BY <1>2, UTypes
  <2> QED BY <1>1, <1>3, <2>1, UTypes DEF LoginCount, UserLocked, UGo, UAnswer
<1> QED BY <1>8, <1>9, <1>10

LEMMA ULoginRefuses ==
  ASSUME UsersInv, NEW h \in UHandler, LoginRefuse(h)
  PROVE  UsersInv'
<1>1. PICK r : r = ureq[h]
  OBVIOUS
<1>2. r \in URequest /\ r.at = "allowed" /\ r.e \in Email
  BY <1>1, UTypes, URequestType DEF LoginRefuse, UAt
<1>3. ureq' = [ureq EXCEPT ![h] = UIdle] /\ UNCHANGED <<users, regs, logins, miscounts, misregs, owners, abandoned>>
  BY DEF LoginRefuse, UAnswer
<1>4. ufaults' \in Nat /\ ufaults' <= ufaults
  BY UTypes DEF LoginRefuse, UFault
<1>5. \/ ufailed' = [ufailed EXCEPT ![r.e] = @ + 1]
      \/ ufailed' = ufailed
  BY <1>1 DEF LoginRefuse
<1>6. ufailed' \in [Email -> Nat] /\ \A f \in Email : ufailed'[f] <= ufailed[f] + (IF f = r.e THEN 1 ELSE 0)
  BY <1>5, UTypes
<1>7. /\ regs' \in Nat /\ logins' \in Nat /\ miscounts' \in Nat /\ misregs' \in Nat
      /\ miscounts <= miscounts' /\ misregs <= misregs' /\ regs' <= regs
      /\ miscounts' + misregs' + ufaults' <= MaxUFaults
  BY <1>3, <1>4, UTypes
<1>8. regs' + Cardinality(RPast') <= MaxRegs + Cardinality(UHandler) - 1 + misregs'
  BY <1>3, <1>7, UIdleKind, URegsKept DEF RegAt
<1>9. ASSUME NEW f \in Email
      PROVE ufailed'[f] + Cardinality(UPast(f)') <= MaxFailures + Cardinality(UHandler) - 1 + miscounts'
  <2>1. CASE f = r.e
    <3>1. IsFiniteSet(UPast(f)) /\ Cardinality(UPast(f)) \in Nat /\ Cardinality(UHandler) \in Nat
      BY UCounts
    <3>2. \A g \in UHandler : ureq'[g] = (IF g = h THEN UIdle ELSE ureq[g])
      BY <1>3, UTypes
    <3>3. UPast(f)' = UPast(f) \ {h} /\ h \in UPast(f)
      BY <1>1, <1>2, <2>1, <3>2, UIdleKind DEF UPast, UAt
    <3>4. Cardinality(UPast(f)') = Cardinality(UPast(f)) - 1
      BY <3>1, <3>3, FS_RemoveElement
    <3>5. ufailed[f] + Cardinality(UPast(f)) <= MaxFailures + Cardinality(UHandler) - 1 + miscounts
      BY DEF UsersInv, LoginsBounded
    <3>6. ufailed'[f] <= ufailed[f] + 1 /\ ufailed[f] \in Nat /\ ufailed'[f] \in Nat /\ miscounts' = miscounts /\ miscounts \in Nat
      BY <1>3, <1>6, <2>1, UTypes
    <3> QED BY <3>1, <3>4, <3>5, <3>6
  <2>2. CASE f # r.e
    <3>1. ufailed'[f] <= ufailed[f]
      BY <1>5, <1>6, <2>2, UTypes
    <3> QED BY <1>3, <1>6, <1>7, <3>1, UIdleKind, ULoginsKept
  <2> QED BY <2>1, <2>2
<1> QED BY <1>1, <1>2, <1>3, <1>4, <1>6, <1>7, <1>8, <1>9, UIdleKind, UCountMoves

LEMMA UAges ==
  ASSUME UsersInv, NEW e \in Email, UAge(e)
  PROVE  UsersInv'
<1>1. PICK h \in UHandler, q \in URequest : q = ureq[h] /\ ureq' = [ureq EXCEPT ![h] = q]
  BY UTypes DEF UAge
<1>2. UNCHANGED <<users, owners, abandoned>> /\ miscounts' = miscounts /\ misregs' = misregs /\ ufaults' = ufaults
  BY DEF UAge
<1>3. ufailed' \in [Email -> Nat] /\ \A f \in Email : ufailed'[f] <= ufailed[f]
  BY UTypes DEF UAge
<1>4. regs' \in Nat /\ regs' <= regs /\ logins' \in Nat
  BY UTypes DEF UAge
<1>5. /\ miscounts' \in Nat /\ misregs' \in Nat /\ ufaults' \in Nat /\ miscounts <= miscounts' /\ misregs <= misregs'
      /\ miscounts' + misregs' + ufaults' <= MaxUFaults
  BY <1>2, UTypes
<1>6. regs' + Cardinality(RPast') <= MaxRegs + Cardinality(UHandler) - 1 + misregs'
  BY <1>1, <1>4, <1>5, URegsKept
<1>7. \A f \in Email : ufailed'[f] + Cardinality(UPast(f)') <= MaxFailures + Cardinality(UHandler) - 1 + miscounts'
  BY <1>1, <1>3, <1>5, ULoginsKept
<1>8. HasRow(q, users)
  BY <1>1 DEF UsersInv, RowsMade
<1> QED BY <1>1, <1>2, <1>3, <1>4, <1>5, <1>6, <1>7, <1>8, UCountMoves

\* A step that leaves the counts alone.
LEMMA URowMoves ==
  ASSUME UsersInv, NEW h \in UHandler, NEW q \in URequest, ureq' = [ureq EXCEPT ![h] = q],
         UNCHANGED <<ufailed, regs, miscounts, misregs>>, logins' \in Nat, ufaults' \in Nat, ufaults' <= ufaults,
         q.at # "allowed", q.at \in RegAt => ureq[h].at \in RegAt,
         users' \in [Email -> UserRow],
         owners' \in [Email -> SUBSET Password], abandoned' \subseteq Email, abandoned \subseteq abandoned',
         \A e \in Email, pw \in Password :
            /\ users[e].pw = pw => users'[e].pw = pw
            /\ users[e] = [pw |-> pw, role |-> TRUE] => users'[e] = [pw |-> pw, role |-> TRUE],
         HasRow(q, users'),
         \A e \in Email, pw \in Password :
            pw \in owners'[e] => pw \in owners[e] \/ users'[e] = [pw |-> pw, role |-> TRUE],
         \A e \in Email : users'[e].pw # NoPassword /\ ~users'[e].role =>
            \/ users[e].pw # NoPassword /\ ~users[e].role
            \/ e \in abandoned' \/ (q.at = "created" /\ q.e = e),
         ureq[h].at = "created" =>
            \/ users'[ureq[h].e].role \/ ureq[h].e \in abandoned'
            \/ q.at = "created" /\ q.e = ureq[h].e
  PROVE  UsersInv'
<1>1. /\ ufailed' \in [Email -> Nat] /\ regs' \in Nat /\ miscounts' \in Nat /\ misregs' \in Nat
      /\ miscounts' + misregs' + ufaults' <= MaxUFaults
      /\ regs' <= regs /\ misregs <= misregs' /\ miscounts <= miscounts'
      /\ \A e \in Email : ufailed'[e] <= ufailed[e]
  BY UTypes
<1>2. \A e \in Email : ufailed'[e] + Cardinality(UPast(e)') <= MaxFailures + Cardinality(UHandler) - 1 + miscounts'
  BY <1>1, ULoginsKept
<1>3. regs' + Cardinality(RPast') <= MaxRegs + Cardinality(UHandler) - 1 + misregs'
  BY <1>1, URegsKept
<1> QED BY <1>1, <1>2, <1>3, UMoves

LEMMA URegRoles ==
  ASSUME UsersInv, NEW h \in UHandler, RegRole(h)
  PROVE  UsersInv'
<1>1. PICK r, w : r = ureq[h] /\ w = r.row
  OBVIOUS
<1>2. r \in URequest /\ r.at = "created" /\ r.e \in Email /\ r.pw \in Password /\ w \in UserRow /\ users[r.e] \in UserRow
  BY <1>1, UTypes, URequestType DEF RegRole, UAt
<1>3. PICK q : q = [r EXCEPT !.at = "roled"]
  OBVIOUS
<1>4. q \in URequest /\ q.at = "roled" /\ q.op = r.op /\ q.e = r.e /\ q.pw = r.pw
  BY <1>2, <1>3, URequestGo DEF UserAt
<1>5. /\ ureq' = [ureq EXCEPT ![h] = q] /\ UNCHANGED <<ufailed, regs, miscounts, misregs, logins, owners, abandoned, ufaults>>
  BY <1>1, <1>3, UTypes DEF RegRole, UGo, limitVars
<1>6. users[r.e].pw = r.pw
  BY <1>1, <1>2 DEF UsersInv, RowsMade, HasRow
<1>7. PICK v : v = [users[r.e] EXCEPT !.role = TRUE]
  OBVIOUS
<1>a. v = [pw |-> users[r.e].pw, role |-> TRUE]
  BY <1>2, <1>7, URowRole
<1>8. v \in UserRow /\ v.pw = users[r.e].pw /\ v.role = TRUE /\ v = [pw |-> r.pw, role |-> TRUE]
  BY <1>2, <1>6, <1>a DEF UserRow
<1>9. users' = [users EXCEPT ![r.e] = v]
  BY <1>1, <1>7, UTypes DEF RegRole
<1>10. users' \in [Email -> UserRow] /\ \A f \in Email : users'[f] = (IF f = r.e THEN v ELSE users[f])
  BY <1>2, <1>8, <1>9, UTypes
<1>11. \A f \in Email, pw \in Password :
            /\ users[f].pw = pw => users'[f].pw = pw
            /\ users[f] = [pw |-> pw, role |-> TRUE] => users'[f] = [pw |-> pw, role |-> TRUE]
  <2>1. \A f \in Email, pw \in Password : users[f].pw = pw => users'[f].pw = pw
    BY <1>8, <1>10
  <2>2. ASSUME NEW pw \in Password, users[r.e] = [pw |-> pw, role |-> TRUE] PROVE v = [pw |-> pw, role |-> TRUE]
    <3>1. users[r.e].pw = pw
      BY <2>2
    <3> QED BY <1>6, <1>8, <3>1
  <2> QED BY <1>10, <2>1, <2>2
<1>12. HasRow(q, users')
  BY <1>2, <1>4, <1>8, <1>10 DEF HasRow
<1>13. /\ logins' \in Nat /\ ufaults' \in Nat /\ ufaults' <= ufaults /\ owners' \in [Email -> SUBSET Password]
       /\ abandoned' \subseteq Email /\ abandoned \subseteq abandoned'
       /\ \A f \in Email, pw \in Password : pw \in owners'[f] => pw \in owners[f]
  BY <1>5, UTypes
<1>14. \A f \in Email : users'[f].pw # NoPassword /\ ~users'[f].role => users[f].pw # NoPassword /\ ~users[f].role
  BY <1>8, <1>10
<1>15. users'[ureq[h].e].role
  BY <1>1, <1>2, <1>8, <1>10
<1>16. q.at # "allowed" /\ ureq[h].at \in RegAt
  BY <1>1, <1>2, <1>4 DEF RegAt
<1>17. UNCHANGED <<ufailed, regs, miscounts, misregs>>
  BY <1>5
<1> QED BY <1>4, <1>5, <1>10, <1>11, <1>12, <1>13, <1>14, <1>15, <1>16, <1>17, URowMoves

LEMMA URegCreates ==
  ASSUME UsersInv, NEW h \in UHandler, RegCreate(h)
  PROVE  UsersInv'
<1>1. PICK r, w : r = ureq[h] /\ w = r.row
  OBVIOUS
<1>2. r \in URequest /\ r.at = "free" /\ r.e \in Email /\ r.pw \in Password /\ w \in UserRow /\ users[r.e] \in UserRow
  BY <1>1, UTypes, URequestType DEF RegCreate, UAt
<1>3. CASE Registered(r.e)
  <2>1. ureq' = [ureq EXCEPT ![h] = UIdle] /\ UNCHANGED <<users, limitVars, owners, abandoned, ufaults>>
    BY <1>1, <1>3 DEF RegCreate, UAnswer
  <2>2. ureq[h].at # "created" /\ UIdle.at # "allowed" /\ UIdle.at \notin RegAt
    BY <1>1, <1>2, UIdleKind DEF RegAt
  <2> QED BY <2>1, <2>2, UIdleKind, UGoes
<1>4. CASE ~Registered(r.e)
  <2>1. PICK q : q = [r EXCEPT !.at = "created"]
    OBVIOUS
  <2>2. q \in URequest /\ q.at = "created" /\ q.op = r.op /\ q.e = r.e /\ q.pw = r.pw
    BY <1>2, <2>1, URequestGo DEF UserAt
  <2>3. PICK v : v = [pw |-> r.pw, role |-> FALSE]
    OBVIOUS
  <2>4. v \in UserRow /\ v.pw = r.pw /\ users[r.e].pw = NoPassword
    BY <1>2, <1>4, <2>3 DEF UserRow, Registered
  <2>5. users' = [users EXCEPT ![r.e] = v] /\ UNCHANGED <<ufailed, regs, miscounts, misregs, logins, owners>>
    BY <1>1, <1>4, <2>3 DEF RegCreate, limitVars
  <2>6. users' \in [Email -> UserRow] /\ \A f \in Email : users'[f] = (IF f = r.e THEN v ELSE users[f])
    BY <1>2, <2>4, <2>5, UTypes
  <2>7. \A f \in Email, pw \in Password :
            /\ users[f].pw = pw => users'[f].pw = pw
            /\ users[f] = [pw |-> pw, role |-> TRUE] => users'[f] = [pw |-> pw, role |-> TRUE]
    <3>1. \A pw \in Password : users[r.e].pw # pw
      BY <2>4
    <3>2. \A pw \in Password : users[r.e] # [pw |-> pw, role |-> TRUE]
      BY <3>1
    <3> QED BY <2>6, <3>1, <3>2
  <2>8. /\ logins' \in Nat /\ owners' \in [Email -> SUBSET Password]
        /\ \A f \in Email, pw \in Password : pw \in owners'[f] => pw \in owners[f]
    BY <2>5, UTypes
  <2>9. UNCHANGED <<ufailed, regs, miscounts, misregs>>
    BY <2>5
  <2>10. CASE UGo(h, "created") /\ UNCHANGED <<abandoned, ufaults>>
    <3>1. ureq' = [ureq EXCEPT ![h] = q]
      BY <1>1, <2>1, <2>10, UTypes DEF UGo
    <3>2. ufaults' \in Nat /\ ufaults' <= ufaults /\ abandoned' \subseteq Email /\ abandoned \subseteq abandoned'
      BY <2>10, UTypes
    <3>3. HasRow(q, users')
      BY <1>2, <2>2, <2>4, <2>6 DEF HasRow
    <3>4. \A f \in Email : users'[f].pw # NoPassword /\ ~users'[f].role =>
            (users[f].pw # NoPassword /\ ~users[f].role) \/ (q.at = "created" /\ q.e = f)
      BY <2>2, <2>6
    <3>5. q.at # "allowed" /\ ureq[h].at \in RegAt /\ ureq[h].at # "created"
      BY <1>1, <1>2, <2>2 DEF RegAt
    <3>6. \A f \in Email : users'[f].pw # NoPassword /\ ~users'[f].role =>
            \/ users[f].pw # NoPassword /\ ~users[f].role
            \/ f \in abandoned' \/ (q.at = "created" /\ q.e = f)
      BY <3>4
    <3>7. q \in URequest /\ users' \in [Email -> UserRow]
      BY <2>2, <2>6
    <3> QED BY <2>7, <2>8, <2>9, <3>1, <3>2, <3>3, <3>5, <3>6, <3>7, URowMoves
  <2>11. CASE UFault /\ UAnswer(h) /\ abandoned' = abandoned \cup {r.e}
    <3>1. ureq' = [ureq EXCEPT ![h] = UIdle]
      BY <2>11 DEF UAnswer
    <3>2. ufaults' \in Nat /\ ufaults' <= ufaults /\ abandoned' \subseteq Email /\ abandoned \subseteq abandoned'
      BY <1>2, <2>11, UTypes DEF UFault
    <3>4. \A f \in Email : users'[f].pw # NoPassword /\ ~users'[f].role =>
            (users[f].pw # NoPassword /\ ~users[f].role) \/ f \in abandoned'
      BY <2>6, <2>11
    <3>5. UIdle.at # "allowed" /\ UIdle.at \notin RegAt /\ ureq[h].at # "created" /\ UIdle.at # "created"
      BY <1>1, <1>2, UIdleKind DEF RegAt
    <3>6. UIdle \in URequest /\ HasRow(UIdle, users')
      BY UIdleKind
    <3> QED BY <2>6, <2>7, <2>8, <2>9, <3>1, <3>2, <3>4, <3>5, <3>6, URowMoves
  <2> QED BY <1>1, <1>4, <2>10, <2>11 DEF RegCreate
<1> QED BY <1>3, <1>4

LEMMA ULoginIssues ==
  ASSUME UsersInv, NEW h \in UHandler, LoginIssue(h)
  PROVE  UsersInv'
<1>1. PICK r : r = ureq[h]
  OBVIOUS
<1>2. r \in URequest /\ r.at = "roles" /\ r.e \in Email /\ r.pw \in Password
  BY <1>1, UTypes, URequestType DEF LoginIssue, UAt
<1>3. r.op = "register" => users[r.e] = [pw |-> r.pw, role |-> TRUE]
  BY <1>1, <1>2 DEF UsersInv, RowsMade, HasRow
<1>4. /\ ureq' = [ureq EXCEPT ![h] = UIdle] /\ UNCHANGED <<users, ufailed, regs, miscounts, misregs, abandoned>>
      /\ owners' = IF r.op = "register" THEN [owners EXCEPT ![r.e] = @ \cup {r.pw}] ELSE owners
  BY <1>1 DEF LoginIssue, UAnswer
<1>5. logins' \in Nat /\ ufaults' \in Nat /\ ufaults' <= ufaults
  BY UTypes DEF LoginIssue, UFault
<1>6. /\ owners' \in [Email -> SUBSET Password]
      /\ \A f \in Email, pw \in Password : pw \in owners'[f] => pw \in owners[f] \/ (r.op = "register" /\ f = r.e /\ pw = r.pw)
  BY <1>2, <1>4, UTypes
<1>7. \A f \in Email, pw \in Password : pw \in owners'[f] => pw \in owners[f] \/ users'[f] = [pw |-> pw, role |-> TRUE]
  BY <1>3, <1>4, <1>6
<1>8. /\ users' = users /\ users' \in [Email -> UserRow] /\ abandoned' \subseteq Email /\ abandoned \subseteq abandoned'
      /\ UNCHANGED <<ufailed, regs, miscounts, misregs>>
  BY <1>4, UTypes
<1>9. UIdle.at # "allowed" /\ UIdle.at \notin RegAt /\ ureq[h].at # "created"
  BY <1>1, <1>2, UIdleKind DEF RegAt
<1>10. UIdle \in URequest /\ HasRow(UIdle, users')
  BY UIdleKind
<1>11. \A e \in Email, pw \in Password :
            /\ users[e].pw = pw => users'[e].pw = pw
            /\ users[e] = [pw |-> pw, role |-> TRUE] => users'[e] = [pw |-> pw, role |-> TRUE]
  BY <1>8
<1>12. \A e \in Email : users'[e].pw # NoPassword /\ ~users'[e].role => users[e].pw # NoPassword /\ ~users[e].role
  BY <1>8
<1> QED BY <1>4, <1>5, <1>6, <1>7, <1>8, <1>9, <1>10, <1>11, <1>12, URowMoves

LEMMA UsersStutters ==
  ASSUME UsersInv, UNCHANGED usersVars PROVE UsersInv'
<1>1. /\ users' = users /\ ufailed' = ufailed /\ regs' = regs /\ logins' = logins /\ miscounts' = miscounts
      /\ misregs' = misregs /\ ureq' = ureq /\ owners' = owners /\ abandoned' = abandoned /\ ufaults' = ufaults
  BY DEF usersVars, limitVars
<1>2. RPast' = RPast /\ \A e : UPast(e)' = UPast(e)
  BY <1>1 DEF RPast, UPast, UAt
<1>3. LoginsBounded' /\ RegsBounded'
  BY <1>1, <1>2 DEF UsersInv, LoginsBounded, RegsBounded
<1>4. UsersShapes' /\ RowsMade' /\ OwnerKept' /\ RolelessExplained'
  BY <1>1 DEF UsersInv, UsersShapes, RowsMade, HasRow, OwnerKept, RolelessExplained, Registered, UAt
<1> QED BY <1>3, <1>4 DEF UsersInv

\* UsersInv is kept by every step of a registration or a login.
LEMMA UsersInductive == UsersInv /\ [UsersNext]_usersVars => UsersInv'
<1> SUFFICES ASSUME UsersInv, [UsersNext]_usersVars PROVE UsersInv'
  OBVIOUS
<1>1. ASSUME NEW h \in UHandler, NEW e \in Email, NEW pw \in Password, RegBegin(h, e, pw) PROVE UsersInv'
  BY <1>1, URegBegins
<1>2. ASSUME NEW h \in UHandler, NEW e \in Email, NEW pw \in Password, LoginBegin(h, e, pw) PROVE UsersInv'
  BY <1>2, ULoginBegins
<1>3. ASSUME NEW h \in UHandler, RegCheck(h) \/ RegCreate(h) \/ RegRole(h) \/ RegLog(h) PROVE UsersInv'
  BY <1>3, URegChecks, URegCreates, URegRoles, URegLogs
<1>4. ASSUME NEW h \in UHandler, LoginRead(h) \/ LoginCount(h) \/ LoginRefuse(h) PROVE UsersInv'
  BY <1>4, ULoginReads, ULoginCounts, ULoginRefuses
<1>5. ASSUME NEW h \in UHandler, LoginRoles(h) \/ LoginIssue(h) \/ UCallFails(h) \/ UDrop(h) PROVE UsersInv'
  BY <1>5, ULoginRoles, ULoginIssues, UFailsOrDrops
<1>6. ASSUME NEW e \in Email, UAge(e) PROVE UsersInv'
  BY <1>6, UAges
<1>7. CASE UNCHANGED usersVars
  BY <1>7, UsersStutters
<1> QED BY <1>1, <1>2, <1>3, <1>4, <1>5, <1>6, <1>7 DEF UsersNext

LEMMA UsersInvCorrect == UsersInv => UsersCorrect
<1> SUFFICES ASSUME UsersInv PROVE UsersCorrect
  OBVIOUS
<1>1. UsersTypeOK
  <2>1. ASSUME NEW q \in URequest PROVE q \in UserRequest \cup {UIdle}
    BY DEF URequest, UserRequest
  <2>2. miscounts \in 0..MaxUFaults /\ misregs \in 0..MaxUFaults /\ ufaults \in 0..MaxUFaults
    BY UTypes
  <2> QED BY <2>1, <2>2, UTypes DEF UsersTypeOK
<1>2. ASSUME NEW e \in Email PROVE ufailed[e] <= MaxFailures + Cardinality(UHandler) - 1 + miscounts
  <2>1. Cardinality(UPast(e)) \in Nat /\ Cardinality(UHandler) \in Nat
    BY UCounts
  <2>2. ufailed[e] + Cardinality(UPast(e)) <= MaxFailures + Cardinality(UHandler) - 1 + miscounts
    BY DEF UsersInv, LoginsBounded
  <2>3. ufailed[e] \in Nat /\ miscounts \in Nat
    BY UTypes
  <2> QED BY <2>1, <2>2, <2>3
<1>3. RegistrationBound
  <2>1. Cardinality(RPast) \in Nat /\ Cardinality(UHandler) \in Nat
    BY UCounts
  <2>2. regs + Cardinality(RPast) <= MaxRegs + Cardinality(UHandler) - 1 + misregs
    BY DEF UsersInv, RegsBounded
  <2> QED BY <2>1, <2>2, UTypes DEF RegistrationBound
<1> QED BY <1>1, <1>2, <1>3 DEF UsersInv, UsersCorrect, UserLockoutBound

\* However registrations and logins of the auth controller interleave, fail or are
\* dropped: failed logins and registrations pass their limits only by the handlers
\* that run at once and the counts taken as 0, an answered registration owns the
\* account with its role, and a user without a role is one whose registration is
\* between its two inserts or ended there.
THEOREM UsersCorrectProved == UsersSpec => []UsersCorrect
<1>1. UsersSpec => []UsersInv
  BY UsersInitInv, UsersInductive, PTL DEF UsersSpec
<1> QED BY <1>1, UsersInvCorrect, PTL

HIDE UsersAssumption

-----------------------------------------------------------------------------
(* The meeting endpoints of the global controller. *)

\* The requests under way.  One that collided keeps the code and the count it had.
LTries   == 0..(Retries - 1)
LDrawing == [op: {"create"}, at: {"draw"}, user: User, tries: LTries, set: Settings]
LCreates == [op: {"create"}, at: {"draw", "counting"}, user: User, tries: LTries, set: Settings,
             code: Code, cnt: Nat]
LEnters  == [op: {"join", "guest"}, at: {"admitted", "assigned"}, user: User, id: Nat, row: Room]
LPatches == [op: {"patch"}, at: {"found"}, user: User, id: Nat, row: Room, patch: Patch]
LRequest == {LIdle} \cup LDrawing \cup LCreates \cup LEnters \cup LPatches

LAllows == {"guest waits", "guest enters", "external"}
LobbyShapes ==
    /\ rooms \in Seq(Room)
    /\ ordered \in Seq(Settings) /\ Len(ordered) = Len(rooms)
    /\ lreq \in [LHandler -> LRequest]
    /\ allowed \in [LHandler -> SUBSET LAllows]
    /\ \A h \in LHandler : lreq[h] \in LEnters \cup LPatches => lreq[h].id \in DOMAIN rooms

\* The inserts under way for an organization whose count lets them through.
Inserting(o) == {h \in LHandler : /\ LIn(h, {"create"}, "counting")
                                  /\ HomeOrg[lreq[h].user] = o /\ UnderLimit(lreq[h].cnt)}

\* Of the inserts that will go through, the last to count saw all the rows before them.
InsertsBounded ==
    \A o \in Org : Cardinality(Open(o)) + Cardinality(Inserting(o)) <= Limit + Cardinality(LHandler) - 1

\* The row a request was admitted by is one of the settings it has seen.
SeenSettings ==
    \A h \in LHandler : lreq[h] \in LEnters =>
        /\ Admits(lreq[h].row.set) \subseteq allowed[h]
        /\ Admitted(lreq[h].op, lreq[h].user, lreq[h].row.set, lreq[h].row.org)

LobbyInv == LobbyShapes /\ InsertsBounded /\ CodesApart /\ NoLostSetting /\ SeenSettings

USE LobbyAssumption

\* The kinds of request are told apart by their operation.
LEMMA LKinds ==
  ASSUME NEW q \in LRequest, q # LIdle
  PROVE  /\ q.at # "idle"
         /\ q.op = "create" <=> q \in LDrawing \cup LCreates
         /\ q.op \in {"join", "guest"} <=> q \in LEnters
         /\ q.op = "patch" <=> q \in LPatches
         /\ q.op = "create" /\ q.at = "counting" => q \in LCreates
         /\ q.op \in {"create", "join", "guest", "patch"} /\ q.at \in LAt
<1>1. CASE q \in LDrawing
  BY <1>1 DEF LDrawing, LCreates, LEnters, LPatches, LAt
<1>2. CASE q \in LCreates
  BY <1>2 DEF LDrawing, LCreates, LEnters, LPatches, LAt
<1>3. CASE q \in LEnters
  BY <1>3 DEF LDrawing, LCreates, LEnters, LPatches, LAt
<1>4. CASE q \in LPatches
  BY <1>4 DEF LDrawing, LCreates, LEnters, LPatches, LAt
<1> QED BY <1>1, <1>2, <1>3, <1>4 DEF LRequest

LEMMA LIdleKind == LIdle \in LRequest /\ LIdle.at = "idle" /\ LIdle \notin LEnters \cup LPatches
  BY DEF LIdle, LRequest, LEnters, LPatches

LEMMA LRoomsType ==
  ASSUME LobbyShapes
  PROVE  /\ Len(rooms) \in Nat /\ DOMAIN rooms = 1..Len(rooms) /\ DOMAIN ordered = 1..Len(rooms)
         /\ \A m \in DOMAIN rooms : rooms[m] \in Room /\ rooms[m].org \in Org /\ rooms[m].set \in Settings
         /\ \A m \in DOMAIN rooms : ordered[m] \in Settings
         /\ \A h \in LHandler : lreq[h] \in LRequest
<1>1. Len(rooms) \in Nat /\ DOMAIN rooms = 1..Len(rooms) /\ DOMAIN ordered = 1..Len(rooms)
  BY DEF LobbyShapes
<1>2. \A m \in DOMAIN rooms : rooms[m] \in Room
  BY DEF LobbyShapes
<1>3. \A r \in Room : r.org \in Org /\ r.set \in Settings
  BY DEF Room
<1> QED BY <1>1, <1>2, <1>3 DEF LobbyShapes

LEMMA LSetsFinite ==
  ASSUME LobbyShapes, NEW o
  PROVE  /\ IsFiniteSet(Open(o)) /\ IsFiniteSet(Inserting(o))
         /\ Cardinality(Open(o)) \in Nat /\ Cardinality(Inserting(o)) \in Nat
<1>0. Len(rooms) \in Int /\ 1 \in Int
  BY LRoomsType
<1>1. IsFiniteSet(1..Len(rooms))
  BY <1>0, FS_Interval
<1>2. Open(o) \subseteq 1..Len(rooms)
  BY LRoomsType DEF Open
<1>3. Inserting(o) \subseteq LHandler
  BY DEF Inserting
<1> QED BY <1>1, <1>2, <1>3, FS_Subset, FS_CardinalityType

LEMMA LOverType ==
  ASSUME NEW p \in Patch, NEW s \in Settings
  PROVE  Over(p, s) \in Settings
  BY DEF Over, Settings, Field

LEMMA LobbyInitInv == LobbyInit => LobbyInv
<1> SUFFICES ASSUME LobbyInit PROVE LobbyInv
  OBVIOUS
<1>1. LobbyShapes
  BY LIdleKind DEF LobbyInit, LobbyShapes
<1>2. ASSUME NEW o \in Org PROVE Open(o) = {} /\ Inserting(o) = {}
  BY LIdleKind DEF LobbyInit, Open, Inserting, LIn, LBusy
<1>3. Cardinality(LHandler) \in Nat \ {0}
  BY FS_EmptySet, FS_CardinalityType
<1>a. ASSUME NEW o \in Org PROVE Cardinality(Open(o)) = 0 /\ Cardinality(Inserting(o)) = 0
  BY <1>2, FS_EmptySet
<1>b. Limit \in Nat \ {0}
  OBVIOUS
<1>4. InsertsBounded
  BY <1>a, <1>b, <1>3 DEF InsertsBounded
<1>5. CodesApart /\ NoLostSetting
  BY DEF LobbyInit, CodesApart, NoLostSetting
<1>6. SeenSettings
  BY LIdleKind DEF LobbyInit, SeenSettings
<1> QED BY <1>1, <1>4, <1>5, <1>6 DEF LobbyInv

\* A step that leaves the rows alone and changes one request.
LEMMA LRequestMoves ==
  ASSUME LobbyInv, NEW h \in LHandler, NEW q \in LRequest, NEW a \in SUBSET LAllows,
         rooms' = rooms, ordered' = ordered,
         lreq' = [lreq EXCEPT ![h] = q], allowed' = [allowed EXCEPT ![h] = a],
         q \in LEnters \cup LPatches => q.id \in DOMAIN rooms,
         q \in LEnters => Admits(q.row.set) \subseteq a /\ Admitted(q.op, q.user, q.row.set, q.row.org),
         q.at = "counting" /\ UnderLimit(q.cnt) => Cardinality(Open(HomeOrg[q.user])) < Limit
  PROVE  LobbyInv'
<1>1. LobbyShapes'
  BY DEF LobbyInv, LobbyShapes
<1>2. \A g \in LHandler : lreq'[g] = (IF g = h THEN q ELSE lreq[g]) /\ allowed'[g] = (IF g = h THEN a ELSE allowed[g])
  BY DEF LobbyInv, LobbyShapes
<1>3. \A o : Open(o)' = Open(o)
  BY DEF Open
<1>4. ASSUME NEW o \in Org
      PROVE Cardinality(Open(o)') + Cardinality(Inserting(o)') <= Limit + Cardinality(LHandler) - 1
  <2>1. IsFiniteSet(Inserting(o)) /\ Cardinality(Open(o)) \in Nat /\ Cardinality(Inserting(o)) \in Nat
    BY LSetsFinite DEF LobbyInv
  <2>2. Cardinality(Open(o)) + Cardinality(Inserting(o)) <= Limit + Cardinality(LHandler) - 1
    BY DEF LobbyInv, InsertsBounded
  <2>3. Inserting(o)' \subseteq LHandler
    BY DEF Inserting
  <2>4. Cardinality(Inserting(o)') \in Nat /\ Cardinality(Inserting(o)') <= Cardinality(LHandler)
        /\ Cardinality(LHandler) \in Nat
    BY <2>3, FS_Subset, FS_CardinalityType
  <2>5. CASE h \in Inserting(o)'
    <3>1. q.at = "counting" /\ UnderLimit(q.cnt) /\ HomeOrg[q.user] = o
      BY <2>5, <1>2 DEF Inserting, LIn, LBusy, UnderLimit
    <3>2. Cardinality(Open(o)) < Limit
      BY <3>1
    <3> QED BY <3>2, <2>1, <2>4, <1>3
  <2>6. CASE h \notin Inserting(o)'
    <3>1. Inserting(o)' \subseteq Inserting(o)
      BY <2>6, <1>2 DEF Inserting, LIn, LBusy, UnderLimit
    <3>2. Cardinality(Inserting(o)') <= Cardinality(Inserting(o))
      BY <3>1, <2>1, FS_Subset
    <3> QED BY <3>2, <2>1, <2>2, <2>4, <1>3
  <2> QED BY <2>5, <2>6
<1>5. InsertsBounded'
  BY <1>4 DEF InsertsBounded
<1>6. CodesApart' /\ NoLostSetting'
  BY DEF LobbyInv, CodesApart, NoLostSetting
<1>7. SeenSettings'
  <2> SUFFICES ASSUME NEW g \in LHandler, lreq'[g] \in LEnters
               PROVE  /\ Admits(lreq'[g].row.set) \subseteq allowed'[g]
                      /\ Admitted(lreq'[g].op, lreq'[g].user, lreq'[g].row.set, lreq'[g].row.org)
    BY DEF SeenSettings, Admits, Admitted
  <2>1. CASE g = h
    BY <1>2, <2>1
  <2>2. CASE g # h
    BY <1>2, <2>2 DEF LobbyInv, SeenSettings
  <2> QED BY <2>1, <2>2
<1> QED BY <1>1, <1>5, <1>6, <1>7 DEF LobbyInv

LEMMA LAnswered ==
  ASSUME LobbyInv, NEW h \in LHandler, LAnswer(h), UNCHANGED <<rooms, ordered>>
  PROVE  LobbyInv'
<1>1. LIdle \in LRequest /\ LIdle \notin LEnters \cup LPatches /\ LIdle.at = "idle" /\ {} \in SUBSET LAllows
  BY LIdleKind
<1> QED BY <1>1, LRequestMoves DEF LAnswer

\* A step that keeps what the request is allowed to say.
LEMMA LRequestGoes ==
  ASSUME LobbyInv, NEW h \in LHandler, NEW q \in LRequest,
         UNCHANGED <<rooms, ordered, allowed>>, lreq' = [lreq EXCEPT ![h] = q],
         q \in LEnters \cup LPatches => q.id \in DOMAIN rooms,
         q \in LEnters => Admits(q.row.set) \subseteq allowed[h] /\ Admitted(q.op, q.user, q.row.set, q.row.org),
         q.at = "counting" /\ UnderLimit(q.cnt) => Cardinality(Open(HomeOrg[q.user])) < Limit
  PROVE  LobbyInv'
<1>1. allowed \in [LHandler -> SUBSET LAllows]
  BY DEF LobbyInv, LobbyShapes
<1>2. PICK a : a = allowed[h]
  OBVIOUS
<1>3. a \in SUBSET LAllows /\ allowed' = [allowed EXCEPT ![h] = a]
  BY <1>1, <1>2
<1> QED BY <1>2, <1>3, LRequestMoves

LEMMA LCreateAsks ==
  ASSUME LobbyInv, NEW h \in LHandler, NEW u \in User, NEW p \in Patch, CreateAsk(h, u, p)
  PROVE  LobbyInv'
<1>1. Over(p, Defaults) \in Settings
  <2>1. Defaults \in Settings
    BY DEF Defaults, Settings
  <2> QED BY <2>1, LOverType
<1>2. PICK q : q = [op |-> "create", at |-> "draw", user |-> u, tries |-> 0, set |-> Over(p, Defaults)]
  OBVIOUS
<1>3. q \in LDrawing
  BY <1>1, <1>2 DEF LDrawing, LTries
<1>4. q \in LRequest /\ q \notin LEnters \cup LPatches /\ q.at # "counting"
  BY <1>3 DEF LDrawing, LRequest, LEnters, LPatches
<1>5. lreq' = [lreq EXCEPT ![h] = q] /\ UNCHANGED <<rooms, ordered, allowed>>
  BY <1>2 DEF CreateAsk
<1> QED BY <1>4, <1>5, LRequestGoes

LEMMA LCreateKind ==
  ASSUME LobbyInv, NEW h \in LHandler, NEW at, LIn(h, {"create"}, at)
  PROVE  /\ lreq[h] \in LDrawing \cup LCreates
         /\ lreq[h].user \in User /\ HomeOrg[lreq[h].user] \in Org
         /\ lreq[h].tries \in LTries /\ lreq[h].set \in Settings
         /\ at = "counting" => lreq[h] \in LCreates /\ lreq[h].code \in Code /\ lreq[h].cnt \in Nat
<1>1. lreq[h] \in LRequest
  BY DEF LobbyInv, LobbyShapes
<1>2. PICK q : q = lreq[h]
  OBVIOUS
<1>3. q \in LDrawing \cup LCreates /\ (at = "counting" => q \in LCreates)
  BY <1>1, <1>2, LKinds, LIdleKind DEF LIn, LBusy
<1>4. q.user \in User /\ q.tries \in LTries /\ q.set \in Settings
  BY <1>3 DEF LDrawing, LCreates
<1>5. q \in LCreates => q.code \in Code /\ q.cnt \in Nat
  BY DEF LCreates
<1> QED BY <1>2, <1>3, <1>4, <1>5

LEMMA LCreateStarts ==
  ASSUME LobbyInv, NEW h \in LHandler, NEW code \in Code, CreateStart(h, code)
  PROVE  LobbyInv'
<1>1. lreq[h].user \in User /\ HomeOrg[lreq[h].user] \in Org /\ lreq[h].tries \in LTries /\ lreq[h].set \in Settings
  BY LCreateKind DEF CreateStart
<1>2. Cardinality(Open(HomeOrg[lreq[h].user])) \in Nat
  BY LSetsFinite DEF LobbyInv
<1>3. PICK q : q = [op |-> "create", at |-> "counting", user |-> lreq[h].user, tries |-> lreq[h].tries,
                    set |-> lreq[h].set, code |-> code, cnt |-> Cardinality(Open(HomeOrg[lreq[h].user]))]
  OBVIOUS
<1>4. q \in LCreates /\ q.user = lreq[h].user /\ q.cnt = Cardinality(Open(HomeOrg[lreq[h].user]))
  BY <1>1, <1>2, <1>3 DEF LCreates
<1>5. q \in LRequest /\ q \notin LEnters \cup LPatches
  BY <1>4 DEF LCreates, LRequest, LEnters, LPatches
<1>6. lreq' = [lreq EXCEPT ![h] = q] /\ UNCHANGED <<rooms, ordered, allowed>>
  BY <1>3 DEF CreateStart, LobbyInv, LobbyShapes
<1>7. q.at = "counting" /\ UnderLimit(q.cnt) => Cardinality(Open(HomeOrg[q.user])) < Limit
  BY <1>4 DEF UnderLimit
<1> QED BY <1>5, <1>6, <1>7, LRequestGoes

LEMMA LCreateRedraws ==
  ASSUME LobbyInv, NEW h \in LHandler, CreateCollides(h)
  PROVE  LobbyInv'
<1>1. CASE lreq[h].tries < Retries - 1
  <2>1. PICK r : r = lreq[h]
    OBVIOUS
  <2>2. r \in LCreates /\ r.tries \in LTries
    BY <2>1, LCreateKind DEF CreateCollides
  <2>3. PICK q : q = [r EXCEPT !.at = "draw", !.tries = r.tries + 1]
    OBVIOUS
  <2>4. r.tries + 1 \in LTries
    BY <1>1, <2>1, <2>2 DEF LTries
  <2>5. q \in LCreates /\ q.at = "draw"
    BY <2>2, <2>3, <2>4 DEF LCreates
  <2>6. q \in LRequest /\ q \notin LEnters \cup LPatches /\ q.at # "counting"
    BY <2>5 DEF LCreates, LRequest, LEnters, LPatches
  <2>7. lreq' = [lreq EXCEPT ![h] = q] /\ UNCHANGED <<rooms, ordered, allowed>>
    BY <1>1, <2>1, <2>3 DEF CreateCollides, LobbyInv, LobbyShapes
  <2> QED BY <2>6, <2>7, LRequestGoes
<1>2. CASE ~(lreq[h].tries < Retries - 1)
  BY <1>2, LAnswered DEF CreateCollides
<1> QED BY <1>1, <1>2

LEMMA LCreateWrites ==
  ASSUME LobbyInv, NEW h \in LHandler, CreateWrite(h)
  PROVE  LobbyInv'
<1>1. PICK q, w, n : /\ q = lreq[h] /\ n = Len(rooms)
                     /\ w = [org |-> HomeOrg[q.user], code |-> q.code, host |-> q.user, set |-> q.set]
  OBVIOUS
<1>2. LIn(h, {"create"}, "counting") /\ UnderLimit(q.cnt) /\ ~Collides(HomeOrg[q.user], q.code)
  BY <1>1 DEF CreateWrite
<1>3. q.user \in User /\ HomeOrg[q.user] \in Org /\ q.set \in Settings /\ q.code \in Code /\ q.cnt \in Nat
  BY <1>1, <1>2, LCreateKind
<1>4. w \in Room /\ w.org = HomeOrg[q.user] /\ w.code = q.code /\ w.set = q.set
  BY <1>1, <1>3 DEF Room
<1>5. rooms' = Append(rooms, w) /\ ordered' = Append(ordered, q.set)
  BY <1>1 DEF CreateWrite
<1>6. rooms \in Seq(Room) /\ ordered \in Seq(Settings) /\ Len(ordered) = Len(rooms) /\ n \in Nat
  BY <1>1 DEF LobbyInv, LobbyShapes
<1>7. /\ rooms' \in Seq(Room) /\ ordered' \in Seq(Settings) /\ Len(rooms') = n + 1 /\ Len(ordered') = n + 1
      /\ rooms'[n + 1] = w /\ ordered'[n + 1] = q.set
      /\ DOMAIN rooms = 1..n /\ DOMAIN rooms' = 1..(n + 1)
      /\ \A m \in 1..n : rooms'[m] = rooms[m] /\ ordered'[m] = ordered[m]
  BY <1>1, <1>3, <1>4, <1>5, <1>6
<1>8. LIdle \in LRequest /\ LIdle \notin LEnters \cup LPatches /\ LIdle.at = "idle"
  BY LIdleKind
<1>9. LAnswer(h)
  BY DEF CreateWrite
<1>10. \A g \in LHandler : lreq'[g] = (IF g = h THEN LIdle ELSE lreq[g]) /\ allowed'[g] = (IF g = h THEN {} ELSE allowed[g])
  BY <1>9 DEF LAnswer, LobbyInv, LobbyShapes
<1>11. LobbyShapes'
  <2>1. lreq' \in [LHandler -> LRequest] /\ allowed' \in [LHandler -> SUBSET LAllows]
    BY <1>8, <1>9 DEF LAnswer, LobbyInv, LobbyShapes
  <2>2. \A i \in DOMAIN rooms : i \in DOMAIN rooms'
    BY <1>6, <1>7
  <2>3. \A g \in LHandler : lreq[g] \in LEnters \cup LPatches => lreq[g].id \in DOMAIN rooms
    BY DEF LobbyInv, LobbyShapes
  <2>4. ASSUME NEW g \in LHandler, lreq'[g] \in LEnters \cup LPatches PROVE lreq'[g].id \in DOMAIN rooms'
    BY <2>2, <2>3, <2>4, <1>8, <1>10
  <2> QED BY <1>7, <2>1, <2>4 DEF LobbyShapes
<1>12. ASSUME NEW o \in Org
       PROVE Cardinality(Open(o)') + Cardinality(Inserting(o)') <= Limit + Cardinality(LHandler) - 1
  <2>1. /\ IsFiniteSet(Inserting(o)) /\ Cardinality(Open(o)) \in Nat /\ Cardinality(Inserting(o)) \in Nat
        /\ IsFiniteSet(Open(o))
    BY LSetsFinite DEF LobbyInv
  <2>2. Cardinality(Open(o)) + Cardinality(Inserting(o)) <= Limit + Cardinality(LHandler) - 1
    BY DEF LobbyInv, InsertsBounded
  <2>3. Cardinality(LHandler) \in Nat
    BY FS_CardinalityType
  <2>4. CASE o = w.org
    <3>1. Open(o)' = Open(o) \cup {n + 1} /\ n + 1 \notin Open(o)
      BY <1>6, <1>7, <2>4 DEF Open
    <3>2. Cardinality(Open(o)') = Cardinality(Open(o)) + 1
      BY <3>1, <2>1, FS_AddElement
    <3>3. Inserting(o)' = Inserting(o) \ {h} /\ h \in Inserting(o)
      BY <1>1, <1>2, <1>4, <1>8, <1>10, <2>4 DEF Inserting, LIn, LBusy, UnderLimit
    <3>4. Cardinality(Inserting(o)') = Cardinality(Inserting(o)) - 1
      BY <3>3, <2>1, FS_RemoveElement
    <3> QED BY <3>2, <3>4, <2>1, <2>2, <2>3
  <2>5. CASE o # w.org
    <3>1. Open(o)' = Open(o)
      BY <1>6, <1>7, <2>5 DEF Open
    <3>2. Inserting(o)' \subseteq Inserting(o)
      BY <1>8, <1>10 DEF Inserting, LIn, LBusy, UnderLimit
    <3>3. Cardinality(Inserting(o)') \in Nat /\ Cardinality(Inserting(o)') <= Cardinality(Inserting(o))
      BY <3>2, <2>1, FS_Subset, FS_CardinalityType
    <3> QED BY <3>1, <3>3, <2>1, <2>2, <2>3
  <2> QED BY <2>4, <2>5
<1>13. InsertsBounded'
  BY <1>12 DEF InsertsBounded
<1>14. CodesApart'
  <2>1. \A m \in 1..n : rooms[m].org # w.org \/ rooms[m].code # w.code
    BY <1>2, <1>4, <1>7 DEF Collides, Open
  <2>2. \A i \in 1..(n + 1) : i \in 1..n \/ i = n + 1
    BY <1>6
  <2> QED BY <1>7, <2>1, <2>2 DEF LobbyInv, CodesApart
<1>15. NoLostSetting'
  <2>1. \A i \in 1..(n + 1) : i \in 1..n \/ i = n + 1
    BY <1>6
  <2> QED BY <1>4, <1>7, <2>1 DEF LobbyInv, NoLostSetting
<1>16. SeenSettings'
  BY <1>8, <1>10 DEF LobbyInv, SeenSettings, Admits, Admitted
<1> QED BY <1>11, <1>13, <1>14, <1>15, <1>16 DEF LobbyInv

LEMMA LEnterComes ==
  ASSUME LobbyInv, NEW h \in LHandler, NEW op \in {"join", "guest"}, NEW u \in User,
         NEW m \in DOMAIN rooms, Enter(h, op, u, m)
  PROVE  LobbyInv'
<1>1. rooms[m] \in Room /\ m \in Nat
  BY LRoomsType DEF LobbyInv
<1>2. PICK q, a : q = [op |-> op, at |-> "admitted", user |-> u, id |-> m, row |-> rooms[m]] /\ a = Admits(rooms[m].set)
  OBVIOUS
<1>3. q \in LEnters /\ q.id = m /\ q.row = rooms[m] /\ q.user = u /\ q.op = op
  BY <1>1, <1>2 DEF LEnters
<1>4. q \in LRequest /\ q.at # "counting"
  BY <1>3 DEF LEnters, LRequest
<1>5. a \in SUBSET LAllows
  BY <1>2 DEF Admits, LAllows
<1>6. /\ lreq' = [lreq EXCEPT ![h] = q] /\ allowed' = [allowed EXCEPT ![h] = a]
      /\ rooms' = rooms /\ ordered' = ordered /\ Admitted(op, u, rooms[m].set, rooms[m].org)
  BY <1>2 DEF Enter
<1>7. Admits(q.row.set) \subseteq a /\ Admitted(q.op, q.user, q.row.set, q.row.org) /\ q.id \in DOMAIN rooms
  BY <1>2, <1>3, <1>6
<1> QED BY <1>4, <1>5, <1>6, <1>7, LRequestMoves

LEMMA LEnterKind ==
  ASSUME LobbyInv, NEW h \in LHandler, NEW at, LIn(h, {"join", "guest"}, at)
  PROVE  lreq[h] \in LEnters /\ lreq[h].id \in DOMAIN rooms
<1>1. lreq[h] \in LRequest
  BY DEF LobbyInv, LobbyShapes
<1>2. PICK q : q = lreq[h]
  OBVIOUS
<1>3. q \in LEnters
  BY <1>1, <1>2, LKinds, LIdleKind DEF LIn, LBusy
<1> QED BY <1>2, <1>3 DEF LobbyInv, LobbyShapes

LEMMA LAssignGoes ==
  ASSUME LobbyInv, NEW h \in LHandler, AssignRoom(h)
  PROVE  LobbyInv'
<1>1. PICK r : r = lreq[h]
  OBVIOUS
<1>2. r \in LEnters /\ r.id \in DOMAIN rooms
  BY <1>1, LEnterKind DEF AssignRoom
<1>3. PICK q : q = [r EXCEPT !.at = "assigned"]
  OBVIOUS
<1>4. q \in LEnters /\ q.at = "assigned" /\ q.id = r.id /\ q.row = r.row /\ q.user = r.user /\ q.op = r.op
  BY <1>2, <1>3 DEF LEnters
<1>5. q \in LRequest /\ q.at # "counting"
  BY <1>4 DEF LRequest
<1>6. lreq' = [lreq EXCEPT ![h] = q] /\ UNCHANGED <<rooms, ordered, allowed>>
  BY <1>1, <1>3 DEF AssignRoom, LGo, LobbyInv, LobbyShapes
<1>7. Admits(q.row.set) \subseteq allowed[h] /\ Admitted(q.op, q.user, q.row.set, q.row.org)
  BY <1>1, <1>2, <1>4 DEF LobbyInv, SeenSettings
<1> QED BY <1>2, <1>4, <1>5, <1>6, <1>7, LRequestGoes

LEMMA LPatchAsks ==
  ASSUME LobbyInv, NEW h \in LHandler, NEW u \in User, NEW m \in DOMAIN rooms, NEW p \in Patch,
         PatchAsk(h, u, m, p)
  PROVE  LobbyInv'
<1>1. rooms[m] \in Room /\ m \in Nat
  BY LRoomsType DEF LobbyInv
<1>2. PICK q : q = [op |-> "patch", at |-> "found", user |-> u, id |-> m, row |-> rooms[m], patch |-> p]
  OBVIOUS
<1>3. q \in LPatches /\ q.id = m /\ q.op = "patch" /\ q.at = "found"
  BY <1>1, <1>2 DEF LPatches
<1>4. q \in LRequest /\ q.at # "counting"
  BY <1>3 DEF LRequest
<1>5. q \notin LEnters
  BY <1>3 DEF LEnters
<1>6. lreq' = [lreq EXCEPT ![h] = q] /\ UNCHANGED <<rooms, ordered, allowed>>
  BY <1>2 DEF PatchAsk
<1> QED BY <1>3, <1>4, <1>5, <1>6, LRequestGoes

LEMMA LPatchWrites ==
  ASSUME LobbyInv, NEW h \in LHandler, PatchWrite(h)
  PROVE  LobbyInv'
<1>1. PICK q, m, p, s : q = lreq[h] /\ m = q.id /\ p = q.patch /\ s = Over(p, rooms[m].set)
  OBVIOUS
<1>2. LIn(h, {"patch"}, "found")
  BY DEF PatchWrite
<1>3. lreq[h] \in LRequest
  BY DEF LobbyInv, LobbyShapes
<1>4. q \in LPatches
  BY <1>1, <1>2, <1>3, LKinds, LIdleKind DEF LIn, LBusy
<1>5. p \in Patch
  BY <1>1, <1>4 DEF LPatches
<1>6. m \in DOMAIN rooms
  BY <1>1, <1>4 DEF LobbyInv, LobbyShapes
<1>7. rooms[m] \in Room /\ rooms[m].set \in Settings /\ ordered[m] = rooms[m].set
  BY <1>6, LRoomsType DEF LobbyInv, NoLostSetting
<1>8. s \in Settings
  BY <1>1, <1>5, <1>7, LOverType
<1>9. PICK w : w = [rooms[m] EXCEPT !.set = s]
  OBVIOUS
<1>10. w \in Room /\ w.set = s /\ w.org = rooms[m].org /\ w.code = rooms[m].code
  BY <1>7, <1>8, <1>9 DEF Room
<1>11. rooms' = [rooms EXCEPT ![m] = w] /\ ordered' = [ordered EXCEPT ![m] = s]
  BY <1>1, <1>7, <1>9 DEF PatchWrite, Patched
<1>12. rooms \in Seq(Room) /\ ordered \in Seq(Settings) /\ Len(ordered) = Len(rooms)
  BY DEF LobbyInv, LobbyShapes
<1>13. /\ rooms' \in Seq(Room) /\ ordered' \in Seq(Settings) /\ Len(ordered') = Len(rooms')
       /\ DOMAIN rooms' = DOMAIN rooms
       /\ \A i \in DOMAIN rooms : rooms'[i] = (IF i = m THEN w ELSE rooms[i]) /\ ordered'[i] = (IF i = m THEN s ELSE ordered[i])
  BY <1>6, <1>8, <1>10, <1>11, <1>12
<1>14. LIdle \in LRequest /\ LIdle \notin LEnters \cup LPatches /\ LIdle.at = "idle"
  BY LIdleKind
<1>15. lreq' = [lreq EXCEPT ![h] = LIdle]
  BY DEF PatchWrite
<1>16. \A g \in LHandler : lreq'[g] = (IF g = h THEN LIdle ELSE lreq[g])
  BY <1>15 DEF LobbyInv, LobbyShapes
<1>17. Admits(s) \subseteq LAllows
  BY DEF Admits, LAllows
<1>18. allowed' = [g \in LHandler |->
                    IF g # h /\ LIn(g, {"join", "guest"}, lreq[g].at) /\ lreq[g].id = m
                    THEN allowed[g] \cup Admits(s) ELSE allowed[g]]
  BY <1>1 DEF PatchWrite, Patched
<1>19. \A g \in LHandler : allowed[g] \subseteq allowed'[g] /\ allowed'[g] \subseteq allowed[g] \cup Admits(s)
  BY <1>18
<1>20. LobbyShapes'
  <2>1. lreq' \in [LHandler -> LRequest]
    BY <1>14, <1>15 DEF LobbyInv, LobbyShapes
  <2>2. allowed' \in [LHandler -> SUBSET LAllows]
    BY <1>17, <1>18 DEF LobbyInv, LobbyShapes
  <2>3. \A g \in LHandler : lreq'[g] \in LEnters \cup LPatches => lreq'[g].id \in DOMAIN rooms'
    BY <1>13, <1>14, <1>16 DEF LobbyInv, LobbyShapes
  <2> QED BY <1>13, <2>1, <2>2, <2>3 DEF LobbyShapes
<1>21. \A o : Open(o)' = Open(o)
  BY <1>10, <1>13 DEF Open
<1>22. \A o : Inserting(o)' \subseteq Inserting(o)
  BY <1>14, <1>16 DEF Inserting, LIn, LBusy, UnderLimit
<1>23. ASSUME NEW o \in Org
       PROVE Cardinality(Open(o)') + Cardinality(Inserting(o)') <= Limit + Cardinality(LHandler) - 1
  <2>1. IsFiniteSet(Inserting(o)) /\ Cardinality(Open(o)) \in Nat /\ Cardinality(Inserting(o)) \in Nat
    BY LSetsFinite DEF LobbyInv
  <2>2. Cardinality(Open(o)) + Cardinality(Inserting(o)) <= Limit + Cardinality(LHandler) - 1
    BY DEF LobbyInv, InsertsBounded
  <2>3. Cardinality(LHandler) \in Nat
    BY FS_CardinalityType
  <2>4. Cardinality(Inserting(o)') \in Nat /\ Cardinality(Inserting(o)') <= Cardinality(Inserting(o))
    BY <1>22, <2>1, FS_Subset, FS_CardinalityType
  <2> QED BY <1>21, <2>1, <2>2, <2>3, <2>4
<1>24. InsertsBounded'
  BY <1>23 DEF InsertsBounded
<1>25. CodesApart'
  <2>1. \A i \in DOMAIN rooms : rooms'[i].org = rooms[i].org /\ rooms'[i].code = rooms[i].code
    BY <1>10, <1>13
  <2> QED BY <1>13, <2>1 DEF LobbyInv, CodesApart
<1>26. NoLostSetting'
  BY <1>10, <1>13 DEF LobbyInv, NoLostSetting
<1>27. SeenSettings'
  <2> SUFFICES ASSUME NEW g \in LHandler, lreq'[g] \in LEnters
               PROVE  /\ Admits(lreq'[g].row.set) \subseteq allowed'[g]
                      /\ Admitted(lreq'[g].op, lreq'[g].user, lreq'[g].row.set, lreq'[g].row.org)
    BY DEF SeenSettings, Admits, Admitted
  <2>1. lreq'[g] = lreq[g] /\ lreq[g] \in LEnters
    BY <1>14, <1>16
  <2>2. Admits(lreq[g].row.set) \subseteq allowed[g] /\ Admitted(lreq[g].op, lreq[g].user, lreq[g].row.set, lreq[g].row.org)
    BY <2>1 DEF LobbyInv, SeenSettings
  <2> QED BY <1>19, <2>1, <2>2
<1> QED BY <1>20, <1>24, <1>25, <1>26, <1>27 DEF LobbyInv

LEMMA LobbyStutters ==
  ASSUME LobbyInv, UNCHANGED lobbyVars PROVE LobbyInv'
<1>1. rooms' = rooms /\ lreq' = lreq /\ ordered' = ordered /\ allowed' = allowed
  BY DEF lobbyVars
<1>2. \A o : Open(o)' = Open(o) /\ Inserting(o)' = Inserting(o)
  BY <1>1 DEF Open, Inserting, LIn, LBusy, UnderLimit
<1>3. InsertsBounded'
  BY <1>2 DEF LobbyInv, InsertsBounded
<1>4. LobbyShapes' /\ CodesApart' /\ NoLostSetting' /\ SeenSettings'
  BY <1>1 DEF LobbyInv, LobbyShapes, CodesApart, NoLostSetting, SeenSettings, Admits, Admitted
<1> QED BY <1>3, <1>4 DEF LobbyInv

\* LobbyInv is kept by every operation of the meeting endpoints.
LEMMA LobbyInductive == LobbyInv /\ [LobbyNext]_lobbyVars => LobbyInv'
<1> SUFFICES ASSUME LobbyInv, [LobbyNext]_lobbyVars PROVE LobbyInv'
  OBVIOUS
<1>1. ASSUME NEW h \in LHandler, NEW u \in User, NEW p \in Patch, CreateAsk(h, u, p) PROVE LobbyInv'
  BY <1>1, LCreateAsks
<1>2. ASSUME NEW h \in LHandler, NEW u \in User, NEW m \in DOMAIN rooms,
             Enter(h, "join", u, m) \/ Enter(h, "guest", u, m) PROVE LobbyInv'
  BY <1>2, LEnterComes
<1>3. ASSUME NEW h \in LHandler, NEW u \in User, NEW m \in DOMAIN rooms, NEW p \in Patch,
             PatchAsk(h, u, m, p) PROVE LobbyInv'
  BY <1>3, LPatchAsks
<1>4. ASSUME NEW h \in LHandler, NEW code \in Code, CreateStart(h, code) PROVE LobbyInv'
  BY <1>4, LCreateStarts
<1>5. ASSUME NEW h \in LHandler, CreateRefused(h) \/ GetToken(h) \/ Ends(h) PROVE LobbyInv'
  BY <1>5, LAnswered DEF CreateRefused, GetToken, Ends
<1>6. ASSUME NEW h \in LHandler, CreateWrite(h) PROVE LobbyInv'
  BY <1>6, LCreateWrites
<1>7. ASSUME NEW h \in LHandler, CreateCollides(h) PROVE LobbyInv'
  BY <1>7, LCreateRedraws
<1>8. ASSUME NEW h \in LHandler, AssignRoom(h) PROVE LobbyInv'
  BY <1>8, LAssignGoes
<1>9. ASSUME NEW h \in LHandler, PatchWrite(h) PROVE LobbyInv'
  BY <1>9, LPatchWrites
<1>10. CASE UNCHANGED lobbyVars
  BY <1>10, LobbyStutters
<1> QED BY <1>1, <1>2, <1>3, <1>4, <1>5, <1>6, <1>7, <1>8, <1>9, <1>10 DEF LobbyNext

LEMMA LobbyInvCorrect == LobbyInv => LobbyCorrect
<1> SUFFICES ASSUME LobbyInv PROVE LobbyCorrect
  OBVIOUS
<1>1. LobbyTypeOK
  <2>1. ASSUME NEW h \in LHandler, LBusy(h)
        PROVE  /\ lreq[h].op \in {"create", "join", "guest", "patch"} /\ lreq[h].at \in LAt
               /\ lreq[h].op = "create" => lreq[h].tries \in 0..(Retries - 1)
               /\ lreq[h].op # "create" => lreq[h].id \in DOMAIN rooms
    <3>1. lreq[h] \in LRequest /\ lreq[h] # LIdle
      BY <2>1, LIdleKind DEF LBusy, LobbyInv, LobbyShapes
    <3>2. lreq[h].op = "create" => lreq[h].tries \in 0..(Retries - 1)
      BY <2>1, <3>1, LKinds, LCreateKind DEF LIn, LTries
    <3> QED BY <3>1, <3>2, LKinds DEF LobbyInv, LobbyShapes
  <2> QED BY <2>1 DEF LobbyTypeOK, LobbyInv, LobbyShapes, LAllows
<1>2. OrgLimitBound
  <2>1. ASSUME NEW o \in Org PROVE Cardinality(Open(o)) <= Limit + Cardinality(LHandler) - 1
    <3>1. Cardinality(Open(o)) \in Nat /\ Cardinality(Inserting(o)) \in Nat /\ Cardinality(LHandler) \in Nat
      BY LSetsFinite, FS_CardinalityType DEF LobbyInv
    <3>2. Cardinality(Open(o)) + Cardinality(Inserting(o)) <= Limit + Cardinality(LHandler) - 1
      BY DEF LobbyInv, InsertsBounded
    <3> QED BY <3>1, <3>2
  <2> QED BY <2>1 DEF OrgLimitBound
<1> QED BY <1>1, <1>2 DEF LobbyInv, LobbyCorrect

\* Whatever create, join and settings requests of the global controller run at
\* once: an organization passes its limit only by the inserts under way, no two of
\* its meetings share a code and no change of a setting is lost.
THEOREM LobbyCorrectProved == LobbySpec => []LobbyCorrect
<1>1. LobbySpec => []LobbyInv
  BY LobbyInitInv, LobbyInductive, PTL DEF LobbySpec
<1> QED BY <1>1, LobbyInvCorrect, PTL

\* The kind of a token is one the settings allowed at a moment of its request.
LEMMA LTokenSeen ==
  ASSUME LobbyInv, NEW h \in LHandler, GetToken(h)
  PROVE  JoinToken(h).kind \in allowed[h] \cup {"member"}
<1>1. PICK q : q = lreq[h]
  OBVIOUS
<1>2. q \in LEnters
  BY <1>1, LEnterKind DEF GetToken
<1>3. Admits(q.row.set) \subseteq allowed[h] /\ Admitted(q.op, q.user, q.row.set, q.row.org)
  BY <1>1, <1>2 DEF LobbyInv, SeenSettings
<1>4. CASE q.op = "guest"
  BY <1>1, <1>3, <1>4 DEF JoinToken, TokenRow, Admits, Admitted
<1>5. CASE q.op # "guest"
  BY <1>1, <1>3, <1>5 DEF JoinToken, TokenRow, Admits, Admitted
<1> QED BY <1>4, <1>5

\* A join or guest token says what the settings said at one moment of its request,
\* although get_guest_token and join_meeting use the row read at their start.
THEOREM TokenAsSettingsProved == LobbySpec => TokenAsSettings
<1>1. LobbySpec => []LobbyInv
  BY LobbyInitInv, LobbyInductive, PTL DEF LobbySpec
<1>2. LobbyInv /\ [LobbyNext]_lobbyVars =>
        [\A h \in LHandler : GetToken(h) => JoinToken(h).kind \in allowed[h] \cup {"member"}]_lobbyVars
  BY LTokenSeen
<1> QED BY <1>1, <1>2, PTL DEF LobbySpec, TokenAsSettings

HIDE LobbyAssumption

-----------------------------------------------------------------------------
(* Tokens and the checks that admit them. *)

GStamp == {"iat", "exp", "kid"}

\* A token is of one of four shapes, with the claims its issuer put in.
ServiceToken(t) ==
    /\ DOMAIN t = {"sub", "scope", "service_type", "iat", "exp", "kid"}
    /\ t.sub \in ServiceType /\ t.service_type = t.sub /\ t.scope = DefaultScopes(t.sub)
UserToken(t) ==
    /\ DOMAIN t = {"sub", "org_id", "email", "roles", "jti", "iat", "exp", "kid"}
    /\ t.sub \in Person
MeetingToken(t) ==
    /\ DOMAIN t = {"sub", "meeting_id", "home_org_id", "meeting_org_id", "participant_type", "role",
                   "capabilities", "token_type", "jti", "iat", "exp", "kid"}
    /\ t.sub \in Person /\ t.token_type = "meeting"
    /\ t.role = "host" => CreatorOf[t.meeting_id] = t.sub
    /\ \E g \in granted : /\ g.sub = t.sub /\ g.room = t.meeting_id /\ g.role = t.role
                          /\ g.at \in 0..clock /\ t.exp = g.at + Off["ac"] + Ttl
GuestToken(t) ==
    /\ DOMAIN t = {"sub", "meeting_id", "meeting_org_id", "display_name", "waiting_room", "token_type",
                   "participant_type", "role", "capabilities", "jti", "iat", "exp", "kid"}
    /\ t.sub \in Person /\ t.token_type = "guest"
TokenGood(t) ==
    /\ t.iat \in Int /\ t.exp \in Int /\ t.iat <= Now("ac")
    /\ ServiceToken(t) \/ UserToken(t) \/ MeetingToken(t) \/ GuestToken(t)

GateInv == clock \in Nat /\ (\A t \in issued : TokenGood(t)) /\ EntryGranted

USE GateAssumption

LEMMA GInts ==
  /\ \A n \in Node : Off[n] \in Int
  /\ Skew \in Nat /\ Leeway \in Nat /\ TokenExpiry \in Nat /\ MaxTtl \in Nat /\ Ttl \in Nat /\ Ttl <= MaxTtl
  /\ \A a, b \in Node : Off[a] - Off[b] <= Skew
  BY ClocksClose DEF Ttl

LEMMA GNodes == "ac" \in Node /\ "gc" \in Node /\ "mc" \in Node /\ "mh" \in Node
  BY DEF Node

\* What was issued stays what it is.
LEMMA GOld ==
  ASSUME NEW t, TokenGood(t), clock \in Nat, clock' \in Nat, clock <= clock', granted \subseteq granted'
  PROVE  TokenGood(t)'
<1>1. MeetingToken(t) => MeetingToken(t)'
  BY DEF MeetingToken
<1>2. (ServiceToken(t) => ServiceToken(t)') /\ (UserToken(t) => UserToken(t)') /\ (GuestToken(t) => GuestToken(t)')
  BY DEF ServiceToken, UserToken, GuestToken
<1>3. t.iat <= Now("ac")'
  BY GInts, GNodes DEF TokenGood, Now
<1> QED BY <1>1, <1>2, <1>3 DEF TokenGood

LEMMA GateInitInv == GateInit => GateInv
  BY DEF GateInit, GateInv, EntryGranted

\* A step that signs one good token.
LEMMA GSigns ==
  ASSUME GateInv, NEW x, issued' = issued \cup {x}, UNCHANGED <<clock, seats>>, granted \subseteq granted',
         TokenGood(x)'
  PROVE  GateInv'
<1>1. \A t \in issued : TokenGood(t)'
  BY GOld DEF GateInv
<1>2. EntryGranted'
  BY DEF GateInv, EntryGranted
<1> QED BY <1>1, <1>2 DEF GateInv

LEMMA GServices ==
  ASSUME GateInv, NEW s \in ServiceType, IssueServiceToken(s)
  PROVE  GateInv'
<1>1. PICK c : c = [sub |-> s, scope |-> DefaultScopes(s), service_type |-> s]
  OBVIOUS
<1>2. PICK x, st : st = [iat |-> Now("ac"), exp |-> Now("ac") + TokenExpiry, kid |-> "k"] /\ x = With(c, st)
  OBVIOUS
<1>3. DOMAIN c = {"sub", "scope", "service_type"} /\ c["sub"] = s /\ c["scope"] = DefaultScopes(s) /\ c["service_type"] = s
  BY <1>1
<1>4. DOMAIN c \cap GStamp = {} /\ TokenExpiry \in Nat /\ clock \in Nat
  BY <1>3, GInts DEF GStamp, GateInv
<1>5. /\ DOMAIN x = DOMAIN c \cup GStamp /\ \A k \in DOMAIN c : x[k] = c[k]
      /\ x.iat = clock + Off["ac"] /\ x.iat \in Int /\ x.exp \in Int
  <2>1. x = With(c, st)
    BY <1>2
  <2>2. DOMAIN x = DOMAIN c \cup DOMAIN st /\ (\A k \in DOMAIN c : x[k] = c[k])
        /\ \A k \in DOMAIN st \ DOMAIN c : x[k] = st[k]
    BY <2>1 DEF With
  <2>3. DOMAIN st = GStamp /\ st["iat"] = Now("ac") /\ st["exp"] = Now("ac") + TokenExpiry
    BY <1>2 DEF GStamp
  <2>4. DOMAIN x = DOMAIN c \cup GStamp /\ x["iat"] = st["iat"] /\ x["exp"] = st["exp"]
    BY <1>4, <2>2, <2>3 DEF GStamp
  <2> QED BY <1>4, <2>2, <2>3, <2>4, GInts, GNodes DEF Now
<1>6. issued' = issued \cup {x} /\ UNCHANGED <<clock, seats>> /\ granted' = granted
  BY <1>1, <1>2 DEF IssueServiceToken, Sign
<1>7. ServiceToken(x)
  BY <1>3, <1>5 DEF ServiceToken, GStamp
<1>8. TokenGood(x)'
  <2>1. x.iat <= Now("ac")'
    BY <1>5, <1>6, GInts, GNodes DEF Now
  <2>2. ServiceToken(x)'
    BY <1>7 DEF ServiceToken
  <2> QED BY <1>5, <2>1, <2>2 DEF TokenGood
<1> QED BY <1>6, <1>8, GSigns

LEMMA GUsers ==
  ASSUME GateInv, NEW u \in Person, IssueUserToken(u)
  PROVE  GateInv'
<1>1. PICK c : c = [sub |-> u, org_id |-> OrgOf[u], email |-> u, roles |-> {"user"}, jti |-> clock]
  OBVIOUS
<1>2. PICK x, st : st = [iat |-> Now("ac"), exp |-> Now("ac") + TokenExpiry, kid |-> "k"] /\ x = With(c, st)
  OBVIOUS
<1>3. DOMAIN c = {"sub", "org_id", "email", "roles", "jti"} /\ c["sub"] = u
  BY <1>1
<1>4. DOMAIN c \cap GStamp = {} /\ TokenExpiry \in Nat /\ clock \in Nat
  BY <1>3, GInts DEF GStamp, GateInv
<1>5. /\ DOMAIN x = DOMAIN c \cup GStamp /\ \A k \in DOMAIN c : x[k] = c[k]
      /\ x.iat = clock + Off["ac"] /\ x.iat \in Int /\ x.exp \in Int
  <2>1. x = With(c, st)
    BY <1>2
  <2>2. DOMAIN x = DOMAIN c \cup DOMAIN st /\ (\A k \in DOMAIN c : x[k] = c[k])
        /\ \A k \in DOMAIN st \ DOMAIN c : x[k] = st[k]
    BY <2>1 DEF With
  <2>3. DOMAIN st = GStamp /\ st["iat"] = Now("ac") /\ st["exp"] = Now("ac") + TokenExpiry
    BY <1>2 DEF GStamp
  <2>4. DOMAIN x = DOMAIN c \cup GStamp /\ x["iat"] = st["iat"] /\ x["exp"] = st["exp"]
    BY <1>4, <2>2, <2>3 DEF GStamp
  <2> QED BY <1>4, <2>2, <2>3, <2>4, GInts, GNodes DEF Now
<1>6. issued' = issued \cup {x} /\ UNCHANGED <<clock, seats>> /\ granted' = granted
  BY <1>1, <1>2 DEF IssueUserToken, Sign
<1>7. UserToken(x)
  BY <1>3, <1>5 DEF UserToken, GStamp
<1>8. TokenGood(x)'
  <2>1. x.iat <= Now("ac")'
    BY <1>5, <1>6, GInts, GNodes DEF Now
  <2>2. UserToken(x)'
    BY <1>7 DEF UserToken
  <2> QED BY <1>5, <2>1, <2>2 DEF TokenGood
<1> QED BY <1>6, <1>8, GSigns

\* Only a user's token has the claims of a user.
LEMMA GUserIsUser ==
  ASSUME NEW t, TokenGood(t), UserClaims \subseteq DOMAIN t
  PROVE  UserToken(t)
  BY DEF TokenGood, ServiceToken, MeetingToken, GuestToken, UserClaims, Stamped

LEMMA GMembers ==
  ASSUME GateInv, NEW t \in issued, NEW s \in issued, NEW m \in GRoom, GateJoin(t, s, m)
  PROVE  GateInv'
<1>1. PICK b : b = [sub |-> t.sub, meeting_id |-> m, home_org_id |-> t.org_id,
                    meeting_org_id |-> OrgOf[m], participant_type |-> Kind(t, m),
                    role |-> RoleOf(t.sub, m), capabilities |-> {"video", "audio"}]
  OBVIOUS
<1>2. PICK c, y : y = [token_type |-> "meeting", jti |-> clock] /\ c = With(b, y)
  OBVIOUS
<1>3. PICK x, st : st = [iat |-> Now("ac"), exp |-> Now("ac") + Ttl, kid |-> "k"] /\ x = With(c, st)
  OBVIOUS
<1>4. PICK g : g = [sub |-> t.sub, room |-> m, role |-> RoleOf(t.sub, m), at |-> clock]
  OBVIOUS
<1>5. /\ DOMAIN b = {"sub", "meeting_id", "home_org_id", "meeting_org_id", "participant_type", "role", "capabilities"}
      /\ b["sub"] = t.sub /\ b["meeting_id"] = m /\ b["role"] = RoleOf(t.sub, m)
  BY <1>1
<1>6. DOMAIN y = {"token_type", "jti"} /\ y["token_type"] = "meeting"
  BY <1>2
<1>7. /\ DOMAIN c = DOMAIN b \cup DOMAIN y /\ \A k \in DOMAIN b : c[k] = b[k]
      /\ \A k \in DOMAIN y \ DOMAIN b : c[k] = y[k]
  <2>1. c = With(b, y)
    BY <1>2
  <2> QED BY <2>1 DEF With
<1>8. c["sub"] = t.sub /\ c["meeting_id"] = m /\ c["role"] = RoleOf(t.sub, m) /\ c["token_type"] = "meeting"
  BY <1>5, <1>6, <1>7
<1>9. DOMAIN c \cap GStamp = {} /\ Ttl \in Nat /\ clock \in Nat
  BY <1>5, <1>6, <1>7, GInts DEF GStamp, GateInv
<1>10. /\ DOMAIN x = DOMAIN c \cup GStamp /\ \A k \in DOMAIN c : x[k] = c[k]
       /\ x.iat = clock + Off["ac"] /\ x.exp = clock + Off["ac"] + Ttl /\ x.iat \in Int /\ x.exp \in Int
  <2>1. x = With(c, st)
    BY <1>3
  <2>2. DOMAIN x = DOMAIN c \cup DOMAIN st /\ (\A k \in DOMAIN c : x[k] = c[k])
        /\ \A k \in DOMAIN st \ DOMAIN c : x[k] = st[k]
    BY <2>1 DEF With
  <2>3. DOMAIN st = GStamp /\ st["iat"] = Now("ac") /\ st["exp"] = Now("ac") + Ttl
    BY <1>3 DEF GStamp
  <2>4. DOMAIN x = DOMAIN c \cup GStamp /\ x["iat"] = st["iat"] /\ x["exp"] = st["exp"]
    BY <1>9, <2>2, <2>3 DEF GStamp
  <2> QED BY <1>9, <2>2, <2>3, <2>4, GInts, GNodes DEF Now
<1>11. /\ issued' = issued \cup {x} /\ UNCHANGED <<clock, seats>> /\ granted' = granted \cup {g}
  BY <1>1, <1>2, <1>3, <1>4 DEF GateJoin, HandleMeetingToken, Sign
<1>12. t.sub \in Person
  <2>1. TokenGood(t) /\ UserClaims \subseteq DOMAIN t
    BY DEF GateInv, GateJoin, RequireUserAuth, Validates, VerifyToken
  <2> QED BY <2>1, GUserIsUser DEF UserToken
<1>13. x.sub = t.sub /\ x.meeting_id = m /\ x.role = RoleOf(t.sub, m) /\ x.token_type = "meeting"
  BY <1>5, <1>6, <1>7, <1>8, <1>10
<1>14. DOMAIN x = {"sub", "meeting_id", "home_org_id", "meeting_org_id", "participant_type", "role",
                   "capabilities", "token_type", "jti", "iat", "exp", "kid"}
  BY <1>5, <1>6, <1>7, <1>10 DEF GStamp
<1>15. g \in granted' /\ g.sub = x.sub /\ g.room = x.meeting_id /\ g.role = x.role /\ g.at = clock
  BY <1>4, <1>11, <1>13
<1>16. x.role = "host" => CreatorOf[x.meeting_id] = x.sub
  BY <1>13 DEF RoleOf
<1>17. MeetingToken(x)'
  <2>1. g.at \in 0..clock' /\ x.exp = g.at + Off["ac"] + Ttl
    BY <1>9, <1>10, <1>11, <1>15
  <2> QED BY <1>12, <1>13, <1>14, <1>15, <1>16, <2>1 DEF MeetingToken
<1>18. TokenGood(x)'
  BY <1>10, <1>11, <1>17, GInts, GNodes DEF TokenGood, Now
<1> QED BY <1>11, <1>18, GSigns

LEMMA GGuests ==
  ASSUME GateInv, NEW p \in Person, NEW s \in issued, NEW m \in GRoom, GateGuest(p, s, m)
  PROVE  GateInv'
<1>1. PICK b : b = [sub |-> p, meeting_id |-> m, meeting_org_id |-> OrgOf[m], display_name |-> p, waiting_room |-> TRUE]
  OBVIOUS
<1>2. PICK c, y : /\ y = [token_type |-> "guest", participant_type |-> "guest", role |-> "guest",
                          capabilities |-> {"video", "audio"}, jti |-> clock]
                  /\ c = With(b, y)
  OBVIOUS
<1>3. PICK x, st : st = [iat |-> Now("ac"), exp |-> Now("ac") + Ttl, kid |-> "k"] /\ x = With(c, st)
  OBVIOUS
<1>4. DOMAIN b = {"sub", "meeting_id", "meeting_org_id", "display_name", "waiting_room"} /\ b["sub"] = p
  BY <1>1
<1>5. DOMAIN y = {"token_type", "participant_type", "role", "capabilities", "jti"} /\ y["token_type"] = "guest"
  BY <1>2
<1>6. /\ DOMAIN c = DOMAIN b \cup DOMAIN y /\ \A k \in DOMAIN b : c[k] = b[k]
      /\ \A k \in DOMAIN y \ DOMAIN b : c[k] = y[k]
  <2>1. c = With(b, y)
    BY <1>2
  <2> QED BY <2>1 DEF With
<1>7. c["sub"] = p /\ c["token_type"] = "guest"
  BY <1>4, <1>5, <1>6
<1>8. DOMAIN c \cap GStamp = {} /\ Ttl \in Nat /\ clock \in Nat
  BY <1>4, <1>5, <1>6, GInts DEF GStamp, GateInv
<1>9. /\ DOMAIN x = DOMAIN c \cup GStamp /\ \A k \in DOMAIN c : x[k] = c[k]
      /\ x.iat = clock + Off["ac"] /\ x.iat \in Int /\ x.exp \in Int
  <2>1. x = With(c, st)
    BY <1>3
  <2>2. DOMAIN x = DOMAIN c \cup DOMAIN st /\ (\A k \in DOMAIN c : x[k] = c[k])
        /\ \A k \in DOMAIN st \ DOMAIN c : x[k] = st[k]
    BY <2>1 DEF With
  <2>3. DOMAIN st = GStamp /\ st["iat"] = Now("ac") /\ st["exp"] = Now("ac") + Ttl
    BY <1>3 DEF GStamp
  <2>4. DOMAIN x = DOMAIN c \cup GStamp /\ x["iat"] = st["iat"] /\ x["exp"] = st["exp"]
    BY <1>8, <2>2, <2>3 DEF GStamp
  <2> QED BY <1>8, <2>2, <2>3, <2>4, GInts, GNodes DEF Now
<1>10. issued' = issued \cup {x} /\ UNCHANGED <<clock, seats>> /\ granted' = granted
  BY <1>1, <1>2, <1>3 DEF GateGuest, HandleGuestToken, Sign
<1>11. x.sub = p /\ x.token_type = "guest"
  BY <1>4, <1>5, <1>6, <1>7, <1>9
<1>12. DOMAIN x = {"sub", "meeting_id", "meeting_org_id", "display_name", "waiting_room", "token_type",
                   "participant_type", "role", "capabilities", "jti", "iat", "exp", "kid"}
  BY <1>4, <1>5, <1>6, <1>9 DEF GStamp
<1>13. GuestToken(x)
  BY <1>11, <1>12 DEF GuestToken
<1>14. TokenGood(x)'
  <2>1. x.iat <= Now("ac")'
    BY <1>9, <1>10, GInts, GNodes DEF Now
  <2>2. GuestToken(x)'
    BY <1>13 DEF GuestToken
  <2> QED BY <1>9, <2>1, <2>2 DEF TokenGood
<1> QED BY <1>10, <1>14, GSigns

\* Only a meeting token opens a meeting: its holder was let in not long ago by any clock.
LEMMA GSeat ==
  ASSUME GateInv, NEW t \in issued, NEW n \in Node, VerifyToken(n, MeetingTokenClaims, t), t.token_type = "meeting"
  PROVE  /\ MeetingToken(t)
         /\ \E g \in granted : /\ g.sub = t.sub /\ g.room = t.meeting_id /\ g.role = t.role
                               /\ g.at <= clock /\ clock <= g.at + MaxTtl + Leeway + Skew
<1>1. TokenGood(t) /\ clock \in Nat /\ MeetingTokenClaims \subseteq DOMAIN t /\ t.exp >= Now(n) - Leeway
  BY DEF GateInv, VerifyToken
<1>2. MeetingToken(t)
  BY <1>1 DEF TokenGood, ServiceToken, UserToken, GuestToken, MeetingTokenClaims, Stamped
<1>3. PICK g \in granted : /\ g.sub = t.sub /\ g.room = t.meeting_id /\ g.role = t.role
                           /\ g.at \in 0..clock /\ t.exp = g.at + Off["ac"] + Ttl
  BY <1>2 DEF MeetingToken
<1>4. g.at <= clock /\ clock <= g.at + MaxTtl + Leeway + Skew
  <2>1. Off[n] \in Int /\ Off["ac"] \in Int /\ Off["ac"] - Off[n] <= Skew
    BY GInts, GNodes
  <2> QED BY <1>1, <1>3, <2>1, GInts DEF Now
<1> QED BY <1>2, <1>3, <1>4

\* A seat is taken by the holder of a meeting token.
LEMMA GTakes ==
  ASSUME GateInv, NEW s, seats' = seats \cup {s}, UNCHANGED <<clock, issued, granted>>,
         \E g \in granted :
            /\ g.sub = s.sub /\ g.room = s.room /\ g.at <= s.at
            /\ s.host => g.role = "host" /\ CreatorOf[s.room] = s.sub
            /\ s.at <= g.at + MaxTtl + Leeway + Skew
  PROVE  GateInv'
<1>1. EntryGranted'
  BY DEF GateInv, EntryGranted
<1>2. \A t \in issued : TokenGood(t)'
  BY GOld DEF GateInv
<1> QED BY <1>1, <1>2 DEF GateInv

LEMMA GEnters ==
  ASSUME GateInv, NEW t \in issued, NEW m \in GRoom, EnterMeeting(t, m)
  PROVE  GateInv'
<1>1. PICK s, h : h = (t.role = "host") /\ s = [sub |-> t.sub, room |-> m, host |-> h, at |-> clock]
  OBVIOUS
<1>2. s.sub = t.sub /\ s.room = m /\ (s.host <=> t.role = "host") /\ s.at = clock
  BY <1>1
<1>3. /\ seats' = seats \cup {s} /\ UNCHANGED <<clock, issued, granted>> /\ t.meeting_id = m
      /\ VerifyToken("mc", MeetingTokenClaims, t) /\ t.token_type = "meeting"
  BY <1>1 DEF EnterMeeting, JoinAdmits, McMeetingToken, Validates
<1>4. PICK g \in granted : /\ g.sub = t.sub /\ g.room = t.meeting_id /\ g.role = t.role
                           /\ g.at <= clock /\ clock <= g.at + MaxTtl + Leeway + Skew
  BY <1>3, GSeat, GNodes
<1>5. t.role = "host" => CreatorOf[t.meeting_id] = t.sub
  BY <1>3, GSeat, GNodes DEF MeetingToken
<1>6. \E f \in granted :
            /\ f.sub = s.sub /\ f.room = s.room /\ f.at <= s.at
            /\ s.host => f.role = "host" /\ CreatorOf[s.room] = s.sub
            /\ s.at <= f.at + MaxTtl + Leeway + Skew
  BY <1>2, <1>3, <1>4, <1>5
<1> QED BY <1>3, <1>6, GTakes

LEMMA GConnects ==
  ASSUME GateInv, NEW t \in issued, ConnectMedia(t)
  PROVE  GateInv'
<1>1. PICK s : s = [sub |-> t.sub, room |-> t.meeting_id, host |-> FALSE, at |-> clock]
  OBVIOUS
<1>2. s.sub = t.sub /\ s.room = t.meeting_id /\ s.host = FALSE /\ s.at = clock
  BY <1>1
<1>3. /\ seats' = seats \cup {s} /\ UNCHANGED <<clock, issued, granted>>
      /\ VerifyToken("mh", MeetingTokenClaims, t) /\ t.token_type = "meeting"
  BY <1>1 DEF ConnectMedia, MhMeetingToken, Validates
<1>4. PICK g \in granted : /\ g.sub = t.sub /\ g.room = t.meeting_id /\ g.role = t.role
                           /\ g.at <= clock /\ clock <= g.at + MaxTtl + Leeway + Skew
  BY <1>3, GSeat, GNodes
<1>5. \E f \in granted :
            /\ f.sub = s.sub /\ f.room = s.room /\ f.at <= s.at
            /\ s.host => f.role = "host" /\ CreatorOf[s.room] = s.sub
            /\ s.at <= f.at + MaxTtl + Leeway + Skew
  BY <1>2, <1>4
<1> QED BY <1>3, <1>5, GTakes

LEMMA GateInductive == GateInv /\ [GateNext]_gateVars => GateInv'
<1> SUFFICES ASSUME GateInv, [GateNext]_gateVars PROVE GateInv'
  OBVIOUS
<1>1. CASE GateTick \/ UNCHANGED gateVars
  <2>1. clock' \in Nat /\ clock <= clock' /\ issued' = issued /\ granted' = granted /\ seats' = seats
    BY <1>1 DEF GateTick, gateVars, GateInv
  <2>2. \A t \in issued : TokenGood(t)'
    BY <2>1, GOld DEF GateInv
  <2>3. EntryGranted'
    BY <2>1 DEF GateInv, EntryGranted
  <2> QED BY <2>1, <2>2, <2>3 DEF GateInv
<1>2. ASSUME NEW t \in issued, NEW s \in issued, NEW m \in GRoom, GateJoin(t, s, m) PROVE GateInv'
  BY <1>2, GMembers
<1>3. ASSUME NEW p \in Person, NEW s \in issued, NEW m \in GRoom, GateGuest(p, s, m) PROVE GateInv'
  BY <1>3, GGuests
<1>4. ASSUME NEW t \in issued, NEW m \in GRoom, EnterMeeting(t, m) PROVE GateInv'
  BY <1>4, GEnters
<1> QED BY <1>1, <1>2, <1>3, <1>4, GServices, GUsers, GConnects DEF GateNext

\* Only a service's token has a scope.
LEMMA GServiceIsService ==
  ASSUME NEW t, TokenGood(t), ServiceClaims \subseteq DOMAIN t
  PROVE  ServiceToken(t)
  BY DEF TokenGood, MeetingToken, UserToken, GuestToken, ServiceClaims, Stamped

LEMMA GPurposes == GateInv => PurposeKept
<1> SUFFICES ASSUME GateInv, NEW t \in issued
    PROVE  /\ \A c \in Calls : Admitting(c[3], c[2], t) => IsService(t) /\ t.sub = c[1]
           /\ RequireServiceAuth(t) => IsService(t) /\ (InternalScope(t) => t.sub = "global-controller")
           /\ ~RequireAdminScope(t)
           /\ RequireAuth(t) => IsService(t)
           /\ RequireUserAuth(t) => IsUser(t)
           /\ McMeetingToken(t) \/ MhMeetingToken(t) => IsMeeting(t)
           /\ McGuestToken(t) => IsGuest(t)
  BY DEF PurposeKept
<1>1. TokenGood(t)
  BY DEF GateInv
<1>2. ASSUME ServiceClaims \subseteq DOMAIN t
      PROVE  /\ IsService(t) /\ t.service_type = t.sub
             /\ "internal:meeting-token" \in t.scope => t.sub = "global-controller"
             /\ "admin:services" \notin t.scope
  <2>1. ServiceToken(t)
    BY <1>1, <1>2, GServiceIsService
  <2> QED BY <2>1 DEF ServiceToken, IsService, DefaultScopes, ServiceType
<1>3. ASSUME NEW c \in Calls, Admitting(c[3], c[2], t) PROVE IsService(t) /\ t.sub = c[1]
  <2>1. /\ c[3] = "gc" => GrpcAuth(c[2], t)
        /\ c[3] = "mc" => McAuth(c[2], t)
        /\ c[3] = "mh" => MhAuth(c[2], t)
    BY <1>3 DEF Admitting
  <2>2. c[3] \in {"gc", "mc", "mh"}
    BY DEF Calls
  <2>3. ServiceClaims \subseteq DOMAIN t
    BY <2>1, <2>2 DEF GrpcAuth, McAuth, MhAuth, Validates, VerifyToken
  <2>4. \A k \in ServiceType : CallerIs(t, k) => t.sub = k
    BY <1>2, <2>3 DEF CallerIs
  <2>5. t.sub = c[1]
    BY <2>1, <2>4 DEF GrpcAuth, McAuth, MhAuth, Calls, ServiceType
  <2> QED BY <1>2, <2>3, <2>5
<1>4. RequireServiceAuth(t) => IsService(t) /\ (InternalScope(t) => t.sub = "global-controller")
  BY <1>2 DEF RequireServiceAuth, VerifyJwt, VerifyToken, InternalScope
<1>5. ~RequireAdminScope(t)
  BY <1>2 DEF RequireAdminScope, VerifyJwt, VerifyToken
<1>6. RequireAuth(t) => IsService(t)
  BY <1>2 DEF RequireAuth, Validates, VerifyToken
<1>7. RequireUserAuth(t) => IsUser(t)
  <2>1. RequireUserAuth(t) => UserToken(t)
    BY <1>1, GUserIsUser DEF RequireUserAuth, Validates, VerifyToken
  <2> QED BY <2>1 DEF UserToken, IsUser, IsService, ServiceType
<1>8. McMeetingToken(t) \/ MhMeetingToken(t) => IsMeeting(t)
  <2>1. McMeetingToken(t) \/ MhMeetingToken(t) => MeetingToken(t)
    BY GSeat, GNodes DEF McMeetingToken, MhMeetingToken, Validates
  <2> QED BY <2>1 DEF MeetingToken, IsMeeting, IsGuest
<1>9. McGuestToken(t) => IsGuest(t)
  BY DEF McGuestToken, Validates, VerifyToken, GuestTokenClaims, IsGuest
<1> QED BY <1>3, <1>4, <1>5, <1>6, <1>7, <1>8, <1>9

LEMMA GServed == GateInv => CallsServed
<1> SUFFICES ASSUME GateInv, NEW t \in issued, IsService(t)
    PROVE  /\ \A c \in Calls : t.sub = c[1] /\ Now(c[3]) <= t.exp => Admitting(c[3], c[2], t)
           /\ t.sub = "global-controller" /\ Now("ac") <= t.exp => RequireServiceAuth(t) /\ InternalScope(t)
  BY DEF CallsServed
<1>1. TokenGood(t) /\ clock \in Nat
  BY DEF GateInv
<1>2. ServiceToken(t)
  BY <1>1 DEF TokenGood, UserToken, MeetingToken, GuestToken, IsService, ServiceType
<1>3. ServiceClaims # MeetingTokenClaims
  BY DEF ServiceClaims, MeetingTokenClaims, Stamped
<1>4. ASSUME NEW n \in Node, Now(n) <= t.exp
      PROVE  VerifyToken(n, ServiceClaims, t) /\ ValidateIat(n, t) /\ Validates(n, ServiceClaims, t)
  <2>1. t.exp >= Now(n) - Leeway
    BY <1>1, <1>4, GInts DEF TokenGood, Now
  <2>2. t.iat <= Now(n) + Skew
    BY <1>1, GInts, GNodes DEF TokenGood, Now
  <2>3. ServiceClaims \subseteq DOMAIN t /\ "kid" \in DOMAIN t
    BY <1>2 DEF ServiceToken, ServiceClaims, Stamped
  <2> QED BY <1>3, <2>1, <2>2, <2>3 DEF VerifyToken, ValidateIat, Validates, ExtractKid
<1>5. /\ "service_type" \in DOMAIN t /\ t.service_type = t.sub
      /\ t.sub = "global-controller" => {"service.write.mc", "internal:meeting-token"} \subseteq t.scope
      /\ t.sub = "meeting-controller" => {"service.write.mh", "service.write.gc"} \subseteq t.scope
      /\ t.sub = "media-handler" => {"service.write.mc", "service.write.gc"} \subseteq t.scope
  BY <1>2 DEF ServiceToken, DefaultScopes
<1>6. ASSUME NEW c \in Calls, t.sub = c[1], Now(c[3]) <= t.exp PROVE Admitting(c[3], c[2], t)
  <2>1. c[3] \in Node
    BY DEF Calls, Node
  <2>2. Validates(c[3], ServiceClaims, t)
    BY <1>4, <1>6, <2>1
  <2>3. CallerIs(t, c[1])
    BY <1>5, <1>6 DEF CallerIs
  <2>4. CASE c[3] = "gc"
    BY <1>5, <1>6, <2>2, <2>3, <2>4 DEF Admitting, GrpcAuth, Calls
  <2>5. CASE c[3] = "mc"
    BY <1>5, <1>6, <2>2, <2>3, <2>5 DEF Admitting, McAuth, Calls
  <2>6. CASE c[3] = "mh"
    BY <1>5, <1>6, <2>2, <2>3, <2>6 DEF Admitting, MhAuth, Calls
  <2> QED BY <2>4, <2>5, <2>6 DEF Calls
<1>7. t.sub = "global-controller" /\ Now("ac") <= t.exp => RequireServiceAuth(t) /\ InternalScope(t)
  BY <1>4, <1>5, GNodes DEF RequireServiceAuth, VerifyJwt, InternalScope
<1> QED BY <1>6, <1>7

(* For every set of persons and rooms and every clock of the services within  *)
(* the tolerance: a token opens what it was issued for, whoever sits in a     *)
(* meeting was let in by the global controller not longer ago than a token    *)
(* lasts, and the calls that services make of one another are admitted.       *)
THEOREM GateCorrectProved == GateSpec => []GateCorrect
<1>1. GateInv => GateCorrect
  BY GPurposes, GServed DEF GateInv, GateCorrect
<1> QED BY <1>1, GateInitInv, GateInductive, PTL DEF GateSpec

HIDE GateAssumption

-----------------------------------------------------------------------------
(* The developers' helper. *)

HActive == {"open", "asked", "store", "ready", "run", "ending", "done"}
HWriting == {"ready", "run", "ending"}
HEarly == {"new", "open", "asked", "store", "ready", "run"}
HOpen == {c \in Conn : conns[c].at \in HActive}

\* What holds of one thread, its processes and its cancel token.
ThreadGood(c) ==
    /\ ~Live => conns[c].at \in {"new", "closed", "dead"}
    /\ Live => (conns[c].at \in HWriting <=> slot = c)
    /\ group[c] # {} => (Live /\ conns[c].at = "run") \/ conns[c].at = "dead"
    /\ conns[c].at = "store" => conns[c].target \in named
    /\ conns[c].termed => c \in token
    /\ conns[c].at \in HEarly \ {"run"} => ~conns[c].termed
    /\ conns[c].at = "ready" => conns[c].todo > 0
    /\ conns[c].at \in HEarly => conns[c].res = "none" /\ ~conns[c].freed
    /\ conns[c].termed /\ (conns[c].res = "ok" \/ conns[c].freed) =>
        conns[c].op = "teardown" /\ conns[c].cut

HelperShapes ==
    /\ helper \in {"up", "stopping", "down"} /\ conns \in [Conn -> Thread] /\ count \in 0..MaxConns
    /\ slot \in Conn \cup {Nobody} /\ group \in [Conn -> SUBSET Process]
    /\ token \subseteq Conn /\ left \subseteq Conn /\ named \subseteq Conn

\* What outlives its command, and the readers that gave up.
StraysGood ==
    /\ strays \subseteq Process \ {"leader"} /\ unread \in BOOLEAN
    /\ "descendant" \in strays => unread
    /\ \A c \in Conn : conns[c].deaf => unread

HelperInv ==
    /\ HelperShapes /\ token \subseteq named
    /\ Live => count = Cardinality(HOpen)
    /\ \A c \in Conn : ThreadGood(c)

USE HelperAssumption DEF procVars

LEMMA HTypes ==
  ASSUME HelperInv
  PROVE  /\ helper \in {"up", "stopping", "down"} /\ conns \in [Conn -> Thread] /\ count \in 0..MaxConns
         /\ slot \in Conn \cup {Nobody} /\ group \in [Conn -> SUBSET Process]
         /\ token \subseteq Conn /\ left \subseteq Conn /\ named \subseteq Conn /\ token \subseteq named
  BY DEF HelperInv, HelperShapes

LEMMA HThread ==
  ASSUME HelperInv, NEW c \in Conn
  PROVE  conns[c] \in Thread /\ group[c] \subseteq Process /\ ThreadGood(c)
  BY HTypes DEF HelperInv

LEMMA HAtOnly ==
  ASSUME NEW t \in Thread, NEW a \in {"new", "open", "asked", "store", "ready", "run", "ending", "done", "closed", "dead"},
         NEW w, w = [t EXCEPT !.at = a]
  PROVE  /\ w \in Thread /\ w.at = a /\ w.op = t.op /\ w.todo = t.todo /\ w.target = t.target
         /\ w.termed = t.termed /\ w.cut = t.cut /\ w.freed = t.freed /\ w.res = t.res
  BY DEF Thread

LEMMA HBlank ==
  /\ Blank \in Thread /\ Blank.at = "new" /\ Blank.termed = FALSE /\ Blank.res = "none" /\ Blank.freed = FALSE
  /\ \A a \in {"closed", "dead"} : LET w == [Blank EXCEPT !.at = a] IN
        w \in Thread /\ w.at = a /\ w.termed = FALSE /\ w.res = "none" /\ w.freed = FALSE
<1>1. Blank \in Thread
  <2>1. 0 \in 0..MaxCommands
    OBVIOUS
  <2> QED BY <2>1 DEF Blank, Thread
<1>2. Blank.at = "new" /\ Blank.termed = FALSE /\ Blank.res = "none" /\ Blank.freed = FALSE
  BY DEF Blank
<1>3. ASSUME NEW a \in {"closed", "dead"}
      PROVE  LET w == [Blank EXCEPT !.at = a] IN
             w \in Thread /\ w.at = a /\ w.termed = FALSE /\ w.res = "none" /\ w.freed = FALSE
  BY <1>1, <1>2, HAtOnly
<1> QED BY <1>1, <1>2, <1>3

LEMMA HOpenFinite == IsFiniteSet(HOpen)
  BY FS_Subset DEF HOpen

LEMMA HelperInitInv == HelperInit => HelperInv
<1> SUFFICES ASSUME HelperInit PROVE HelperInv
  OBVIOUS
<1>1. \A c \in Conn : conns[c] = Blank
  BY DEF HelperInit
<1>2. HelperShapes /\ token \subseteq named
  BY HBlank DEF HelperInit, HelperShapes
<1>3. HOpen = {}
  BY <1>1, HBlank DEF HOpen, HActive
<1>4. count = Cardinality(HOpen)
  BY <1>3, FS_EmptySet DEF HelperInit
<1>5. ASSUME NEW c \in Conn PROVE ThreadGood(c)
  BY <1>1, HBlank DEF HelperInit, ThreadGood, Live, HWriting, HEarly
<1> QED BY <1>2, <1>4, <1>5 DEF HelperInv

\* Another thread is as it was: the slot passes it by and tokens only grow.
LEMMA HOthers ==
  ASSUME HelperInv, NEW d \in Conn, helper' = helper, conns'[d] = conns[d], group'[d] = group[d],
         slot' = d <=> slot = d, token \subseteq token', named \subseteq named'
  PROVE  ThreadGood(d)'
<1>1. ThreadGood(d)
  BY HThread
<1>2. Live' <=> Live
  BY DEF Live
<1> QED BY <1>1, <1>2 DEF ThreadGood

\* A step of one thread.
LEMMA HMoves ==
  ASSUME HelperInv, NEW c \in Conn, NEW w \in Thread, NEW g \in SUBSET Process,
         helper' = helper, conns' = [conns EXCEPT ![c] = w], group' = [group EXCEPT ![c] = g],
         slot' = slot \/ (slot = Nobody /\ slot' = c) \/ (slot = c /\ slot' = Nobody),
         token \subseteq token', token' \subseteq named', named \subseteq named', named' \subseteq Conn,
         left' \subseteq Conn, count' \in 0..MaxConns,
         Live => count' = Cardinality(HOpen)',
         ThreadGood(c)'
  PROVE  HelperInv'
<1>1. HelperShapes'
  BY HTypes DEF HelperShapes
<1>2. ASSUME NEW d \in Conn \ {c} PROVE ThreadGood(d)'
  <2>1. conns'[d] = conns[d] /\ group'[d] = group[d] /\ (slot' = d <=> slot = d)
    BY HTypes
  <2> QED BY <2>1, HOthers
<1>3. Live' <=> Live
  BY DEF Live
<1> QED BY <1>1, <1>2, <1>3 DEF HelperInv

\* A step that opens and closes no connection.
LEMMA HMovesOpen ==
  ASSUME HelperInv, NEW c \in Conn, NEW w \in Thread, NEW g \in SUBSET Process,
         UNCHANGED <<helper, count>>, conns' = [conns EXCEPT ![c] = w], group' = [group EXCEPT ![c] = g],
         slot' = slot \/ (slot = Nobody /\ slot' = c) \/ (slot = c /\ slot' = Nobody),
         token \subseteq token', token' \subseteq named', named \subseteq named', named' \subseteq Conn,
         left' \subseteq Conn,
         w.at \in HActive <=> conns[c].at \in HActive,
         ThreadGood(c)'
  PROVE  HelperInv'
<1>1. HOpen' = HOpen
  BY HTypes DEF HOpen
<1>2. Cardinality(HOpen)' = Cardinality(HOpen)
  BY <1>1
<1>3. Live => count' = Cardinality(HOpen)'
  BY <1>2 DEF HelperInv
<1>4. count' \in 0..MaxConns
  BY HTypes
<1> QED BY <1>3, <1>4, HMoves

LEMMA HAccepts ==
  ASSUME HelperInv, NEW c \in Conn, Accept(c)
  PROVE  HelperInv'
<1>1. PICK t, w, g : t = conns[c] /\ w = [conns[c] EXCEPT !.at = IF count >= MaxConns THEN "closed" ELSE "open"]
                     /\ g = group[c]
  OBVIOUS
<1>2. t \in Thread /\ g \in SUBSET Process /\ ThreadGood(c)
  BY <1>1, HThread
<1>3. /\ w \in Thread /\ w.at = (IF count >= MaxConns THEN "closed" ELSE "open")
      /\ w.termed = t.termed /\ w.res = t.res /\ w.freed = t.freed /\ w.op = t.op /\ w.cut = t.cut
  BY <1>1, <1>2 DEF Thread
<1>4. /\ helper = "up" /\ t.at = "new" /\ conns' = [conns EXCEPT ![c] = w] /\ group' = [group EXCEPT ![c] = g]
      /\ UNCHANGED <<helper, slot, token, group, left, named>>
      /\ count' = IF count >= MaxConns THEN count ELSE count + 1
  BY <1>1, HTypes DEF Accept, Has
<1>5. conns'[c] = w /\ Live /\ Live'
  BY <1>4, HTypes DEF Live
<1>6. ThreadGood(c)'
  BY <1>1, <1>2, <1>3, <1>4, <1>5 DEF ThreadGood, HWriting, HEarly
<1>7. count = Cardinality(HOpen) /\ count \in 0..MaxConns
  BY <1>5, HTypes DEF HelperInv
<1>8. Cardinality(HOpen)' = count' /\ count' \in 0..MaxConns
  <2>1. CASE count >= MaxConns
    <3>1. HOpen' = HOpen
      BY <1>1, <1>3, <1>4, <1>5, <2>1, HTypes DEF HOpen, HActive
    <3> QED BY <1>4, <1>7, <2>1, <3>1
  <2>2. CASE ~(count >= MaxConns)
    <3>1. HOpen' = HOpen \cup {c} /\ c \notin HOpen
      BY <1>1, <1>3, <1>4, <1>5, <2>2, HTypes DEF HOpen, HActive
    <3>2. Cardinality(HOpen \cup {c}) = Cardinality(HOpen) + 1
      BY <3>1, HOpenFinite, FS_AddElement
    <3> QED BY <1>4, <1>7, <2>2, <3>1, <3>2
  <2> QED BY <2>1, <2>2
<1>9. slot' = slot /\ token' = token /\ named' = named /\ left' = left /\ helper' = helper
  BY <1>4
<1>10. token' \subseteq named' /\ named' \subseteq Conn /\ left' \subseteq Conn /\ token \subseteq token' /\ named \subseteq named'
  BY <1>9, HTypes
<1> QED BY <1>2, <1>3, <1>4, <1>6, <1>8, <1>9, <1>10, HMoves

LEMMA HCloses ==
  ASSUME HelperInv, NEW c \in Conn, Close(c)
  PROVE  HelperInv'
<1>1. PICK w, g : w = [Blank EXCEPT !.at = "closed"] /\ g = group[c]
  OBVIOUS
<1>2. w \in Thread /\ w.at = "closed" /\ ~w.termed /\ w.res = "none" /\ ~w.freed
  BY <1>1, HBlank
<1>3. g \in SUBSET Process /\ ThreadGood(c)
  BY <1>1, HThread
<1>4. /\ Live /\ conns[c].at = "done" /\ conns' = [conns EXCEPT ![c] = w] /\ group' = [group EXCEPT ![c] = g]
      /\ UNCHANGED <<helper, slot, token, group, named>> /\ left' \subseteq left /\ count' = count - 1
  BY <1>1, HTypes DEF Close, Is
<1>5. conns'[c] = w /\ Live'
  BY <1>4, HTypes DEF Live
<1>6. ThreadGood(c)'
  BY <1>2, <1>3, <1>4, <1>5 DEF ThreadGood, HWriting, HEarly
<1>7. count = Cardinality(HOpen) /\ count \in 0..MaxConns
  BY <1>4, HTypes DEF HelperInv
<1>8. HOpen' = HOpen \ {c} /\ c \in HOpen
  BY <1>2, <1>4, <1>5, HTypes DEF HOpen, HActive
<1>9. Cardinality(HOpen \ {c}) = Cardinality(HOpen) - 1 /\ Cardinality(HOpen \ {c}) \in Nat
  BY <1>8, HOpenFinite, FS_RemoveElement, FS_CardinalityType, FS_Subset
<1>10. Cardinality(HOpen)' = count' /\ count' \in 0..MaxConns
  BY <1>4, <1>7, <1>8, <1>9
<1>11. slot' = slot /\ token' = token /\ named' = named /\ helper' = helper
  BY <1>4
<1>12. token' \subseteq named' /\ named' \subseteq Conn /\ left' \subseteq Conn /\ token \subseteq token' /\ named \subseteq named'
  BY <1>4, <1>11, HTypes
<1> QED BY <1>2, <1>3, <1>4, <1>6, <1>10, <1>11, <1>12, HMoves

LEMMA HAsks ==
  ASSUME HelperInv, NEW c \in Conn, NEW op \in WriteOp \cup {"cancel", "none"}, Ask(c, op)
  PROVE  HelperInv'
<1>1. PICK t, a, w, g : /\ t = conns[c] /\ g = group[c] /\ a = (IF op = "none" THEN "done" ELSE "asked")
                        /\ w = [t EXCEPT !.at = a, !.op = op]
  OBVIOUS
<1>2. t \in Thread /\ g \in SUBSET Process /\ ThreadGood(c)
  BY <1>1, HThread
<1>3. /\ w \in Thread /\ w.at \in {"done", "asked"}
      /\ w.termed = t.termed /\ w.res = t.res /\ w.freed = t.freed
  <2>1. a \in {"done", "asked"}
    BY <1>1
  <2>2. t \in Thread /\ w = [t EXCEPT !.at = a, !.op = op]
    BY <1>1, <1>2
  <2> QED BY <2>1, <2>2 DEF Thread
<1>4. /\ Live /\ t.at = "open" /\ UNCHANGED <<helper, count, slot, token, group, left, named>>
  BY <1>1 DEF Ask, Is
<1>5. conns' = [conns EXCEPT ![c] = w] /\ group' = [group EXCEPT ![c] = g]
  BY <1>1, <1>4, HTypes DEF Ask
<1>6. conns'[c] = w /\ Live'
  BY <1>4, <1>5, HTypes DEF Live
<1>7. ThreadGood(c)'
  BY <1>1, <1>2, <1>3, <1>4, <1>6 DEF ThreadGood, HWriting, HEarly
<1>8. (w.at \in HActive <=> conns[c].at \in HActive) /\ slot' = slot
  BY <1>1, <1>3, <1>4 DEF HActive
<1>9. /\ token' \subseteq named' /\ named' \subseteq Conn /\ left' \subseteq Conn
      /\ token \subseteq token' /\ named \subseteq named'
  BY <1>4, HTypes
<1> QED BY <1>2, <1>3, <1>4, <1>5, <1>7, <1>8, <1>9, HMovesOpen

LEMMA HLeaves ==
  ASSUME HelperInv, NEW c \in Conn, Leave(c)
  PROVE  HelperInv'
<1>1. UNCHANGED helper /\ UNCHANGED conns /\ UNCHANGED count /\ UNCHANGED slot /\ UNCHANGED token
      /\ UNCHANGED group /\ UNCHANGED named /\ left' \subseteq Conn
  BY HTypes DEF Leave
<1> QED BY <1>1, HTypes DEF HelperInv, HelperShapes, HOpen, ThreadGood, Live

LEMMA HFinds ==
  ASSUME HelperInv, NEW c \in Conn, CancelFind(c)
  PROVE  HelperInv'
<1>1. PICK t, a, w, g : /\ t = conns[c] /\ g = group[c] /\ a = (IF slot = Nobody THEN "done" ELSE "store")
                        /\ w = [t EXCEPT !.at = a, !.target = slot]
  OBVIOUS
<1>2. t \in Thread /\ g \in SUBSET Process /\ ThreadGood(c)
  BY <1>1, HThread
<1>3. /\ w \in Thread /\ w.at \in {"done", "store"} /\ (w.at = "store" => slot # Nobody) /\ w.target = slot
      /\ w.termed = t.termed /\ w.res = t.res /\ w.freed = t.freed
  <2>1. a \in {"done", "store"} /\ (a = "store" => slot # Nobody) /\ slot \in Conn \cup {Nobody}
    BY <1>1, HTypes
  <2>2. t \in Thread /\ w = [t EXCEPT !.at = a, !.target = slot]
    BY <1>1, <1>2
  <2>3. w \in Thread /\ w.at = a /\ w.target = slot /\ w.termed = t.termed /\ w.res = t.res /\ w.freed = t.freed
    BY <2>1, <2>2 DEF Thread
  <2> QED BY <2>1, <2>3
<1>4. /\ Live /\ t.at = "asked" /\ UNCHANGED <<helper, count, slot, token, group, left>>
      /\ named' = named \cup ({slot} \ {Nobody})
  BY <1>1 DEF CancelFind, Is
<1>5. conns' = [conns EXCEPT ![c] = w] /\ group' = [group EXCEPT ![c] = g]
  BY <1>1, <1>4, HTypes DEF CancelFind
<1>6. conns'[c] = w /\ Live'
  BY <1>4, <1>5, HTypes DEF Live
<1>7. ThreadGood(c)'
  BY <1>1, <1>2, <1>3, <1>4, <1>6 DEF ThreadGood, HWriting, HEarly
<1>8. (w.at \in HActive <=> conns[c].at \in HActive) /\ slot' = slot
  BY <1>1, <1>3, <1>4 DEF HActive
<1>9. /\ token' \subseteq named' /\ named' \subseteq Conn /\ left' \subseteq Conn
      /\ token \subseteq token' /\ named \subseteq named'
  BY <1>4, HTypes
<1> QED BY <1>2, <1>3, <1>4, <1>5, <1>7, <1>8, <1>9, HMovesOpen

LEMMA HStores ==
  ASSUME HelperInv, NEW c \in Conn, CancelStore(c)
  PROVE  HelperInv'
<1>1. PICK t, w, g : t = conns[c] /\ g = group[c] /\ w = [t EXCEPT !.at = "done"]
  OBVIOUS
<1>2. t \in Thread /\ g \in SUBSET Process /\ ThreadGood(c)
  BY <1>1, HThread
<1>3. /\ w \in Thread /\ w.at = "done"
      /\ w.termed = t.termed /\ w.res = t.res /\ w.freed = t.freed
  BY <1>1, <1>2, HAtOnly
<1>4. /\ Live /\ t.at = "store" /\ UNCHANGED <<helper, count, slot, group, left, named>>
      /\ token' = token \cup {t.target}
  BY <1>1 DEF CancelStore, Is
<1>5. conns' = [conns EXCEPT ![c] = w] /\ group' = [group EXCEPT ![c] = g]
  BY <1>1, <1>4, HTypes DEF CancelStore, Has
<1>6. conns'[c] = w /\ Live'
  BY <1>4, <1>5, HTypes DEF Live
<1>7. ThreadGood(c)'
  BY <1>1, <1>2, <1>3, <1>4, <1>6 DEF ThreadGood, HWriting, HEarly
<1>8. (w.at \in HActive <=> conns[c].at \in HActive) /\ slot' = slot
  BY <1>1, <1>3, <1>4 DEF HActive
<1>9. t.target \in named
  BY <1>1, <1>2, <1>4 DEF ThreadGood
<1>10. /\ token' \subseteq named' /\ named' \subseteq Conn /\ left' \subseteq Conn
       /\ token \subseteq token' /\ named \subseteq named'
  BY <1>4, <1>9, HTypes
<1> QED BY <1>2, <1>3, <1>4, <1>5, <1>7, <1>8, <1>10, HMovesOpen

LEMMA HClaims ==
  ASSUME HelperInv, NEW c \in Conn, Claim(c)
  PROVE  HelperInv'
<1>1. PICK t, g : t = conns[c] /\ g = group[c]
  OBVIOUS
<1>2. t \in Thread /\ g \in SUBSET Process /\ ThreadGood(c)
  BY <1>1, HThread
<1>3. /\ Live /\ t.at = "asked" /\ UNCHANGED <<helper, count, token, group, left, named>>
      /\ t.op \in WriteOp
  BY <1>1 DEF Claim, Is
<1>4. /\ token' \subseteq named' /\ named' \subseteq Conn /\ left' \subseteq Conn
      /\ token \subseteq token' /\ named \subseteq named'
  BY <1>3, HTypes
<1>5. group' = [group EXCEPT ![c] = g] /\ Live'
  BY <1>1, <1>3, HTypes DEF Live
<1>6. ~t.termed
  BY <1>1, <1>2, <1>3 DEF ThreadGood, HEarly
<1>7. CASE slot # Nobody /\ EndsWith(c, "done", "busy") /\ UNCHANGED slot
  <2>1. PICK w : w = [t EXCEPT !.at = "done", !.res = "busy"]
    OBVIOUS
  <2>2. w \in Thread /\ w.at = "done" /\ w.res = "busy" /\ w.termed = t.termed /\ w.freed = t.freed
    BY <1>2, <2>1 DEF Thread
  <2>3. conns' = [conns EXCEPT ![c] = w]
    BY <1>1, <1>7, <2>1, HTypes DEF EndsWith
  <2>4. conns'[c] = w
    BY <2>3, HTypes
  <2>5. ThreadGood(c)'
    BY <1>1, <1>2, <1>3, <1>5, <1>7, <2>2, <2>4 DEF ThreadGood, HWriting, HEarly
  <2>6. w.at \in HActive <=> conns[c].at \in HActive
    BY <1>1, <1>3, <2>2 DEF HActive
  <2> QED BY <1>2, <1>3, <1>4, <1>5, <1>7, <2>2, <2>3, <2>5, <2>6, HMovesOpen
<1>8. ASSUME slot = Nobody, slot' = c, NEW n \in CommandsOf(conns[c].op),
             conns' = [conns EXCEPT ![c].at = "ready", ![c].todo = n]
      PROVE  HelperInv'
  <2>1. PICK w : w = [t EXCEPT !.at = "ready", !.todo = n]
    OBVIOUS
  <2>2. n \in 1..MaxCommands /\ n \in 0..MaxCommands
    BY <1>8 DEF CommandsOf
  <2>3. /\ w \in Thread /\ w.at = "ready" /\ w.todo = n
        /\ w.termed = t.termed /\ w.freed = t.freed /\ w.res = t.res
    BY <1>2, <2>1, <2>2 DEF Thread
  <2>4. conns' = [conns EXCEPT ![c] = w]
    BY <1>1, <1>8, <2>1, HTypes
  <2>5. conns'[c] = w
    BY <2>4, HTypes
  <2>6. ThreadGood(c)'
    BY <1>1, <1>2, <1>3, <1>5, <1>6, <1>8, <2>2, <2>3, <2>5 DEF ThreadGood, HWriting, HEarly
  <2>7. w.at \in HActive <=> conns[c].at \in HActive
    BY <1>1, <1>3, <2>3 DEF HActive
  <2> QED BY <1>2, <1>3, <1>4, <1>5, <1>8, <2>3, <2>4, <2>6, <2>7, HMovesOpen
<1> QED BY <1>7, <1>8 DEF Claim

LEMMA HReleases ==
  ASSUME HelperInv, NEW c \in Conn, Release(c)
  PROVE  HelperInv'
<1>1. PICK t, w, g : t = conns[c] /\ g = group[c] /\ w = [t EXCEPT !.at = "done"]
  OBVIOUS
<1>2. t \in Thread /\ g \in SUBSET Process /\ ThreadGood(c)
  BY <1>1, HThread
<1>3. /\ w \in Thread /\ w.at = "done" /\ w.op = t.op /\ w.cut = t.cut
      /\ w.termed = t.termed /\ w.res = t.res /\ w.freed = t.freed
  BY <1>1, <1>2, HAtOnly
<1>4. /\ Live /\ t.at = "ending" /\ UNCHANGED <<helper, count, token, group, left, named>> /\ slot' = Nobody
  BY <1>1 DEF Release, Is
<1>5. conns' = [conns EXCEPT ![c] = w] /\ group' = [group EXCEPT ![c] = g]
  BY <1>1, <1>4, HTypes DEF Release, Has
<1>6. conns'[c] = w /\ Live' /\ slot = c
  BY <1>1, <1>2, <1>4, <1>5, HTypes DEF Live, ThreadGood, HWriting
<1>7. ThreadGood(c)'
  BY <1>1, <1>2, <1>3, <1>4, <1>6 DEF ThreadGood, HWriting, HEarly
<1>8. w.at \in HActive <=> conns[c].at \in HActive
  BY <1>1, <1>3, <1>4 DEF HActive
<1>9. /\ token' \subseteq named' /\ named' \subseteq Conn /\ left' \subseteq Conn
      /\ token \subseteq token' /\ named \subseteq named'
  BY <1>4, HTypes
<1> QED BY <1>2, <1>3, <1>4, <1>5, <1>6, <1>7, <1>8, <1>9, HMovesOpen

\* A write ends or goes on to its next command once the last one is over.
LEMMA HGoes ==
  ASSUME HelperInv, NEW c \in Conn, NEW w \in Thread, Live, conns[c].at \in {"ready", "run"},
         UNCHANGED <<helper, count, slot, token, left, named>>, conns' = [conns EXCEPT ![c] = w],
         group' = [group EXCEPT ![c] = {}],
         w.at \in {"ready", "ending"}, w.termed = conns[c].termed,
         w.at = "ready" => ~w.termed /\ w.todo > 0 /\ w.res = "none" /\ ~w.freed,
         w.termed /\ (w.res = "ok" \/ w.freed) => w.op = "teardown" /\ w.cut
  PROVE  HelperInv'
<1>1. PICK g : g = {}
  OBVIOUS
<1>2. g \in SUBSET Process /\ ThreadGood(c)
  BY <1>1, HThread
<1>3. group' = [group EXCEPT ![c] = g] /\ group'[c] = {} /\ conns'[c] = w /\ Live'
  BY <1>1, HTypes DEF Live
<1>4. slot = c
  BY <1>2 DEF ThreadGood, HWriting
<1>5. ThreadGood(c)'
  BY <1>2, <1>3, <1>4 DEF ThreadGood, HWriting, HEarly
<1>6. w.at \in HActive <=> conns[c].at \in HActive
  BY DEF HActive
<1>7. /\ token' \subseteq named' /\ named' \subseteq Conn /\ left' \subseteq Conn
      /\ token \subseteq token' /\ named \subseteq named' /\ slot' = slot
  BY HTypes
<1> QED BY <1>2, <1>3, <1>5, <1>6, <1>7, HMovesOpen

LEMMA HProceeds ==
  ASSUME HelperInv, NEW c \in Conn, NEW r \in {"ok", "failed", "cancelled"}, Live,
         conns[c].at \in {"ready", "run"}, group' = [group EXCEPT ![c] = {}],
         UNCHANGED <<helper, count, slot, token, left, named>>,
         conns[c].termed => r # "ok" /\ (r = "failed" => conns[c].cut),
         Proceed(c, r)
  PROVE  HelperInv'
<1>1. PICK t, v : t = conns[c] /\ v = [t EXCEPT !.good = TRUE, !.killed = FALSE, !.deaf = FALSE]
  OBVIOUS
<1>2. t \in Thread /\ ThreadGood(c)
  BY <1>1, HThread
<1>3. /\ v \in Thread /\ v.op = t.op /\ v.todo = t.todo /\ v.termed = t.termed /\ v.cut = t.cut /\ v.freed = t.freed
      /\ v.res = t.res
  BY <1>1, <1>2 DEF Thread
<1>4. v.res = "none" /\ ~v.freed /\ v.todo \in 0..MaxCommands
  BY <1>1, <1>2, <1>3 DEF ThreadGood, HEarly, Thread
<1>5. conns' = [conns EXCEPT ![c] =
        IF v.op = "teardown" /\ r # "cancelled" THEN [v EXCEPT !.at = "ending", !.res = "ok", !.freed = TRUE]
        ELSE IF r = "ok" /\ v.todo > 0 THEN [v EXCEPT !.at = "ready"]
        ELSE [v EXCEPT !.at = "ending", !.res = Mapped(c, r)]]
  BY <1>1 DEF Proceed
<1>6. v.termed => r # "ok" /\ (r = "failed" => v.cut)
  BY <1>1, <1>3
<1>7. CASE v.op = "teardown" /\ r # "cancelled"
  <2>1. PICK w : w = [v EXCEPT !.at = "ending", !.res = "ok", !.freed = TRUE]
    OBVIOUS
  <2>2. w \in Thread /\ w.at = "ending" /\ w.termed = v.termed /\ w.op = v.op /\ w.cut = v.cut
    BY <1>3, <2>1 DEF Thread
  <2>3. conns' = [conns EXCEPT ![c] = w]
    BY <1>5, <1>7, <2>1
  <2>4. w.termed => w.op = "teardown" /\ w.cut
    BY <1>6, <1>7, <2>2
  <2>5. w.termed = conns[c].termed
    BY <1>1, <1>3, <2>2
  <2> QED BY <2>2, <2>3, <2>4, <2>5, HGoes
<1>8. CASE ~(v.op = "teardown" /\ r # "cancelled") /\ r = "ok" /\ v.todo > 0
  <2>1. PICK w : w = [v EXCEPT !.at = "ready"]
    OBVIOUS
  <2>2. w \in Thread /\ w.at = "ready" /\ w.termed = v.termed /\ w.todo = v.todo /\ w.res = v.res /\ w.freed = v.freed
    BY <1>3, <2>1, HAtOnly
  <2>3. conns' = [conns EXCEPT ![c] = w]
    BY <1>5, <1>8, <2>1
  <2>4. ~w.termed /\ w.todo > 0 /\ w.res = "none" /\ ~w.freed
    BY <1>4, <1>6, <1>8, <2>2
  <2>5. w.termed = conns[c].termed
    BY <1>1, <1>3, <2>2
  <2> QED BY <2>2, <2>3, <2>4, <2>5, HGoes
<1>9. CASE ~(v.op = "teardown" /\ r # "cancelled") /\ ~(r = "ok" /\ v.todo > 0)
  <2>1. PICK x, w : x = Mapped(c, r) /\ w = [v EXCEPT !.at = "ending", !.res = x]
    OBVIOUS
  <2>2. x \in {"ok", "failed", "cancelled"}
    BY <2>1 DEF Mapped
  <2>3. w = [v EXCEPT !.at = "ending", !.res = x]
    BY <2>1
  <2>4. w \in Thread /\ w.at = "ending" /\ w.res = x /\ w.termed = v.termed /\ w.freed = v.freed
    BY <1>3, <2>2, <2>3 DEF Thread
  <2>5. conns' = [conns EXCEPT ![c] = w]
    BY <1>5, <1>9, <2>1
  <2>6. w.termed = conns[c].termed
    BY <1>1, <1>3, <2>4
  <2>7. w.termed => x = "cancelled"
    BY <1>2, <1>6, <2>1, <2>4, <2>6 DEF Mapped, ThreadGood
  <2>8. ~(w.termed /\ (w.res = "ok" \/ w.freed))
    BY <1>4, <2>4, <2>7
  <2> QED BY <2>4, <2>5, <2>6, <2>8, HGoes
<1> QED BY <1>7, <1>8, <1>9

LEMMA HStepFails ==
  ASSUME HelperInv, NEW c \in Conn, StepFails(c)
  PROVE  HelperInv'
<1>1. PICK t, x : t = conns[c] /\ x = Mapped(c, "failed")
  OBVIOUS
<1>2. PICK w : w = [t EXCEPT !.at = "ending", !.res = x]
  OBVIOUS
<1>3. t \in Thread /\ ThreadGood(c) /\ x \in {"failed", "cancelled"}
  BY <1>1, HThread DEF Mapped
<1>4. w \in Thread /\ w.at = "ending" /\ w.res = x /\ w.termed = t.termed /\ w.freed = t.freed
  BY <1>2, <1>3 DEF Thread
<1>5. Live /\ t.at = "ready" /\ UNCHANGED <<helper, count, slot, token, group, left, named>>
  BY <1>1 DEF StepFails, Is
<1>6. conns' = [conns EXCEPT ![c] = w]
  BY <1>1, <1>2, HTypes DEF StepFails, EndsWith
<1>7. ~w.termed /\ w.termed = conns[c].termed /\ group[c] = {}
  BY <1>1, <1>3, <1>4, <1>5 DEF ThreadGood, HEarly
<1>8. group' = [group EXCEPT ![c] = {}]
  BY <1>5, <1>7, HTypes
<1> QED BY <1>1, <1>4, <1>5, <1>6, <1>7, <1>8, HGoes

\* A step of a write whose command runs, or of a process left behind.
LEMMA HRuns ==
  ASSUME HelperInv, NEW c \in Conn, NEW w \in Thread, NEW g \in SUBSET Process,
         UNCHANGED <<helper, count, slot, token, left, named>>, conns' = [conns EXCEPT ![c] = w],
         group' = [group EXCEPT ![c] = g],
         w.at = conns[c].at, w.op = conns[c].op, w.res = conns[c].res, w.freed = conns[c].freed,
         w.todo = conns[c].todo, w.target = conns[c].target,
         g \subseteq group[c], conns[c].cut => w.cut,
         w.termed = conns[c].termed \/ (w.at = "run" /\ c \in token)
  PROVE  HelperInv'
<1>1. ThreadGood(c)
  BY HThread
<1>2. conns'[c] = w /\ group'[c] = g /\ (Live' <=> Live)
  BY HTypes DEF Live
<1>3. ThreadGood(c)'
  BY <1>1, <1>2 DEF ThreadGood, HWriting, HEarly
<1>4. /\ token' \subseteq named' /\ named' \subseteq Conn /\ left' \subseteq Conn
      /\ token \subseteq token' /\ named \subseteq named' /\ slot' = slot
  BY HTypes
<1> QED BY <1>3, <1>4, HMovesOpen

LEMMA HSpawns ==
  ASSUME HelperInv, NEW c \in Conn, NEW ps \in SUBSET Process, Spawn(c, ps)
  PROVE  HelperInv'
<1>1. ThreadGood(c) /\ Live /\ conns[c].at = "ready" /\ UNCHANGED <<helper, count, slot, token, left, named>>
  BY HThread DEF Spawn, Is
<1>2. ~conns[c].termed /\ group[c] = {} /\ conns[c].todo > 0 /\ slot = c /\ conns[c].res = "none" /\ ~conns[c].freed
  BY <1>1 DEF ThreadGood, HWriting, HEarly
<1>3. CASE ps = {}
  <2>1. Proceed(c, "failed") /\ group' = [group EXCEPT ![c] = {}]
    BY <1>2, <1>3, HTypes DEF Spawn
  <2> QED BY <1>1, <1>2, <2>1, HProceeds
<1>4. CASE ps # {}
  <2>1. PICK t, n, w : t = conns[c] /\ n = conns[c].todo - 1 /\ w = [t EXCEPT !.at = "run", !.todo = n]
    OBVIOUS
  <2>2. t \in Thread /\ t.todo \in 0..MaxCommands
    BY <2>1, HThread DEF Thread
  <2>3. n \in 0..MaxCommands
    BY <1>2, <2>1, <2>2
  <2>4. w = [t EXCEPT !.at = "run", !.todo = n]
    BY <2>1
  <2>5. w \in Thread /\ w.at = "run" /\ w.termed = t.termed /\ w.res = t.res /\ w.freed = t.freed
    BY <2>2, <2>3, <2>4 DEF Thread
  <2>6. conns' = [conns EXCEPT ![c] = w]
    BY <1>4, <2>1, HTypes DEF Spawn
  <2>7. group' = [group EXCEPT ![c] = ps] /\ ps \in SUBSET Process
    BY <1>4 DEF Spawn
  <2>8. conns'[c] = w /\ Live' /\ slot' = c
    BY <1>1, <1>2, <2>6, HTypes DEF Live
  <2>9. ThreadGood(c)'
    BY <1>2, <2>1, <2>5, <2>8 DEF ThreadGood, HWriting, HEarly
  <2>10. w.at \in HActive <=> conns[c].at \in HActive
    BY <1>1, <2>5 DEF HActive
  <2>11. /\ token' \subseteq named' /\ named' \subseteq Conn /\ left' \subseteq Conn
         /\ token \subseteq token' /\ named \subseteq named' /\ slot' = slot
    BY <1>1, HTypes
  <2> QED BY <1>1, <2>5, <2>6, <2>7, <2>9, <2>10, <2>11, HMovesOpen
<1> QED BY <1>3, <1>4

LEMMA HProcessEnds ==
  ASSUME HelperInv, NEW c \in Conn, NEW p \in Process, NEW good \in BOOLEAN, ProcessEnds(c, p, good)
  PROVE  HelperInv'
<1>1. PICK t, g, w : t = conns[c] /\ g = group[c] \ {p} /\ w = (IF p = "leader" THEN [t EXCEPT !.good = good] ELSE t)
  OBVIOUS
<1>2. t \in Thread /\ group[c] \subseteq Process
  BY <1>1, HThread
<1>3. /\ w \in Thread /\ w.at = t.at /\ w.op = t.op /\ w.res = t.res /\ w.freed = t.freed /\ w.todo = t.todo
      /\ w.target = t.target /\ w.cut = t.cut /\ w.termed = t.termed
  <2>1. CASE p = "leader"
    <3>1. w = [t EXCEPT !.good = good]
      BY <1>1, <2>1
    <3> QED BY <1>2, <3>1 DEF Thread
  <2>2. CASE p # "leader"
    BY <1>1, <1>2, <2>2
  <2> QED BY <2>1, <2>2
<1>4. UNCHANGED <<helper, count, slot, token, left, named>> /\ group' = [group EXCEPT ![c] = g]
  BY <1>1, HTypes DEF ProcessEnds
<1>5. conns' = [conns EXCEPT ![c] = w]
  BY <1>1, HTypes DEF ProcessEnds
<1>6. g \in SUBSET Process /\ g \subseteq group[c]
  BY <1>1, <1>2
<1> QED BY <1>1, <1>3, <1>4, <1>5, <1>6, HRuns

LEMMA HSendsTerm ==
  ASSUME HelperInv, NEW c \in Conn, SendTerm(c)
  PROVE  HelperInv'
<1>1. PICK t, g, w : t = conns[c] /\ g = group[c] /\ w = [t EXCEPT !.termed = TRUE]
  OBVIOUS
<1>2. t \in Thread /\ g \in SUBSET Process
  BY <1>1, HThread
<1>3. /\ w \in Thread /\ w.at = t.at /\ w.op = t.op /\ w.res = t.res /\ w.freed = t.freed /\ w.todo = t.todo
      /\ w.target = t.target /\ w.cut = t.cut
  BY <1>1, <1>2 DEF Thread
<1>4. UNCHANGED <<helper, count, slot, token, left, named>> /\ t.at = "run" /\ c \in token /\ group' = group
  BY <1>1 DEF SendTerm, Polls, Is
<1>5. conns' = [conns EXCEPT ![c] = w] /\ group' = [group EXCEPT ![c] = g]
  BY <1>1, <1>4, HTypes DEF SendTerm
<1>6. g \subseteq group[c] /\ w.at = "run"
  BY <1>1, <1>3, <1>4
<1> QED BY <1>1, <1>2, <1>3, <1>4, <1>5, <1>6, HRuns

LEMMA HReadFails ==
  ASSUME HelperInv, NEW c \in Conn, ReadFails(c)
  PROVE  HelperInv'
<1>1. PICK t, g, w : t = conns[c] /\ g = group[c] /\ w = [t EXCEPT !.deaf = TRUE]
  OBVIOUS
<1>2. t \in Thread /\ g \in SUBSET Process
  BY <1>1, HThread
<1>3. /\ w \in Thread /\ w.at = t.at /\ w.op = t.op /\ w.res = t.res /\ w.freed = t.freed /\ w.todo = t.todo
      /\ w.target = t.target /\ w.cut = t.cut /\ w.termed = t.termed
  BY <1>1, <1>2 DEF Thread
<1>4. UNCHANGED <<helper, count, slot, token, left, named>> /\ group' = group
  BY <1>1 DEF ReadFails
<1>5. conns' = [conns EXCEPT ![c] = w] /\ group' = [group EXCEPT ![c] = g]
  BY <1>1, <1>4, HTypes DEF ReadFails
<1>6. g \subseteq group[c]
  BY <1>1
<1> QED BY <1>1, <1>2, <1>3, <1>4, <1>5, <1>6, HRuns

LEMMA HLineFails ==
  ASSUME HelperInv, NEW c \in Conn, LineFails(c)
  PROVE  HelperInv'
<1>1. PICK t, g, w, good : /\ t = conns[c] /\ good = (t.good /\ "leader" \notin group[c])
                           /\ g = (IF t.killed THEN group[c] ELSE {})
                           /\ w = (IF t.killed THEN [t EXCEPT !.cut = TRUE]
                                   ELSE [t EXCEPT !.cut = TRUE, !.killed = TRUE, !.good = good])
  OBVIOUS
<1>2. t \in Thread /\ g \in SUBSET Process /\ g \subseteq group[c] /\ good \in BOOLEAN
  BY <1>1, HThread
<1>3. /\ w \in Thread /\ w.at = t.at /\ w.op = t.op /\ w.res = t.res /\ w.freed = t.freed /\ w.todo = t.todo
      /\ w.target = t.target /\ w.termed = t.termed /\ w.cut = TRUE
  <2>1. CASE t.killed
    <3>1. w = [t EXCEPT !.cut = TRUE]
      BY <1>1, <2>1
    <3> QED BY <1>2, <3>1 DEF Thread
  <2>2. CASE ~t.killed
    <3>1. w = [t EXCEPT !.cut = TRUE, !.killed = TRUE, !.good = good]
      BY <1>1, <2>2
    <3> QED BY <1>2, <3>1 DEF Thread
  <2> QED BY <2>1, <2>2
<1>4. UNCHANGED <<helper, count, slot, token, left, named>> /\ group' = [group EXCEPT ![c] = g]
  BY <1>1, HTypes DEF LineFails, KillGroup
<1>5. conns' = [conns EXCEPT ![c] = w]
  BY <1>1, HTypes DEF LineFails
<1> QED BY <1>1, <1>2, <1>3, <1>4, <1>5, HRuns

LEMMA HStopsPolling ==
  ASSUME HelperInv, NEW c \in Conn, Escalate(c) \/ ShutdownKill(c)
  PROVE  HelperInv'
<1>1. PICK t, good, w : /\ t = conns[c] /\ good = (t.good /\ "leader" \notin group[c])
                        /\ w = [t EXCEPT !.killed = TRUE, !.good = good]
  OBVIOUS
<1>2. PICK g : g = group'[c]
  OBVIOUS
<1>3. /\ UNCHANGED <<helper, count, slot, token, left, named>>
      /\ group' = [group EXCEPT ![c] = {}] \/ group' = group
  BY DEF Escalate, ShutdownKill, KillGroup
<1>4. t \in Thread /\ good \in BOOLEAN /\ g \subseteq group[c] /\ g \in SUBSET Process
      /\ group' = [group EXCEPT ![c] = g]
  BY <1>1, <1>2, <1>3, HThread, HTypes
<1>5. w = [t EXCEPT !.killed = TRUE, !.good = good]
  BY <1>1
<1>6. /\ w \in Thread /\ w.at = t.at /\ w.op = t.op /\ w.res = t.res /\ w.freed = t.freed /\ w.todo = t.todo
      /\ w.target = t.target /\ w.termed = t.termed /\ w.cut = t.cut
  BY <1>4, <1>5 DEF Thread
<1>7. conns' = [conns EXCEPT ![c] = w]
  BY <1>1, HTypes DEF Escalate, ShutdownKill
<1> QED BY <1>1, <1>3, <1>4, <1>6, <1>7, HRuns

LEMMA HCommandEnds ==
  ASSUME HelperInv, NEW c \in Conn, CommandEnds(c)
  PROVE  HelperInv'
<1>1. PICK r : r = Outcome(c)
  OBVIOUS
<1>2. r \in {"ok", "failed", "cancelled"}
  BY <1>1 DEF Outcome
<1>3. /\ Live /\ conns[c].at = "run" /\ group' = [group EXCEPT ![c] = {}] /\ Proceed(c, r)
      /\ UNCHANGED <<helper, count, slot, token, left, named>>
  BY <1>1 DEF CommandEnds, Is
<1>4. conns[c].termed => r # "ok" /\ (r = "failed" => conns[c].cut)
  <2>1. conns[c].termed => c \in token
    BY HThread DEF ThreadGood
  <2> QED BY <1>1, <2>1 DEF Outcome
<1> QED BY <1>2, <1>3, <1>4, HProceeds

LEMMA HExits ==
  ASSUME HelperInv, Exit
  PROVE  HelperInv'
<1>1. /\ helper' = "down" /\ ~Live' /\ left' = {} /\ UNCHANGED <<count, slot, token, group, named>>
      /\ conns' = [c \in Conn |-> IF conns[c].at \in {"new", "closed"} THEN conns[c] ELSE [Blank EXCEPT !.at = "dead"]]
  BY DEF Exit, Live
<1>2. ASSUME NEW c \in Conn PROVE conns'[c] \in Thread /\ ThreadGood(c)'
  <2>1. ThreadGood(c) /\ conns[c] \in Thread /\ group'[c] = group[c]
    BY <1>1, HThread
  <2>2. CASE conns[c].at \in {"new", "closed"}
    <3>1. conns'[c] = conns[c]
      BY <1>1, <2>2
    <3> QED BY <1>1, <2>1, <2>2, <3>1 DEF ThreadGood, HEarly
  <2>3. CASE conns[c].at \notin {"new", "closed"}
    <3>1. conns'[c] = [Blank EXCEPT !.at = "dead"]
      BY <1>1, <2>3
    <3>2. /\ conns'[c] \in Thread /\ conns'[c].at = "dead" /\ conns'[c].termed = FALSE /\ conns'[c].res = "none"
          /\ conns'[c].freed = FALSE
      BY <3>1, HBlank
    <3> QED BY <1>1, <2>1, <3>2 DEF ThreadGood, HEarly
  <2> QED BY <2>2, <2>3
<1>3. conns' \in [Conn -> Thread]
  <2>1. conns' = [c \in Conn |-> conns'[c]]
    BY <1>1
  <2> QED BY <1>2, <2>1
<1>4. HelperShapes'
  BY <1>1, <1>3, HTypes DEF HelperShapes
<1> QED BY <1>1, <1>2, <1>4, HTypes DEF HelperInv

LEMMA HRestarts ==
  ASSUME HelperInv, Restart
  PROVE  HelperInv'
<1>1. /\ ~Live /\ Live' /\ helper' = "up" /\ count' = 0 /\ slot' = Nobody
      /\ UNCHANGED <<conns, token, group, left, named>>
  BY DEF Restart, Live
<1>2. ASSUME NEW c \in Conn PROVE conns[c].at \in {"new", "closed", "dead"} /\ ThreadGood(c)'
  BY <1>1, HThread DEF ThreadGood, HWriting, HEarly
<1>3. HOpen' = {}
  BY <1>1, <1>2 DEF HOpen, HActive
<1>4. Cardinality(HOpen)' = 0
  BY <1>3, FS_EmptySet
<1>5. HelperShapes'
  BY <1>1, HTypes DEF HelperShapes
<1> QED BY <1>1, <1>2, <1>4, <1>5, HTypes DEF HelperInv

LEMMA HelperInductive == HelperInv /\ [HelperNext]_helperVars => HelperInv'
<1> SUFFICES ASSUME HelperInv, [HelperNext]_helperVars PROVE HelperInv'
  OBVIOUS
<1>1. CASE Sigterm \/ (\E p \in Process : StrayEnds(p)) \/ UNCHANGED helperVars
  <2>1. /\ UNCHANGED conns /\ UNCHANGED count /\ UNCHANGED slot /\ UNCHANGED token /\ UNCHANGED group
        /\ UNCHANGED left /\ UNCHANGED named
    BY <1>1 DEF Sigterm, StrayEnds, helperVars
  <2>2. helper' \in {"up", "stopping", "down"} /\ (Live' <=> Live)
    BY <1>1, HTypes DEF Sigterm, StrayEnds, helperVars, Live
  <2> QED BY <2>1, <2>2 DEF HelperInv, HelperShapes, HOpen, ThreadGood
<1>2. ASSUME NEW c \in Conn, NEW op \in WriteOp \cup {"cancel", "none"}, Ask(c, op) PROVE HelperInv'
  BY <1>2, HAsks
<1>3. ASSUME NEW c \in Conn, NEW ps \in {{}} \cup GroupOf(conns[c].op), Spawn(c, ps) PROVE HelperInv'
  <2>1. ps \in SUBSET Process
    BY DEF GroupOf, Process
  <2> QED BY <1>3, <2>1, HSpawns
<1>4. ASSUME NEW c \in Conn, NEW p \in Process, NEW good \in BOOLEAN, ProcessEnds(c, p, good) PROVE HelperInv'
  BY <1>4, HProcessEnds
<1> QED BY <1>1, <1>2, <1>3, <1>4, HAccepts, HCloses, HLeaves, HFinds, HStores, HClaims, HReleases, HStepFails,
           HLineFails, HReadFails, HSendsTerm, HStopsPolling, HCommandEnds, HExits, HRestarts DEF HelperNext

\* A thread is deaf once a reader gave up, until the command ends.
LEMMA HDeaf ==
  ASSUME HelperInv, StraysGood, NEW c \in Conn, NEW w, conns' = [conns EXCEPT ![c] = w],
         w.deaf => conns[c].deaf \/ unread', unread => unread'
  PROVE  \A d \in Conn : conns'[d].deaf => unread'
  BY HTypes DEF StraysGood

LEMMA HStraysInductive == HelperInv /\ StraysGood /\ [HelperNext]_helperVars => StraysGood'
<1> SUFFICES ASSUME HelperInv, StraysGood, [HelperNext]_helperVars PROVE StraysGood'
  OBVIOUS
<1>1. CASE Sigterm \/ Restart \/ (\E c \in Conn : Leave(c)) \/ UNCHANGED helperVars
  BY <1>1 DEF Sigterm, Restart, Leave, helperVars, StraysGood
<1>2. CASE \E p \in Process : StrayEnds(p)
  BY <1>2 DEF StrayEnds, StraysGood
<1>3. CASE Exit
  <2>1. /\ UNCHANGED <<strays, unread>>
        /\ conns' = [c \in Conn |-> IF conns[c].at \in {"new", "closed"} THEN conns[c]
                                    ELSE [Blank EXCEPT !.at = "dead"]]
    BY <1>3 DEF Exit
  <2>2. [Blank EXCEPT !.at = "dead"].deaf = FALSE
    BY DEF Blank
  <2> QED BY <2>1, <2>2 DEF StraysGood
<1>4. ASSUME NEW c \in Conn,
             \/ Accept(c) \/ Close(c) \/ CancelFind(c) \/ CancelStore(c) \/ Claim(c) \/ Release(c)
             \/ StepFails(c) \/ LineFails(c) \/ ReadFails(c) \/ SendTerm(c) \/ Escalate(c) \/ ShutdownKill(c)
             \/ \E op \in WriteOp \cup {"cancel", "none"} : Ask(c, op)
             \/ \E p \in Process, good \in BOOLEAN : ProcessEnds(c, p, good)
      PROVE  StraysGood'
  <2>1. conns[c] \in Thread /\ conns \in [Conn -> Thread]
    BY HTypes
  <2>2. strays' = strays /\ (unread' = unread \/ unread' = TRUE)
    BY <1>4 DEF Accept, Close, CancelFind, CancelStore, Claim, Release, StepFails, LineFails, ReadFails,
                SendTerm, Escalate, ShutdownKill, Ask, ProcessEnds
  <2>3. \E w : conns' = [conns EXCEPT ![c] = w] /\ (w.deaf => conns[c].deaf \/ unread')
    <3>1. CASE Close(c)
      <4>1. [Blank EXCEPT !.at = "closed"].deaf = FALSE
        BY DEF Blank
      <4> QED BY <3>1, <4>1 DEF Close
    <3>2. CASE ReadFails(c)
      BY <2>1, <3>2 DEF ReadFails
    <3>3. CASE Accept(c)
      <4>1. PICK t, a, w : t = conns[c] /\ a = (IF count >= MaxConns THEN "closed" ELSE "open")
                          /\ w = [t EXCEPT !.at = a]
        OBVIOUS
      <4>2. w.deaf = t.deaf
        BY <2>1, <4>1 DEF Thread
      <4>3. conns' = [conns EXCEPT ![c] = w]
        BY <2>1, <3>3, <4>1 DEF Accept, Has
      <4> QED BY <4>1, <4>2, <4>3
    <3>4. CASE CancelStore(c) \/ Release(c)
      <4>1. PICK t, w : t = conns[c]
                          /\ w = [t EXCEPT !.at = "done"]
        OBVIOUS
      <4>2. w.deaf = t.deaf
        BY <2>1, <4>1 DEF Thread
      <4>3. conns' = [conns EXCEPT ![c] = w]
        BY <2>1, <3>4, <4>1 DEF CancelStore, Release, Has
      <4> QED BY <4>1, <4>2, <4>3
    <3>5. CASE CancelFind(c)
      <4>1. PICK t, a, w : t = conns[c] /\ a = (IF slot = Nobody THEN "done" ELSE "store")
                          /\ w = [t EXCEPT !.at = a, !.target = slot]
        OBVIOUS
      <4>2. w.deaf = t.deaf
        BY <2>1, <4>1 DEF Thread
      <4>3. conns' = [conns EXCEPT ![c] = w]
        BY <2>1, <3>5, <4>1 DEF CancelFind
      <4> QED BY <4>1, <4>2, <4>3
    <3>6. CASE Claim(c) /\ slot # Nobody
      <4>1. PICK t, w : t = conns[c]
                          /\ w = [t EXCEPT !.at = "done", !.res = "busy"]
        OBVIOUS
      <4>2. w.deaf = t.deaf
        BY <2>1, <4>1 DEF Thread
      <4>3. conns' = [conns EXCEPT ![c] = w]
        BY <2>1, <3>6, <4>1 DEF Claim, EndsWith
      <4> QED BY <4>1, <4>2, <4>3
    <3>7. CASE Claim(c) /\ slot = Nobody
      <4>0. PICK n \in CommandsOf(conns[c].op) : conns' = [conns EXCEPT ![c].at = "ready", ![c].todo = n]
        BY <3>7 DEF Claim
      <4>1. PICK t, w : t = conns[c] /\ w = [t EXCEPT !.at = "ready", !.todo = n]
        OBVIOUS
      <4>2. w.deaf = t.deaf
        BY <2>1, <4>1 DEF Thread
      <4>3. conns' = [conns EXCEPT ![c] = w]
        BY <2>1, <4>0, <4>1
      <4> QED BY <4>1, <4>2, <4>3
    <3>8. CASE StepFails(c)
      <4>1. PICK t, r, w : t = conns[c] /\ r = Mapped(c, "failed")
                          /\ w = [t EXCEPT !.at = "ending", !.res = r]
        OBVIOUS
      <4>2. w.deaf = t.deaf
        BY <2>1, <4>1 DEF Thread
      <4>3. conns' = [conns EXCEPT ![c] = w]
        BY <2>1, <3>8, <4>1 DEF StepFails, EndsWith
      <4> QED BY <4>1, <4>2, <4>3
    <3>9. CASE LineFails(c) /\ conns[c].killed
      <4>1. PICK t, w : t = conns[c]
                          /\ w = [t EXCEPT !.cut = TRUE]
        OBVIOUS
      <4>2. w.deaf = t.deaf
        BY <2>1, <4>1 DEF Thread
      <4>3. conns' = [conns EXCEPT ![c] = w]
        BY <2>1, <3>9, <4>1 DEF LineFails
      <4> QED BY <4>1, <4>2, <4>3
    <3>10. CASE LineFails(c) /\ ~conns[c].killed
      <4>1. PICK t, g, w : t = conns[c] /\ g = (t.good /\ "leader" \notin group[c])
                          /\ w = [t EXCEPT !.cut = TRUE, !.killed = TRUE, !.good = g]
        OBVIOUS
      <4>2. w.deaf = t.deaf
        BY <2>1, <4>1 DEF Thread
      <4>3. conns' = [conns EXCEPT ![c] = w]
        BY <2>1, <3>10, <4>1 DEF LineFails
      <4> QED BY <4>1, <4>2, <4>3
    <3>11. CASE SendTerm(c)
      <4>1. PICK t, w : t = conns[c]
                          /\ w = [t EXCEPT !.termed = TRUE]
        OBVIOUS
      <4>2. w.deaf = t.deaf
        BY <2>1, <4>1 DEF Thread
      <4>3. conns' = [conns EXCEPT ![c] = w]
        BY <2>1, <3>11, <4>1 DEF SendTerm
      <4> QED BY <4>1, <4>2, <4>3
    <3>12. CASE Escalate(c) \/ ShutdownKill(c)
      <4>1. PICK t, g, w : t = conns[c] /\ g = (t.good /\ "leader" \notin group[c])
                          /\ w = [t EXCEPT !.killed = TRUE, !.good = g]
        OBVIOUS
      <4>2. w.deaf = t.deaf
        BY <2>1, <4>1 DEF Thread
      <4>3. conns' = [conns EXCEPT ![c] = w]
        BY <2>1, <3>12, <4>1 DEF Escalate, ShutdownKill
      <4> QED BY <4>1, <4>2, <4>3
    <3>13. CASE \E op \in WriteOp \cup {"cancel", "none"} : Ask(c, op)
      <4>0. PICK op \in WriteOp \cup {"cancel", "none"} : Ask(c, op)
        BY <3>13
      <4>1. PICK t, a, w : t = conns[c] /\ a = (IF op = "none" THEN "done" ELSE "asked")
                          /\ w = [t EXCEPT !.at = a, !.op = op]
        OBVIOUS
      <4>2. w.deaf = t.deaf
        BY <2>1, <4>1 DEF Thread
      <4>3. conns' = [conns EXCEPT ![c] = w]
        BY <2>1, <3>13, <4>0, <4>1 DEF Ask
      <4> QED BY <4>1, <4>2, <4>3
    <3>14. CASE \E p \in Process, good \in BOOLEAN : ProcessEnds(c, p, good)
      <4>0. PICK p \in Process, good \in BOOLEAN : ProcessEnds(c, p, good)
        BY <3>14
      <4>1. PICK t, w : t = conns[c] /\ w = [t EXCEPT !.good = good]
        OBVIOUS
      <4>2. w.deaf = t.deaf
        BY <2>1, <4>1 DEF Thread
      <4>3. CASE p = "leader"
        <5>1. conns' = [conns EXCEPT ![c] = w]
          BY <2>1, <4>0, <4>1, <4>3 DEF ProcessEnds
        <5> QED BY <4>1, <4>2, <5>1
      <4>4. CASE p # "leader"
        <5>1. conns' = [conns EXCEPT ![c] = conns[c]]
          BY <2>1, <4>0, <4>4 DEF ProcessEnds
        <5> QED BY <5>1
      <4> QED BY <4>3, <4>4
    <3> QED BY <1>4, <3>1, <3>2, <3>3, <3>4, <3>5, <3>6, <3>7, <3>8, <3>9, <3>10, <3>11, <3>12, <3>13, <3>14
  <2>4. unread => unread'
    BY <2>2 DEF StraysGood
  <2>5. \A d \in Conn : conns'[d].deaf => unread'
    BY <2>3, <2>4, HDeaf
  <2> QED BY <2>2, <2>5 DEF StraysGood
\* A write that proceeds has readers again when it goes on.
<1>5. ASSUME NEW c \in Conn, NEW r, Proceed(c, r), unread' = unread
      PROVE  \A d \in Conn : conns'[d].deaf => unread'
  <2>1. PICK v : v = [conns[c] EXCEPT !.good = TRUE, !.killed = FALSE, !.deaf = FALSE]
    OBVIOUS
  <2>2. conns[c] \in Thread
    BY HThread
  <2>3. v \in Thread /\ v.deaf = FALSE
    BY <2>1, <2>2 DEF Thread
  <2>4. \E w : conns' = [conns EXCEPT ![c] = w] /\ w.deaf = FALSE
    <3>1. PICK m, x, y, z : /\ m = Mapped(c, r) /\ x = [v EXCEPT !.at = "ending", !.res = "ok", !.freed = TRUE]
                            /\ y = [v EXCEPT !.at = "ready"] /\ z = [v EXCEPT !.at = "ending", !.res = m]
      OBVIOUS
    <3>2. x.deaf = FALSE /\ y.deaf = FALSE /\ z.deaf = FALSE
      BY <2>3, <3>1 DEF Thread
    <3>3. \/ conns' = [conns EXCEPT ![c] = x] \/ conns' = [conns EXCEPT ![c] = y]
          \/ conns' = [conns EXCEPT ![c] = z]
      BY <1>5, <2>1, <3>1 DEF Proceed
    <3> QED BY <3>2, <3>3
  <2> QED BY <1>5, <2>4, HDeaf
<1>6. ASSUME NEW c \in Conn, NEW ps, Spawn(c, ps) PROVE StraysGood'
  <2>1. UNCHANGED <<strays, unread>>
    BY <1>6 DEF Spawn
  <2>2. CASE ps = {}
    BY <1>5, <1>6, <2>1, <2>2 DEF Spawn, StraysGood
  <2>3. CASE ps # {}
    <3>1. PICK t, n, w : t = conns[c] /\ n = t.todo - 1 /\ w = [t EXCEPT !.at = "run", !.todo = n]
      OBVIOUS
    <3>2. w.deaf = t.deaf
      BY <3>1, HThread DEF Thread
    <3>3. conns' = [conns EXCEPT ![c] = w]
      BY <1>6, <2>3, <3>1, HTypes DEF Spawn
    <3>4. \A d \in Conn : conns'[d].deaf => unread'
      BY <2>1, <3>1, <3>2, <3>3, HDeaf
    <3> QED BY <2>1, <3>4 DEF StraysGood
  <2> QED BY <2>2, <2>3
<1>7. ASSUME NEW c \in Conn, CommandEnds(c) PROVE StraysGood'
  <2>1. /\ strays' = strays \cup group[c] /\ unread' = unread /\ "leader" \notin group[c]
        /\ conns[c].deaf \/ PipesClosed(c)
    BY <1>7 DEF CommandEnds
  <2>2. "descendant" \in group[c] => unread
    BY <2>1 DEF PipesClosed, StraysGood
  <2>3. \A d \in Conn : conns'[d].deaf => unread'
    BY <1>5, <1>7, <2>1 DEF CommandEnds
  <2>4. group[c] \subseteq Process
    BY HThread
  <2> QED BY <2>1, <2>2, <2>3, <2>4 DEF StraysGood
<1> QED BY <1>1, <1>2, <1>3, <1>4, <1>6, <1>7 DEF HelperNext

LEMMA HelperInvCorrect == HelperInv /\ StraysGood => HelperCorrect
<1> SUFFICES ASSUME HelperInv, StraysGood PROVE HelperCorrect
  OBVIOUS
<1>1. HelperTypeOK /\ CancelNamed
  BY DEF HelperInv, HelperShapes, StraysGood, HelperTypeOK, CancelNamed
<1>2. WritesApart
  <2> SUFFICES ASSUME NEW c \in Conn, NEW d \in Conn, c # d, group[c] # {}, group[d] # {},
                      conns[c].at # "dead", conns[d].at # "dead"
               PROVE  FALSE
    BY DEF WritesApart, StraysGood
  <2>1. ThreadGood(c) /\ ThreadGood(d)
    BY HThread
  <2> QED BY <2>1 DEF ThreadGood, HWriting
<1>3. SlotHasWriter
  BY HTypes, HThread DEF SlotHasWriter, ThreadGood, HWriting
<1>4. StoppedIsCancelled
  BY HThread DEF StoppedIsCancelled, ThreadGood
<1> QED BY <1>1, <1>2, <1>3, <1>4 DEF HelperCorrect

(* However requests, cancels, clients that leave, signals and restarts meet: *)
(* the commands of two writes of a live helper never overlap, what outlives  *)
(* a command is a port-forward or went unread, a cancel stops the write it   *)
(* found, the slot has a writer, and a write told to stop is not reported as *)
(* done.                                                                     *)
THEOREM HelperCorrectProved == HelperSpec => []HelperCorrect
<1>1. HelperInit => HelperInv /\ StraysGood
  <2>1. HelperInit => StraysGood
    <3>1. Blank.deaf = FALSE
      BY DEF Blank
    <3> QED BY <3>1 DEF HelperInit, StraysGood
  <2> QED BY <2>1, HelperInitInv
<1>2. HelperInv /\ StraysGood /\ [HelperNext]_helperVars => (HelperInv /\ StraysGood)'
  BY HelperInductive, HStraysInductive
<1> QED BY <1>1, <1>2, HelperInvCorrect, PTL DEF HelperSpec

HIDE HelperAssumption DEF procVars

-----------------------------------------------------------------------------
(* The port registry of the developers' helpers. *)

PSetup == {"allocated", "mapped", "created"}
PWrite == [at: {"idle", "allocated", "mapped", "created", "deleted"}, slots: OneSlot]

PortsShapes ==
    /\ registry \subseteq Entry
    /\ pids \in 0..MaxPid /\ alive \subseteq 1..pids
    /\ pidOf \in [Slug -> 0..pids] /\ maker \in [Slug -> 0..pids]
    /\ write \in [Slug -> PWrite]
    /\ portMap \in [Slug -> OneSlot] /\ cluster \in [Slug -> OneSlot]
    /\ undead \subseteq Slug /\ unheld \subseteq Slug

\* The helpers that live are processes of their own.
PidsApart == \A s, t \in Slug : s # t /\ pidOf[s] # 0 => pidOf[s] # pidOf[t]

\* The cluster was made by the helper that runs, on an entry of its own.
OwnCluster(s) == cluster[s] # {} /\ pidOf[s] # 0 /\ maker[s] = pidOf[s] /\ s \notin undead

\* What holds of one slug: the entry of its helper lasts as long as its setup and its cluster.
SlugGood(s) ==
    /\ pidOf[s] # 0 => pidOf[s] \in alive
    /\ pidOf[s] = 0 => write[s].at = "idle"
    /\ write[s].at \in PSetup => s \in unheld \/
        \E e \in registry : e.slug = s /\ e.pid = pidOf[s] /\ write[s].slots = {e.slot}
    /\ write[s].at \in {"mapped", "created"} => portMap[s] = write[s].slots
    /\ write[s].at = "deleted" => cluster[s] = {} \/ s \in undead
    /\ OwnCluster(s) => \E e \in registry :
        /\ e.slug = s /\ e.pid = pidOf[s] /\ cluster[s] = {e.slot}
        /\ write[s].at \in PSetup => write[s].slots = {e.slot}
    /\ write[s].at = "created" => portMap[s] = cluster[s] \/ maker[s] # pidOf[s] \/ s \in undead

PortsInv == PortsShapes /\ OneSlotEach /\ PidsApart /\ \A s \in Slug : SlugGood(s)

USE PortsAssumption

LEMMA PRest == AtRest \in PWrite /\ AtRest.at = "idle"
  BY DEF AtRest, PWrite, OneSlot

LEMMA PWriteAt ==
  ASSUME NEW w \in PWrite, NEW at \in {"idle", "allocated", "mapped", "created", "deleted"}
  PROVE  LET v == [w EXCEPT !.at = at] IN v \in PWrite /\ v.at = at /\ v.slots = w.slots
  BY DEF PWrite

LEMMA PTypes ==
  ASSUME PortsInv
  PROVE  /\ registry \subseteq Entry /\ pids \in 0..MaxPid /\ pids \in Nat /\ alive \subseteq 1..pids
         /\ pidOf \in [Slug -> 0..pids] /\ maker \in [Slug -> 0..pids] /\ write \in [Slug -> PWrite]
         /\ portMap \in [Slug -> OneSlot] /\ cluster \in [Slug -> OneSlot]
         /\ undead \subseteq Slug /\ unheld \subseteq Slug
  BY DEF PortsInv, PortsShapes

\* The other slugs keep what they have while their processes' entries stay.
LEMMA POthers ==
  ASSUME PortsInv, NEW t \in Slug,
         pidOf'[t] = pidOf[t], maker'[t] = maker[t], write'[t] = write[t], portMap'[t] = portMap[t],
         cluster'[t] = cluster[t], t \in undead' <=> t \in undead, t \in unheld' <=> t \in unheld,
         pidOf[t] # 0 => pidOf[t] \in alive',
         \A e \in registry : e.slug = t /\ e.pid = pidOf[t] /\ pidOf[t] # 0 => e \in registry'
  PROVE  SlugGood(t)'
<1>1. SlugGood(t)
  BY DEF PortsInv
<1>2. pidOf[t] = 0 => write[t].at = "idle"
  BY <1>1 DEF SlugGood
<1>3. write[t].at \in PSetup => t \in unheld' \/
        \E e \in registry' : e.slug = t /\ e.pid = pidOf[t] /\ write[t].slots = {e.slot}
  BY <1>1, <1>2 DEF SlugGood, PSetup
<1>4. OwnCluster(t) => \E e \in registry' :
        /\ e.slug = t /\ e.pid = pidOf[t] /\ cluster[t] = {e.slot}
        /\ write[t].at \in PSetup => write[t].slots = {e.slot}
  BY <1>1 DEF SlugGood, OwnCluster
<1>5. OwnCluster(t)' <=> OwnCluster(t)
  BY DEF OwnCluster
<1> QED BY <1>1, <1>3, <1>4, <1>5 DEF SlugGood

LEMMA PortsInitInv == PortsInit => PortsInv
<1> SUFFICES ASSUME PortsInit PROVE PortsInv
  OBVIOUS
<1>1. PortsShapes
  <2>1. write \in [Slug -> PWrite]
    BY PRest DEF PortsInit
  <2>2. {} \in OneSlot
    BY DEF OneSlot
  <2> QED BY <2>1, <2>2 DEF PortsInit, PortsShapes
<1>2. OneSlotEach /\ PidsApart
  BY DEF PortsInit, OneSlotEach, PidsApart
<1>3. ASSUME NEW s \in Slug PROVE SlugGood(s)
  BY PRest DEF PortsInit, SlugGood, PSetup, OwnCluster
<1> QED BY <1>1, <1>2, <1>3 DEF PortsInv

\* The scan for a free slot ends at one that is free.
LEMMA ChosenFree ==
  ASSUME PortsInv, NEW s \in Slug, FreeSlots(s) # {}
  PROVE  Chosen(s) \in FreeSlots(s)
<1> DEFINE key(i) == (i + NumSlots - PreferredIndex[s]) % NumSlots
           T == {key(i) : i \in FreeSlots(s)}
<1>1. FreeSlots(s) \subseteq Slot
  BY DEF FreeSlots
<1>2. PreferredIndex[s] \in Slot
  OBVIOUS
<1>3. \A i \in FreeSlots(s) : key(i) \in Nat
  BY <1>1, <1>2 DEF Slot
<1>4. T \subseteq Nat /\ T # {}
  BY <1>3
<1>5. PICK x \in T : \A y \in T : ~ (<<y, x>> \in OpToRel(<, Nat))
  <2> HIDE DEF T
  <2> QED BY <1>4, NatLessThanWellFounded, WFMin
<1>6. \A y \in T : ~(y < x)
  BY <1>4, <1>5 DEF OpToRel
<1>7. PICK i \in FreeSlots(s) : x = key(i)
  OBVIOUS
<1>8. \A j \in FreeSlots(s) : key(j) \in T
  OBVIOUS
<1>9. \A j \in FreeSlots(s) : key(i) <= key(j)
  <2> HIDE DEF key
  <2> QED BY <1>3, <1>6, <1>7, <1>8
<1> QED BY <1>9 DEF Chosen

\* A step of one slug that changes neither the processes nor the registry.
LEMMA PSlugMoves ==
  ASSUME PortsInv, NEW s \in Slug, NEW w \in PWrite, NEW m \in OneSlot, NEW k \in OneSlot, NEW b \in 0..pids,
         UNCHANGED <<registry, pidOf, alive, pids>>,
         write' = [write EXCEPT ![s] = w], portMap' = [portMap EXCEPT ![s] = m],
         cluster' = [cluster EXCEPT ![s] = k], maker' = [maker EXCEPT ![s] = b],
         undead' \subseteq Slug, unheld' \subseteq Slug,
         \A t \in Slug \ {s} : (t \in undead' <=> t \in undead) /\ (t \in unheld' <=> t \in unheld),
         SlugGood(s)'
  PROVE  PortsInv'
<1>1. PortsShapes'
  BY PTypes DEF PortsShapes
<1>2. OneSlotEach' /\ PidsApart'
  BY DEF PortsInv, OneSlotEach, PidsApart
<1>3. ASSUME NEW t \in Slug \ {s} PROVE SlugGood(t)'
  <2>1. /\ pidOf'[t] = pidOf[t] /\ maker'[t] = maker[t] /\ write'[t] = write[t] /\ portMap'[t] = portMap[t]
        /\ cluster'[t] = cluster[t]
    BY PTypes
  <2>2. pidOf[t] # 0 => pidOf[t] \in alive'
    BY DEF PortsInv, SlugGood
  <2> QED BY <2>1, <2>2, POthers
<1> QED BY <1>1, <1>2, <1>3 DEF PortsInv

LEMMA PValues ==
  ASSUME PortsInv, NEW s \in Slug
  PROVE  /\ write[s] \in PWrite /\ portMap[s] \in OneSlot /\ cluster[s] \in OneSlot /\ maker[s] \in 0..pids
         /\ write[s].slots \in OneSlot /\ pidOf[s] \in 0..pids
         /\ write = [write EXCEPT ![s] = write[s]] /\ portMap = [portMap EXCEPT ![s] = portMap[s]]
         /\ cluster = [cluster EXCEPT ![s] = cluster[s]] /\ maker = [maker EXCEPT ![s] = maker[s]]
         /\ SlugGood(s)
<1>1. \A w \in PWrite : w.slots \in OneSlot
  BY DEF PWrite
<1>2. SlugGood(s)
  BY DEF PortsInv
<1> QED BY <1>1, <1>2, PTypes

LEMMA PWritesMap ==
  ASSUME PortsInv, NEW s \in Slug, WriteMap(s)
  PROVE  PortsInv'
<1>1. PICK w, k, b : w = [write[s] EXCEPT !.at = "mapped"] /\ k = cluster[s] /\ b = maker[s]
  OBVIOUS
<1>2. PICK m : m = write[s].slots
  OBVIOUS
<1>3. w \in PWrite /\ w.at = "mapped" /\ w.slots = m /\ m \in OneSlot /\ k \in OneSlot /\ b \in 0..pids
  BY <1>1, <1>2, PValues, PWriteAt
<1>4. /\ UNCHANGED <<registry, pidOf, alive, pids>> /\ undead' = undead /\ unheld' = unheld
      /\ write' = [write EXCEPT ![s] = w] /\ portMap' = [portMap EXCEPT ![s] = m]
      /\ cluster' = [cluster EXCEPT ![s] = k] /\ maker' = [maker EXCEPT ![s] = b]
      /\ cluster' = cluster /\ maker' = maker /\ write[s].at = "allocated" /\ pidOf[s] # 0
  BY <1>1, <1>2, PValues, PTypes DEF WriteMap, WriteAt, Runs
<1>5. write'[s] = w /\ portMap'[s] = m
  BY <1>4, PTypes
<1>6. SlugGood(s)'
  <2>1. SlugGood(s)
    BY PValues
  <2> QED BY <1>2, <1>3, <1>4, <1>5, <2>1 DEF SlugGood, PSetup, OwnCluster
<1>7. undead' \subseteq Slug /\ unheld' \subseteq Slug
  BY <1>4, PTypes
<1> QED BY <1>3, <1>4, <1>6, <1>7, PSlugMoves

LEMMA PSetupEndsOrFails ==
  ASSUME PortsInv, NEW s \in Slug, SetupEnds(s) \/ SetupFails(s)
  PROVE  PortsInv'
<1>1. PICK m, k, b : m = portMap[s] /\ k = cluster[s] /\ b = maker[s]
  OBVIOUS
<1>2. m \in OneSlot /\ k \in OneSlot /\ b \in 0..pids
  BY <1>1, PValues
<1>3. /\ UNCHANGED <<registry, pidOf, alive, pids>> /\ undead' = undead /\ unheld' = unheld
      /\ write' = [write EXCEPT ![s] = AtRest]
      /\ cluster' = cluster /\ maker' = maker /\ portMap' = portMap /\ pidOf[s] # 0
  BY DEF SetupEnds, SetupFails, WriteEnds, Runs
<1>4. /\ portMap' = [portMap EXCEPT ![s] = m] /\ cluster' = [cluster EXCEPT ![s] = k] /\ maker' = [maker EXCEPT ![s] = b]
  BY <1>1, <1>3, PValues
<1>5. write'[s] = AtRest
  BY <1>3, PTypes
<1>6. SlugGood(s)'
  <2>1. SlugGood(s)
    BY PValues
  <2> QED BY <1>3, <1>5, <2>1, PRest DEF SlugGood, PSetup, OwnCluster
<1>7. undead' \subseteq Slug /\ unheld' \subseteq Slug
  BY <1>3, PTypes
<1> QED BY <1>2, <1>3, <1>4, <1>6, <1>7, PRest, PSlugMoves

LEMMA PMakes ==
  ASSUME PortsInv, NEW s \in Slug, MakeCluster(s)
  PROVE  PortsInv'
<1>1. PICK w, m : w = [write[s] EXCEPT !.at = "created"] /\ m = portMap[s]
  OBVIOUS
<1>2. w \in PWrite /\ w.at = "created" /\ w.slots = write[s].slots /\ m \in OneSlot /\ write[s].slots \in OneSlot
  BY <1>1, PValues, PWriteAt
<1>3. /\ UNCHANGED <<registry, pidOf, alive, pids>> /\ unheld' = unheld
      /\ write' = [write EXCEPT ![s] = w] /\ portMap' = portMap
      /\ write[s].at = "mapped" /\ pidOf[s] # 0
  BY <1>1, PValues, PTypes DEF MakeCluster, WriteAt, Runs
<1>4. portMap' = [portMap EXCEPT ![s] = m]
  BY <1>1, <1>3, PValues
<1>5. write'[s] = w
  BY <1>3, PTypes
<1>6. SlugGood(s) /\ portMap[s] = write[s].slots
  BY <1>3, PValues DEF SlugGood
<1>7. CASE cluster[s] # {} /\ UNCHANGED <<cluster, maker, undead>>
  <2>1. PICK k, b : k = cluster[s] /\ b = maker[s]
    OBVIOUS
  <2>2. /\ k \in OneSlot /\ b \in 0..pids /\ cluster' = [cluster EXCEPT ![s] = k] /\ maker' = [maker EXCEPT ![s] = b]
        /\ undead' = undead /\ undead' \subseteq Slug /\ unheld' \subseteq Slug
    BY <1>3, <1>7, <2>1, PValues, PTypes
  <2>3. SlugGood(s)'
    BY <1>2, <1>3, <1>5, <1>6, <1>7 DEF SlugGood, PSetup, OwnCluster
  <2> QED BY <1>2, <1>3, <1>4, <2>2, <2>3, PSlugMoves
<1>8. CASE KindCreate(s, IF s \in unheld THEN 0 ELSE pidOf[s])
  <2>1. PICK k, b : k = write[s].slots /\ b = (IF s \in unheld THEN 0 ELSE pidOf[s])
    OBVIOUS
  <2>2. k \in OneSlot /\ b \in 0..pids
    BY <1>2, <2>1, PValues, PTypes
  <2>3. /\ cluster' = [cluster EXCEPT ![s] = k] /\ maker' = [maker EXCEPT ![s] = b] /\ undead' = undead \ {s}
    BY <1>8, <2>1 DEF KindCreate
  <2>4. cluster'[s] = k /\ maker'[s] = b /\ undead' \subseteq Slug /\ unheld' \subseteq Slug
    BY <1>3, <2>3, PTypes
  <2>5. SlugGood(s)'
    BY <1>2, <1>3, <1>5, <1>6, <2>1, <2>4 DEF SlugGood, PSetup, OwnCluster
  <2>6. \A t \in Slug \ {s} : (t \in undead' <=> t \in undead) /\ (t \in unheld' <=> t \in unheld)
    BY <1>3, <2>3
  <2> QED BY <1>2, <1>3, <1>4, <2>2, <2>3, <2>4, <2>5, <2>6, PSlugMoves
<1> QED BY <1>7, <1>8 DEF MakeCluster

LEMMA PDeletes ==
  ASSUME PortsInv, NEW s \in Slug, NEW o \in {"ok", "failed", "cancelled"}, NEW gone, DeleteCluster(s, o, gone)
  PROVE  PortsInv'
<1>1. PICK m, b, w, k : /\ m = portMap[s] /\ b = maker[s]
                        /\ w = (IF GoesOn(o) THEN [write[s] EXCEPT !.at = "deleted"] ELSE write[s])
                        /\ k = (IF gone THEN {} ELSE cluster[s])
  OBVIOUS
<1>2. /\ w \in PWrite /\ m \in OneSlot /\ b \in 0..pids /\ k \in OneSlot
      /\ GoesOn(o) => w.at = "deleted"
      /\ ~GoesOn(o) => w = write[s]
  BY <1>1, PValues, PWriteAt DEF OneSlot
<1>3. /\ UNCHANGED <<registry, pidOf, alive, pids>> /\ unheld' = unheld /\ portMap' = portMap /\ maker' = maker
      /\ write[s].at = "idle" /\ pidOf[s] # 0 /\ (o = "ok" => gone)
  BY DEF DeleteCluster, Runs
<1>4. write' = [write EXCEPT ![s] = w]
  BY <1>1, PValues, PTypes DEF DeleteCluster, WriteAt
<1>5. cluster' = [cluster EXCEPT ![s] = k] /\ portMap' = [portMap EXCEPT ![s] = m] /\ maker' = [maker EXCEPT ![s] = b]
  BY <1>1, <1>3, PValues, PTypes DEF DeleteCluster
<1>6. write'[s] = w /\ cluster'[s] = k
  BY <1>4, <1>5, PTypes
<1>7. undead' = (IF o = "failed" /\ k # {} THEN undead \cup {s} ELSE undead)
  BY <1>6 DEF DeleteCluster
<1>8. SlugGood(s)'
  <2>1. SlugGood(s)
    BY PValues
  <2>2. CASE GoesOn(o)
    <3>1. k = {} \/ s \in undead'
      <4>1. CASE gone
        BY <1>1, <4>1
      <4>2. CASE ~gone /\ o = "failed"
        BY <1>7, <4>2
      <4>3. CASE ~gone /\ o # "failed"
        BY <1>3, <2>2, <4>3 DEF GoesOn, DeleteCluster
      <4> QED BY <4>1, <4>2, <4>3
    <3> QED BY <1>2, <1>3, <1>6, <2>1, <2>2, <3>1 DEF SlugGood, PSetup, OwnCluster
  <2>3. CASE ~GoesOn(o)
    <3>1. undead' = undead
      BY <1>7, <2>3 DEF GoesOn
    <3>2. k = {} \/ k = cluster[s]
      BY <1>1
    <3> QED BY <1>2, <1>3, <1>6, <2>1, <2>3, <3>1, <3>2 DEF SlugGood, PSetup, OwnCluster
  <2> QED BY <2>2, <2>3
<1>9. undead' \subseteq Slug /\ unheld' \subseteq Slug
  BY <1>3, <1>7, PTypes
<1>10. \A t \in Slug \ {s} : (t \in undead' <=> t \in undead) /\ (t \in unheld' <=> t \in unheld)
  BY <1>3, <1>7
<1> QED BY <1>2, <1>3, <1>4, <1>5, <1>8, <1>9, <1>10, PSlugMoves

\* allocate_ports writes the slot into the write of the helper.
LEMMA PReallocates ==
  ASSUME PortsInv, NEW s \in Slug, Reallocate(s)
  PROVE  PortsInv'
<1>1. PICK e \in Kept(s) : /\ e.slug = s
                           /\ write' = [write EXCEPT ![s] = [at |-> "allocated", slots |-> {e.slot}]]
                           /\ unheld' = IF e.pid = pidOf[s] THEN unheld \ {s} ELSE unheld \cup {s}
  BY DEF Reallocate
<1>2. e \in registry /\ e.pid \in alive /\ e.slot \in Slot
  BY PTypes DEF Kept, Entry
<1>3. PICK w, m, k, b : /\ w = [at |-> "allocated", slots |-> {e.slot}]
                        /\ m = portMap[s] /\ k = cluster[s] /\ b = maker[s]
  OBVIOUS
<1>4. w \in PWrite /\ w.at = "allocated" /\ w.slots = {e.slot} /\ m \in OneSlot /\ k \in OneSlot /\ b \in 0..pids
  BY <1>2, <1>3, PValues DEF PWrite, OneSlot
<1>5. /\ UNCHANGED <<registry, pidOf, alive, pids>> /\ undead' = undead /\ portMap' = portMap /\ maker' = maker
      /\ cluster' = cluster /\ write[s].at = "idle" /\ pidOf[s] # 0
  BY DEF Reallocate, Runs
<1>6. /\ write' = [write EXCEPT ![s] = w] /\ portMap' = [portMap EXCEPT ![s] = m]
      /\ cluster' = [cluster EXCEPT ![s] = k] /\ maker' = [maker EXCEPT ![s] = b] /\ write'[s] = w
  BY <1>1, <1>3, <1>5, PValues, PTypes
<1>7. SlugGood(s)'
  <2>1. SlugGood(s)
    BY PValues
  <2>2. s \in unheld' \/ e.pid = pidOf[s]
    BY <1>1
  <2>3. OwnCluster(s) => cluster[s] = {e.slot} /\ e.pid = pidOf[s]
    BY <1>1, <1>2, <2>1 DEF SlugGood, PortsInv, OneSlotEach
  <2>4. OwnCluster(s)' <=> OwnCluster(s)
    BY <1>5 DEF OwnCluster
  <2> QED BY <1>1, <1>2, <1>4, <1>5, <1>6, <2>1, <2>2, <2>3, <2>4 DEF SlugGood, PSetup
<1>8. undead' \subseteq Slug /\ unheld' \subseteq Slug
  BY <1>1, <1>5, PTypes
<1>9. \A t \in Slug \ {s} : (t \in undead' <=> t \in undead) /\ (t \in unheld' <=> t \in unheld)
  BY <1>1, <1>5
<1> QED BY <1>4, <1>5, <1>6, <1>7, <1>8, <1>9, PSlugMoves

LEMMA PAllocates ==
  ASSUME PortsInv, NEW s \in Slug, Allocate(s)
  PROVE  PortsInv'
<1>1. PICK c : c = Chosen(s)
  OBVIOUS
<1>2. c \in FreeSlots(s) /\ c \in Slot
  BY <1>1, ChosenFree DEF Allocate, FreeSlots
<1>3. PICK w, e : w = [at |-> "allocated", slots |-> {c}] /\ e = [slug |-> s, slot |-> c, pid |-> pidOf[s]]
  OBVIOUS
<1>4. /\ pidOf[s] # 0 /\ write[s].at = "idle" /\ \A f \in Kept(s) : f.slug # s
      /\ registry' = Kept(s) \cup {e} /\ write' = [write EXCEPT ![s] = w] /\ unheld' = unheld \ {s}
      /\ UNCHANGED <<pidOf, alive, pids, portMap, cluster, maker, undead>>
  BY <1>1, <1>3 DEF Allocate, Runs
<1>5. w \in PWrite /\ w.at = "allocated" /\ w.slots = {c} /\ e.slug = s /\ e.slot = c /\ e.pid = pidOf[s]
  BY <1>2, <1>3 DEF PWrite, OneSlot
<1>6. e \in Entry
  <2>1. pidOf[s] \in 1..MaxPid
    BY <1>4, PTypes
  <2> QED BY <1>2, <1>3, <2>1 DEF Entry
<1>7. Kept(s) \subseteq registry
  BY DEF Kept
<1>8. PortsShapes'
  BY <1>4, <1>5, <1>6, <1>7, PTypes DEF PortsShapes
<1>9. OneSlotEach'
  <2>1. \A f \in Kept(s) : f.slot # c /\ f.slug # s
    BY <1>2, <1>4 DEF FreeSlots
  <2>2. \A f, g \in registry : f.slug = g.slug \/ f.slot = g.slot => f = g
    BY DEF PortsInv, OneSlotEach
  <2> QED BY <1>4, <1>5, <1>7, <2>1, <2>2 DEF OneSlotEach
<1>10. PidsApart'
  BY <1>4 DEF PortsInv, PidsApart
<1>11. SlugGood(s)'
  <2>1. SlugGood(s) /\ pidOf[s] \in alive
    BY <1>4, PValues DEF SlugGood
  <2>2. ~OwnCluster(s)
    BY <1>4, <2>1 DEF SlugGood, Kept
  <2>3. OwnCluster(s)' <=> OwnCluster(s)
    BY <1>4 DEF OwnCluster
  <2>4. write'[s] = w
    BY <1>4, PTypes
  <2> QED BY <1>4, <1>5, <2>1, <2>2, <2>3, <2>4 DEF SlugGood, PSetup
<1>12. ASSUME NEW t \in Slug \ {s} PROVE SlugGood(t)'
  <2>1. pidOf[t] # 0 => pidOf[t] \in alive
    BY DEF PortsInv, SlugGood
  <2>2. \A f \in registry : f.slug = t /\ f.pid = pidOf[t] /\ pidOf[t] # 0 => f \in registry'
    BY <1>4, <2>1 DEF Kept
  <2>3. write'[t] = write[t] /\ (t \in unheld' <=> t \in unheld)
    BY <1>4, PTypes
  <2> QED BY <1>4, <2>1, <2>2, <2>3, POthers
<1> QED BY <1>8, <1>9, <1>10, <1>11, <1>12 DEF PortsInv

LEMMA PDeallocates ==
  ASSUME PortsInv, NEW s \in Slug, Deallocate(s)
  PROVE  PortsInv'
<1>1. /\ pidOf[s] # 0 /\ write[s].at = "deleted" /\ write' = [write EXCEPT ![s] = AtRest]
      /\ UNCHANGED <<pidOf, alive, pids, portMap, cluster, maker, undead>>
  BY DEF Deallocate, WriteEnds, Runs
<1>2. /\ registry' \subseteq registry /\ \A e \in registry : e.slug # s => e \in registry'
      /\ unheld' \subseteq unheld /\ \A t \in Slug \ {s} : t \in unheld' <=> t \in unheld
  BY DEF Deallocate
<1>3. PortsShapes'
  BY <1>1, <1>2, PRest, PTypes DEF PortsShapes
<1>4. OneSlotEach' /\ PidsApart'
  BY <1>1, <1>2 DEF PortsInv, OneSlotEach, PidsApart
<1>5. SlugGood(s)'
  <2>1. SlugGood(s)
    BY PValues
  <2>2. write'[s] = AtRest
    BY <1>1, PTypes
  <2> QED BY <1>1, <2>1, <2>2, PRest DEF SlugGood, PSetup, OwnCluster
<1>6. ASSUME NEW t \in Slug \ {s} PROVE SlugGood(t)'
  <2>1. pidOf[t] # 0 => pidOf[t] \in alive
    BY DEF PortsInv, SlugGood
  <2>2. write'[t] = write[t]
    BY <1>1, PTypes
  <2> QED BY <1>1, <1>2, <2>1, <2>2, POthers
<1> QED BY <1>3, <1>4, <1>5, <1>6 DEF PortsInv

LEMMA PStarts ==
  ASSUME PortsInv, NEW s \in Slug, StartHelper(s)
  PROVE  PortsInv'
<1>1. /\ pidOf[s] = 0 /\ pids < MaxPid /\ pids' = pids + 1 /\ alive' = alive \cup {pids + 1}
      /\ pidOf' = [pidOf EXCEPT ![s] = pids + 1]
      /\ UNCHANGED <<registry, write, portMap, cluster, maker, undead, unheld>>
  BY DEF StartHelper
<1>2. pidOf'[s] = pids + 1 /\ \A t \in Slug \ {s} : pidOf'[t] = pidOf[t]
  BY <1>1, PTypes
<1>3. PortsShapes'
  BY <1>1, PTypes DEF PortsShapes
<1>4. OneSlotEach'
  BY <1>1 DEF PortsInv, OneSlotEach
<1>5. PidsApart'
  <2>1. \A t \in Slug : pidOf[t] \in 0..pids /\ pids \in Nat
    BY PTypes
  <2> QED BY <1>2, <2>1 DEF PortsInv, PidsApart
<1>6. SlugGood(s)'
  <2>1. SlugGood(s)
    BY PValues
  <2>2. maker'[s] # pidOf'[s]
    BY <1>1, <1>2, PTypes
  <2> QED BY <1>1, <1>2, <2>1, <2>2, PTypes DEF SlugGood, PSetup, OwnCluster
<1>7. ASSUME NEW t \in Slug \ {s} PROVE SlugGood(t)'
  <2>1. pidOf[t] # 0 => pidOf[t] \in alive'
    BY <1>1 DEF PortsInv, SlugGood
  <2> QED BY <1>1, <1>2, <2>1, POthers
<1> QED BY <1>3, <1>4, <1>5, <1>6, <1>7 DEF PortsInv

\* The file is lost: every entry with it, and who had one holds nothing any more.
LEMMA PLoses ==
  ASSUME PortsInv, NEW s \in Slug, LoseFile, write' = [write EXCEPT ![s] = AtRest],
         UNCHANGED <<pids, portMap, cluster, undead>>, alive' \subseteq alive,
         pidOf' \in [Slug -> 0..pids], pidOf'[s] \in {0, pidOf[s]},
         \A t \in Slug \ {s} : pidOf'[t] = pidOf[t],
         \A t \in Slug : pidOf'[t] # 0 => pidOf'[t] \in alive'
  PROVE  PortsInv'
<1>1. /\ registry' = {} /\ unheld' = unheld \cup {e.slug : e \in registry}
      /\ maker' = [t \in Slug |-> IF \E e \in registry : e.slug = t THEN 0 ELSE maker[t]]
  BY DEF LoseFile
<1>2. \A e \in registry : e.slug \in Slug
  BY PTypes DEF Entry
<1>3. maker' \in [Slug -> 0..pids] /\ unheld' \subseteq Slug
  BY <1>1, <1>2, PTypes
<1>4. PortsShapes'
  BY <1>1, <1>3, PRest, PTypes DEF PortsShapes
<1>5. OneSlotEach' /\ PidsApart'
  BY <1>1 DEF PortsInv, OneSlotEach, PidsApart
<1>6. ASSUME NEW t \in Slug PROVE SlugGood(t)'
  <2>1. SlugGood(t)
    BY PValues
  <2>2. write'[t] = write[t] \/ (t = s /\ write'[t] = AtRest)
    BY PTypes
  <2>3. write'[t].at # "idle" => write'[t] = write[t] /\ t # s
    BY <2>2, PRest, PTypes
  <2>4. pidOf'[t] = 0 => write'[t].at = "idle"
    BY <2>1, <2>3 DEF SlugGood
  <2>5. CASE \E e \in registry : e.slug = t
    <3>1. t \in unheld' /\ maker'[t] = 0
      BY <1>1, <2>5
    <3> QED BY <2>1, <2>3, <2>4, <3>1 DEF SlugGood, PSetup, OwnCluster
  <2>6. CASE ~ \E e \in registry : e.slug = t
    <3>1. maker'[t] = maker[t] /\ ~OwnCluster(t) /\ (t \in unheld => t \in unheld')
      BY <1>1, <2>1, <2>6 DEF SlugGood
    <3>2. ~OwnCluster(t)'
      BY <3>1 DEF OwnCluster
    <3>3. write[t].at \in PSetup => t \in unheld
      BY <2>1, <2>6 DEF SlugGood
    <3> QED BY <2>1, <2>3, <2>4, <3>1, <3>2, <3>3 DEF SlugGood, PSetup
  <2> QED BY <2>5, <2>6
<1> QED BY <1>4, <1>5, <1>6 DEF PortsInv

LEMMA PBreaks ==
  ASSUME PortsInv, NEW s \in Slug, WriteBreaks(s)
  PROVE  PortsInv'
<1>1. /\ LoseFile /\ write' = [write EXCEPT ![s] = AtRest]
      /\ UNCHANGED <<pidOf, alive, pids, portMap, cluster, undead>>
  BY DEF WriteBreaks, WriteEnds
<1>2. \A t \in Slug : pidOf[t] # 0 => pidOf[t] \in alive
  BY DEF PortsInv, SlugGood
<1> QED BY <1>1, <1>2, PTypes, PLoses

LEMMA PDies ==
  ASSUME PortsInv, NEW s \in Slug, HelperDies(s),
         UNCHANGED <<registry, unheld>>, UNCHANGED <<cluster, maker, undead>> \/ KindCreate(s, 0)
  PROVE  PortsInv'
<1>1. /\ pidOf[s] # 0 /\ pidOf' = [pidOf EXCEPT ![s] = 0] /\ alive' = alive \ {pidOf[s]}
      /\ write' = [write EXCEPT ![s] = AtRest] /\ UNCHANGED <<registry, pids, portMap, unheld>>
  BY DEF HelperDies, WriteEnds
<1>2. /\ cluster' \in [Slug -> OneSlot] /\ maker' \in [Slug -> 0..pids] /\ undead' \subseteq Slug
      /\ \A t \in Slug \ {s} : cluster'[t] = cluster[t] /\ maker'[t] = maker[t] /\ (t \in undead' <=> t \in undead)
  <2>1. CASE UNCHANGED <<cluster, maker, undead>>
    BY <2>1, PTypes
  <2>2. CASE KindCreate(s, 0)
    <3>1. write[s].slots \in OneSlot
      BY PValues
    <3> QED BY <2>2, <3>1, PTypes DEF KindCreate
  <2> QED BY <2>1, <2>2
<1>3. pidOf'[s] = 0 /\ write'[s] = AtRest
  BY <1>1, PTypes
<1>4. PortsShapes'
  BY <1>1, <1>2, PRest, PTypes DEF PortsShapes
<1>5. OneSlotEach'
  BY <1>1 DEF PortsInv, OneSlotEach
<1>6. PidsApart'
  BY <1>1, PTypes DEF PortsInv, PidsApart
<1>7. SlugGood(s)'
  BY <1>3, PRest DEF SlugGood, PSetup, OwnCluster
<1>8. ASSUME NEW t \in Slug \ {s} PROVE SlugGood(t)'
  <2>1. pidOf'[t] = pidOf[t] /\ write'[t] = write[t]
    BY <1>1, PTypes
  <2>2. pidOf[t] # 0 => pidOf[t] \in alive'
    <3>1. pidOf[t] # 0 => pidOf[t] \in alive
      BY DEF PortsInv, SlugGood
    <3>2. pidOf[t] # pidOf[s]
      BY <1>1 DEF PortsInv, PidsApart
    <3> QED BY <1>1, <3>1, <3>2
  <2> QED BY <1>1, <1>2, <2>1, <2>2, POthers
<1> QED BY <1>4, <1>5, <1>6, <1>7, <1>8 DEF PortsInv

LEMMA PDiesAnyway ==
  ASSUME PortsInv, NEW s \in Slug, HelperDies(s)
  PROVE  PortsInv'
<1>1. CASE LoseFile /\ UNCHANGED <<cluster, undead>>
  <2>1. /\ pidOf[s] # 0 /\ pidOf' = [pidOf EXCEPT ![s] = 0] /\ alive' = alive \ {pidOf[s]}
        /\ write' = [write EXCEPT ![s] = AtRest] /\ UNCHANGED <<pids, portMap>>
    BY DEF HelperDies, WriteEnds
  <2>2. pidOf'[s] = 0 /\ pidOf' \in [Slug -> 0..pids] /\ \A t \in Slug \ {s} : pidOf'[t] = pidOf[t]
    BY <2>1, PTypes
  <2>3. ASSUME NEW t \in Slug, pidOf'[t] # 0 PROVE pidOf'[t] \in alive'
    <3>1. t # s /\ pidOf'[t] = pidOf[t] /\ pidOf[t] \in alive
      BY <2>2, <2>3 DEF PortsInv, SlugGood
    <3>2. pidOf[t] # pidOf[s]
      BY <2>1, <3>1 DEF PortsInv, PidsApart
    <3> QED BY <2>1, <3>1, <3>2
  <2> QED BY <1>1, <2>1, <2>2, <2>3, PLoses
<1>2. CASE UNCHANGED <<registry, unheld>> /\ (UNCHANGED <<cluster, maker, undead>> \/ KindCreate(s, 0))
  BY <1>2, PDies
<1> QED BY <1>1, <1>2 DEF HelperDies

\* The helper that writes the file is one.
WriterType == writer \in {{}} \cup {{s} : s \in Slug}
LEMMA PWriterType == WriterType /\ [PortsNext]_portsVars => WriterType'
<1> SUFFICES ASSUME WriterType, [PortsNext]_portsVars PROVE WriterType'
  OBVIOUS
<1>1. ASSUME NEW s \in Slug,
             \/ Allocate(s) \/ Deallocate(s) \/ Written(s) \/ WriteBreaks(s) \/ HelperDies(s)
      PROVE  WriterType'
  <2>1. writer' \in {writer, {}, {s}, writer \ {s}}
    BY <1>1 DEF Allocate, Deallocate, Written, WriteBreaks, HelperDies
  <2> QED BY <2>1 DEF WriterType
<1>2. CASE UNCHANGED writer
  BY <1>2 DEF WriterType
<1> QED BY <1>1, <1>2 DEF PortsNext, portsVars, StartHelper, Reallocate, WriteMap, MakeCluster, SetupEnds, SetupFails,
                           DeleteCluster, StrangerStarts, StrangerEnds

LEMMA PStrangers ==
  ASSUME PortsInv, NEW p \in 1..MaxPid, StrangerStarts(p) \/ StrangerEnds(p)
  PROVE  PortsInv'
<1>1. /\ UNCHANGED <<registry, pidOf, pids, write, portMap, cluster, maker, undead, unheld>>
      /\ alive' \subseteq 1..pids
  BY PTypes DEF StrangerStarts, StrangerEnds
<1>2. PortsShapes'
  BY <1>1, PTypes DEF PortsShapes
<1>3. OneSlotEach' /\ PidsApart'
  BY <1>1 DEF PortsInv, OneSlotEach, PidsApart
<1>4. ASSUME NEW t \in Slug PROVE SlugGood(t)'
  <2>1. pidOf[t] # 0 => pidOf[t] \in alive
    BY DEF PortsInv, SlugGood
  <2>2. pidOf[t] # 0 => pidOf[t] \in alive'
    BY <2>1 DEF StrangerStarts, StrangerEnds
  <2> QED BY <1>1, <2>2, POthers
<1> QED BY <1>2, <1>3, <1>4 DEF PortsInv

LEMMA PortsInductive == PortsInv /\ [PortsNext]_portsVars => PortsInv'
<1> SUFFICES ASSUME PortsInv, [PortsNext]_portsVars PROVE PortsInv'
  OBVIOUS
<1>1. ASSUME NEW s \in Slug, NEW o \in {"ok", "failed", "cancelled"}, NEW gone \in BOOLEAN, DeleteCluster(s, o, gone)
      PROVE  PortsInv'
  BY <1>1, PDeletes
<1>2. CASE UNCHANGED portsVars \/ \E s \in Slug : Written(s)
  <2>1. /\ UNCHANGED registry /\ UNCHANGED pidOf /\ UNCHANGED alive /\ UNCHANGED pids /\ UNCHANGED write
        /\ UNCHANGED portMap /\ UNCHANGED cluster /\ UNCHANGED maker /\ UNCHANGED undead /\ UNCHANGED unheld
    BY <1>2 DEF portsVars, Written
  <2> QED BY <2>1 DEF PortsInv, PortsShapes, OneSlotEach, PidsApart, SlugGood, OwnCluster
<1> QED BY <1>1, <1>2, PStarts, PDiesAnyway, PBreaks, PReallocates, PAllocates, PWritesMap, PMakes, PSetupEndsOrFails, PDeallocates,
           PStrangers DEF PortsNext

(* However helpers of a host start, die, set their clusters up and tear them  *)
(* down, and however their process ids are reused: a slug has one entry of    *)
(* the registry and a slot one slug; unless the entry is a stranger's or was  *)
(* lost with the file, the slot of a setup stays registered to it and         *)
(* ports.json names the ports of the cluster it made.                         *)
THEOREM PortsCorrectProved == PortsSpec => []PortsCorrect
<1>1. PortsInv /\ WriterType => PortsCorrect
  <2> SUFFICES ASSUME PortsInv, WriterType PROVE PortsCorrect
    OBVIOUS
  <2>1. PortsTypeOK
    <3>1. 0..pids \subseteq 0..MaxPid /\ 1..pids \subseteq 1..MaxPid
      BY PTypes
    <3> QED BY <3>1, PTypes DEF PortsTypeOK, PWrite, WriterType
  <2>2. OneSlotEach
    BY DEF PortsInv
  <2>3. SlotHeld
    <3> SUFFICES ASSUME NEW s \in Slug, pidOf[s] # 0, write[s].at \in PSetup
        PROVE  s \in unheld \/ \E e \in registry : e.slug = s /\ e.slot \in write[s].slots /\ e.pid = pidOf[s]
      BY DEF SlotHeld, PSetup
    <3> QED BY DEF PortsInv, SlugGood
  <2>4. MapIsCluster
    BY DEF PortsInv, SlugGood, MapIsCluster, Runs
  <2> QED BY <2>1, <2>2, <2>3, <2>4 DEF PortsCorrect
<1>2. PortsInit => PortsInv /\ WriterType
  BY PortsInitInv DEF PortsInit, WriterType
<1>3. PortsInv /\ WriterType /\ [PortsNext]_portsVars => (PortsInv /\ WriterType)'
  BY PortsInductive, PWriterType
<1> QED BY <1>1, <1>2, <1>3, PTL DEF PortsSpec

HIDE PortsAssumption

-----------------------------------------------------------------------------
(* The helpers of the developers and their port registry, as one run checks   *)
(* them: one write at a time, stopped by its own cancel only, and ports that  *)
(* are the helper's own and those its ports.json names.                       *)
THEOREM ToolsCorrectProved == HelperSpec /\ PortsSpec => []ToolsCorrect
<1>1. HelperCorrect /\ PortsCorrect => ToolsCorrect
  BY DEF ToolsCorrect
<1> QED BY <1>1, HelperCorrectProved, PortsCorrectProved, PTL
=============================================================================
