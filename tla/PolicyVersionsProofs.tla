------------------------- MODULE PolicyVersionsProofs -------------------------
(***************************************************************************)
(* Readers are given the newest version, for any number of requests and    *)
(* versions.  Several rows may stay active when updates overlap, so that   *)
(* "one row is active" is no invariant; what is one is that a row of the   *)
(* newest version is active, because an update only deactivates the row it *)
(* has numbered its own after.                                             *)
(***************************************************************************)
EXTENDS PolicyVersions, SequenceTheorems, TLAPS

RowsOK == rows \in Seq([version : Nat, fields : Policies])

\* Every request about to publish has read a row.
BasesOK == \A r \in Requests : pc[r] = "publish" => base[r] \in DOMAIN rows

\* An active row no other row is newer than.
NewestIsActive ==
    rows # <<>> => \E i \in active : \A j \in DOMAIN rows : rows[j].version <= rows[i].version

VersionInv ==
    /\ RowsOK
    /\ active \subseteq DOMAIN rows
    /\ pc \in [Requests -> {"idle", "register", "publish", "conflict", "missing", "error"}]
    /\ base \in [Requests -> Nat]
    /\ body \in [Requests -> Bodies]
    /\ BasesOK
    /\ NewestIsActive

\* A row is what the type says of it.
LEMMA RowType ==
    ASSUME RowsOK, NEW i \in DOMAIN rows
    PROVE  /\ rows[i] \in [version : Nat, fields : Policies]
           /\ rows[i].version \in Nat /\ rows[i].fields \in Policies
<1> DEFINE Row == [version : Nat, fields : Policies]
<1>1. rows \in Seq(Row)
  BY DEF RowsOK
<1> HIDE DEF Row
<1>2. i \in 1 .. Len(rows)
  BY <1>1
<1>3. rows[i] \in Row
  BY <1>1, <1>2, ElementOfSeq
<1> QED
  BY <1>3 DEF Row

VersionsAreNumbers == \A i \in DOMAIN rows : rows[i].version \in Nat

\* The versions of committed rows can be compared.
LEMMA VersionNumbers == VersionInv => VersionsAreNumbers
<1> QED
  BY RowType DEF VersionInv, VersionsAreNumbers

\* What an update publishes is a policy.
LEMMA NextFieldsType ==
    ASSUME NEW b \in Bodies, NEW old \in Policies
    PROVE  NextFields(b, old) \in Policies
<1>1. DefaultThreshold \in Thresholds
  BY PolicyVersionConstants
<1> QED
  BY <1>1 DEF NextFields, CarryOver, Policies, Bodies, OrNull

\* An update keeps the invariant: the row it deactivates is either not the
\* newest, or older than the row it adds.
LEMMA UpdatePreserves ==
    ASSUME VersionInv, NEW r \in Requests, UpdateCommit(r)
    PROVE  VersionInv'
<1> DEFINE old == rows[base[r]]
           new == [version |-> old.version + 1, fields |-> NextFields(body[r], old.fields)]
           n == Len(rows) + 1
<1>1. base[r] \in DOMAIN rows /\ pc[r] = "publish"
  BY DEF UpdateCommit, VersionInv, BasesOK
<1>2. old \in [version : Nat, fields : Policies]
  BY <1>1, RowType DEF VersionInv, old
<1>3. new \in [version : Nat, fields : Policies]
  BY <1>2, NextFieldsType DEF VersionInv
<1>4. rows' = Append(rows, new)
  BY DEF UpdateCommit
<1> HIDE DEF old, new
<1>5. /\ RowsOK' /\ Len(rows') = n /\ n \in Nat
      /\ DOMAIN rows' = 1 .. n /\ DOMAIN rows = 1 .. Len(rows)
      /\ rows'[n] = new
      /\ \A j \in DOMAIN rows : rows'[j] = rows[j]
  BY <1>3, <1>4 DEF VersionInv, RowsOK
<1>6. active' = (active \ {base[r]}) \cup {n}
  BY <1>5 DEF UpdateCommit
<1>7. active' \subseteq DOMAIN rows'
  BY <1>5, <1>6 DEF VersionInv
<1>8. NewestIsActive'
  <2>1. PICK i \in active : \A j \in DOMAIN rows : rows[j].version <= rows[i].version
    BY <1>1 DEF VersionInv, NewestIsActive
  <2>2. i \in DOMAIN rows /\ rows[i].version \in Nat
    BY <2>1, RowType DEF VersionInv
  <2>3. old.version <= rows[i].version /\ new.version = old.version + 1
    BY <1>1, <2>1 DEF old, new
  <2>4. old.version \in Nat
    BY <1>2
  <2>5. CASE i = base[r]
    <3>1. \A j \in DOMAIN rows' : rows'[j].version <= rows'[n].version
      <4> TAKE j \in DOMAIN rows'
      <4>1. CASE j = n
        BY <4>1, <1>3, <1>5
      <4>2. CASE j # n
        <5>1. j \in DOMAIN rows
          BY <4>2, <1>5
        <5>2. rows[j].version \in Nat /\ rows[j].version <= old.version
          BY <5>1, <2>1, <2>5, RowType DEF old, VersionInv
        <5> QED
          BY <5>1, <5>2, <1>5, <2>3, <2>4
      <4> QED
        BY <4>1, <4>2
    <3> QED
      BY <3>1, <1>6 DEF NewestIsActive
  <2>6. CASE i # base[r] /\ new.version <= rows[i].version
    <3>1. i \in active'
      BY <2>1, <2>6, <1>6
    <3>2. \A j \in DOMAIN rows' : rows'[j].version <= rows'[i].version
      BY <2>1, <2>2, <2>6, <1>5
    <3> QED
      BY <3>1, <3>2 DEF NewestIsActive
  <2>7. CASE i # base[r] /\ rows[i].version < new.version
    <3>1. \A j \in DOMAIN rows' : rows'[j].version <= rows'[n].version
      <4> TAKE j \in DOMAIN rows'
      <4>1. CASE j = n
        BY <4>1, <1>3, <1>5
      <4>2. CASE j # n
        <5>1. j \in DOMAIN rows
          BY <4>2, <1>5
        <5>2. rows[j].version \in Nat /\ rows[j].version <= rows[i].version
          BY <5>1, <2>1, RowType DEF VersionInv
        <5> QED
          BY <5>1, <5>2, <1>5, <2>2, <2>3, <2>4, <2>7
      <4> QED
        BY <4>1, <4>2
    <3> QED
      BY <3>1, <1>6 DEF NewestIsActive
  <2> QED
    BY <2>2, <2>3, <2>4, <2>5, <2>6, <2>7
<1>9. BasesOK'
  BY <1>5 DEF UpdateCommit, VersionInv, BasesOK
<1>10. /\ pc' \in [Requests -> {"idle", "register", "publish", "conflict", "missing", "error"}]
       /\ base' \in [Requests -> Nat]
  BY DEF UpdateCommit, VersionInv
<1>11. body' \in [Requests -> Bodies]
  <2>1. Omitted \in Bodies
    BY DEF Omitted, Bodies, OrNull
  <2> QED
    BY <2>1 DEF UpdateCommit, VersionInv
<1> QED
  BY <1>5, <1>7, <1>8, <1>9, <1>10, <1>11 DEF VersionInv

THEOREM VersionInvariant == Spec => []VersionInv
<1>1. Init => VersionInv
  <2> SUFFICES ASSUME Init PROVE VersionInv
    OBVIOUS
  <2>1. Omitted \in Bodies
    BY DEF Omitted, Bodies, OrNull
  <2>2. RowsOK /\ active \subseteq DOMAIN rows
    BY DEF Init, RowsOK
  <2> QED
    BY <2>1, <2>2 DEF Init, VersionInv, BasesOK, NewestIsActive
<1>2. VersionInv /\ [Next]_vars => VersionInv'
  <2> SUFFICES ASSUME VersionInv, [Next]_vars PROVE VersionInv'
    OBVIOUS
  <2>1. ASSUME NEW r \in Requests, RegisterLoad(r) PROVE VersionInv'
    BY <2>1 DEF RegisterLoad, VersionInv, RowsOK, BasesOK, NewestIsActive
  <2>2. ASSUME NEW r \in Requests, RegisterCommit(r) PROVE VersionInv'
    <3>1. CASE rows = <<>>
      <4> DEFINE first == [version |-> 1, fields |-> DefaultPolicy]
      <4>1. first \in [version : Nat, fields : Policies]
        BY PolicyVersionConstants DEF DefaultPolicy, Policies, OrNull
      <4>2. rows' = <<first>> /\ active' = {1}
        BY <2>2, <3>1 DEF RegisterCommit
      <4> HIDE DEF first
      <4>3. RowsOK' /\ DOMAIN rows' = {1} /\ rows'[1].version \in Nat
        BY <4>1, <4>2 DEF RowsOK
      <4>4. NewestIsActive' /\ active' \subseteq DOMAIN rows'
        BY <4>2, <4>3 DEF NewestIsActive
      <4>5. \A q \in Requests : pc[q] # "publish"
        BY <3>1 DEF VersionInv, BasesOK
      <4>6. \A q \in Requests : pc'[q] # "publish"
        BY <2>2, <3>1, <4>5 DEF RegisterCommit, VersionInv
      <4> QED
        BY <2>2, <3>1, <4>3, <4>4, <4>6 DEF RegisterCommit, VersionInv, BasesOK
    <3>2. CASE rows # <<>>
      BY <2>2, <3>2 DEF RegisterCommit, VersionInv, RowsOK, BasesOK, NewestIsActive
    <3> QED
      BY <3>1, <3>2
  <2>3. ASSUME NEW r \in Requests, NEW b \in Bodies, UpdateLoad(r, b) PROVE VersionInv'
    <3>1. CASE active = {}
      BY <2>3, <3>1 DEF UpdateLoad, VersionInv, RowsOK, BasesOK, NewestIsActive
    <3>2. CASE active # {}
      <4>1. PICK i \in InForce : base' = [base EXCEPT ![r] = i]
        BY <2>3, <3>2 DEF UpdateLoad
      <4>2. i \in DOMAIN rows /\ i \in Nat
        BY <4>1 DEF InForce, VersionInv, RowsOK
      <4>3. /\ base' \in [Requests -> Nat] /\ BasesOK'
        BY <2>3, <3>2, <4>1, <4>2 DEF UpdateLoad, VersionInv, BasesOK
      <4> QED
        BY <2>3, <3>2, <4>3 DEF UpdateLoad, VersionInv, RowsOK, NewestIsActive
    <3> QED
      BY <3>1, <3>2
  <2>4. ASSUME NEW r \in Requests, UpdateCommit(r) PROVE VersionInv'
    BY <2>4, UpdatePreserves
  <2>5. ASSUME NEW r \in Requests, Answer(r) PROVE VersionInv'
    BY <2>5 DEF Answer, VersionInv, RowsOK, BasesOK, NewestIsActive
  <2>6. CASE UNCHANGED vars
    BY <2>6 DEF vars, VersionInv, RowsOK, BasesOK, NewestIsActive
  <2> QED
    BY <2>1, <2>2, <2>3, <2>4, <2>5, <2>6 DEF Next
<1> QED
  BY <1>1, <1>2, PTL DEF Spec

\* When a row of the newest version is active, that version is in force.
LEMMA NewestFromInv ==
    ASSUME VersionInv
    PROVE  InForceIsNewest
<1>1. \A i \in DOMAIN rows : rows[i].version \in Nat
  BY RowType DEF VersionInv
<1>2. CASE rows = <<>>
  BY <1>2 DEF VersionInv, InForceIsNewest, InForce
<1>3. CASE rows # <<>>
  <2>1. PICK i \in active : \A j \in DOMAIN rows : rows[j].version <= rows[i].version
    BY <1>3 DEF VersionInv, NewestIsActive
  <2>2. i \in InForce
    BY <2>1 DEF InForce, VersionInv
  <2>3. ASSUME NEW k \in InForce, NEW j \in DOMAIN rows
        PROVE  rows[j].version <= rows[k].version
    <3>1. rows[i].version <= rows[k].version /\ k \in DOMAIN rows /\ i \in DOMAIN rows
      BY <2>1 DEF InForce, VersionInv
    <3> QED
      BY <3>1, <2>1, <1>1
  <2> QED
    BY <2>2, <2>3 DEF InForceIsNewest
<1> QED
  BY <1>2, <1>3

\* Whatever updates overlap, a reader is given the newest version there is.
THEOREM NewestInForce == Spec => []InForceIsNewest
<1>1. VersionInv => InForceIsNewest
  BY NewestFromInv
<1> QED
  BY <1>1, VersionInvariant, PTL

\* Published rows are never changed (append-only history).
LEMMA RowsKept ==
    ASSUME VersionInv, [Next]_vars, NEW i \in DOMAIN rows
    PROVE  i \in DOMAIN rows' /\ rows'[i] = rows[i]
<1>1. ASSUME NEW r \in Requests, UpdateCommit(r)
      PROVE  i \in DOMAIN rows' /\ rows'[i] = rows[i]
  <2> DEFINE new == [version |-> rows[base[r]].version + 1,
                     fields |-> NextFields(body[r], rows[base[r]].fields)]
  <2>1. base[r] \in DOMAIN rows
    BY <1>1 DEF UpdateCommit, VersionInv, BasesOK
  <2>2. new \in [version : Nat, fields : Policies]
    BY <2>1, RowType, NextFieldsType DEF VersionInv
  <2>3. rows' = Append(rows, new)
    BY <1>1 DEF UpdateCommit
  <2> HIDE DEF new
  <2> QED
    BY <2>2, <2>3 DEF VersionInv, RowsOK
<1>2. ASSUME NEW r \in Requests, RegisterCommit(r)
      PROVE  i \in DOMAIN rows' /\ rows'[i] = rows[i]
  BY <1>2 DEF RegisterCommit
<1> QED
  BY <1>1, <1>2 DEF Next, vars, RegisterLoad, UpdateLoad, Answer

\* A reader is never given an older version than one before it was.
THEOREM NeverOlderHolds == Spec => NeverOlder
<1>1. VersionInv /\ VersionInv' /\ [Next]_vars
        => [\A i \in InForce : \A j \in InForce' : rows'[j].version >= rows[i].version]_vars
  <2> SUFFICES ASSUME VersionInv, VersionInv', [Next]_vars,
                      NEW i \in InForce, NEW j \in InForce'
               PROVE  rows'[j].version >= rows[i].version
    OBVIOUS
  <2>1. i \in DOMAIN rows /\ i \in DOMAIN rows' /\ rows'[i] = rows[i]
    BY RowsKept DEF InForce, VersionInv
  <2>2. InForceIsNewest'
    BY NewestFromInv, PTL
  <2>3. rows'[i].version <= rows'[j].version
    BY <2>1, <2>2 DEF InForceIsNewest
  <2>4. rows[i].version \in Nat
    BY <2>1, RowType DEF VersionInv
  <2>5. j \in DOMAIN rows'
    BY DEF InForce, VersionInv
  <2>6. VersionsAreNumbers'
    BY VersionNumbers, PTL
  <2> QED
    BY <2>1, <2>3, <2>4, <2>5, <2>6 DEF VersionsAreNumbers
<1> QED
  BY <1>1, VersionInvariant, PTL DEF Spec, NeverOlder

-----------------------------------------------------------------------------
\* The agent's registration publishes what admins have given: the defaults.
StandInv == SequentialUpdatesStand /\ (rows = <<>> => given = DefaultPolicy)

\* An update based on the active row takes its place.
LEMMA UpdateStands ==
    ASSUME VersionInv, StandInv, NEW r \in Requests, UpdateCommit(r)
    PROVE  StandInv'
<1> DEFINE old == rows[base[r]]
           new == [version |-> old.version + 1, fields |-> NextFields(body[r], old.fields)]
           n == Len(rows) + 1
<1>1. base[r] \in DOMAIN rows /\ rows # <<>>
  BY DEF UpdateCommit, VersionInv, BasesOK
<1>2. old \in [version : Nat, fields : Policies]
  BY <1>1, RowType DEF VersionInv, old
<1>3. new \in [version : Nat, fields : Policies]
  BY <1>2, NextFieldsType DEF VersionInv
<1>4. rows' = Append(rows, new)
  BY DEF UpdateCommit
<1>5. /\ new.fields.from = CarryOver(body[r].from, old.fields.from)
      /\ new.fields.to = CarryOver(body[r].to, old.fields.to)
      /\ new.fields.threshold = CarryOver(body[r].threshold, DefaultThreshold)
  BY DEF NextFields
<1> HIDE DEF new
<1>6. n \in DOMAIN rows' /\ rows'[n] = new /\ Len(rows') = n /\ rows' # <<>>
  BY <1>3, <1>4 DEF VersionInv, RowsOK
<1>7. active' = (active \ {base[r]}) \cup {n}
  BY <1>6 DEF UpdateCommit
<1>8. SUFFICES ASSUME ~overlapped' PROVE SequentialUpdatesStand'
  BY <1>6 DEF StandInv, SequentialUpdatesStand
<1>9. ~overlapped /\ base[r] \in active
  BY <1>8 DEF UpdateCommit
<1>10. PICK i \in DOMAIN rows : /\ active = {i}
                                /\ rows[i].fields.from = given.from
                                /\ rows[i].fields.to = given.to
  BY <1>1, <1>9 DEF StandInv, SequentialUpdatesStand
<1>11. i = base[r] /\ active' = {n}
  BY <1>7, <1>9, <1>10
<1>12. /\ given'.from = CarryOver(body[r].from, given.from)
       /\ given'.to = CarryOver(body[r].to, given.to)
       /\ given'.threshold = CarryOver(body[r].threshold, given.threshold)
  BY DEF UpdateCommit
<1>13. new.fields.threshold \in {given'.threshold, DefaultThreshold}
  BY <1>5, <1>12 DEF CarryOver
<1> QED
  BY <1>5, <1>6, <1>10, <1>11, <1>12, <1>13 DEF SequentialUpdatesStand

\* Updates that follow one another leave one active version, with the window
\* admins have given and no threshold but their last or the default, for any
\* number of requests, versions and minutes.
THEOREM SequentialUpdates == Spec => []SequentialUpdatesStand
<1>1. Init => StandInv
  BY DEF Init, StandInv, SequentialUpdatesStand
<1>2. VersionInv /\ StandInv /\ [Next]_vars => StandInv'
  <2> SUFFICES ASSUME VersionInv, StandInv, [Next]_vars PROVE StandInv'
    OBVIOUS
  <2>1. ASSUME NEW r \in Requests, RegisterCommit(r) PROVE StandInv'
    <3>1. CASE rows = <<>>
      <4> DEFINE first == [version |-> 1, fields |-> DefaultPolicy]
      <4>1. rows' = <<first>> /\ active' = {1} /\ given' = DefaultPolicy
        BY <2>1, <3>1 DEF RegisterCommit, StandInv
      <4>2. first.fields = DefaultPolicy
        OBVIOUS
      <4> HIDE DEF first
      <4>3. 1 \in DOMAIN rows' /\ rows'[1] = first /\ rows' # <<>>
        BY <4>1
      <4> QED
        BY <4>1, <4>2, <4>3 DEF StandInv, SequentialUpdatesStand, DefaultPolicy
    <3>2. CASE rows # <<>>
      BY <2>1, <3>2 DEF RegisterCommit, StandInv, SequentialUpdatesStand
    <3> QED
      BY <3>1, <3>2
  <2>2. ASSUME NEW r \in Requests, UpdateCommit(r) PROVE StandInv'
    BY <2>2, UpdateStands
  <2>3. CASE UNCHANGED <<rows, active, given, overlapped>>
    BY <2>3 DEF StandInv, SequentialUpdatesStand
  <2> QED
    BY <2>1, <2>2, <2>3 DEF Next, vars, RegisterLoad, UpdateLoad, Answer
<1> QED
  BY <1>1, <1>2, VersionInvariant, PTL DEF Spec, StandInv

\* Every variable keeps its type.
THEOREM TypeCorrect == Spec => []TypeOK
<1> DEFINE Given == given \in Policies /\ overlapped \in BOOLEAN
<1>1. Init => Given
  <2>1. DefaultPolicy \in Policies
    BY PolicyVersionConstants DEF DefaultPolicy, Policies, OrNull
  <2>2. Init => overlapped \in BOOLEAN
    BY Zenon DEF Init
  <2> QED
    BY <2>1, <2>2 DEF Init
<1>2. VersionInv /\ Given /\ [Next]_vars => Given'
  <2> SUFFICES ASSUME VersionInv, Given, [Next]_vars PROVE Given'
    OBVIOUS
  <2>1. ASSUME NEW r \in Requests, UpdateCommit(r) PROVE Given'
    <3>1. overlapped' \in BOOLEAN
      BY <2>1 DEF UpdateCommit
    <3>2. body[r] \in Bodies
      BY DEF VersionInv
    <3>3. given' \in Policies
      <4>1. /\ body[r].from \in OrNull(Minutes) /\ body[r].to \in OrNull(Minutes)
            /\ body[r].threshold \in OrNull(Thresholds)
        BY <3>2 DEF Bodies
      <4>2. /\ given.from \in OrNull(Minutes) /\ given.to \in OrNull(Minutes)
            /\ given.threshold \in Thresholds
        BY DEF Policies
      <4>3. given' = [from |-> CarryOver(body[r].from, given.from),
                      to |-> CarryOver(body[r].to, given.to),
                      threshold |-> CarryOver(body[r].threshold, given.threshold)]
        BY <2>1 DEF UpdateCommit
      <4> QED
        BY <4>1, <4>2, <4>3 DEF CarryOver, Policies, OrNull
    <3> QED
      BY <3>1, <3>3
  <2>2. CASE UNCHANGED <<given, overlapped>>
    BY <2>2
  <2> QED
    BY <2>1, <2>2 DEF Next, vars, RegisterLoad, RegisterCommit, UpdateLoad, Answer
<1>3. VersionInv /\ Given => TypeOK
  BY DEF VersionInv, RowsOK, BasesOK, TypeOK
<1> QED
  BY <1>1, <1>2, <1>3, VersionInvariant, PTL DEF Spec
=============================================================================
