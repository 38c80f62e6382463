--------------------------- MODULE ExecutionProofs ---------------------------
(***************************************************************************)
(* Proofs about Execution, for every set of rows, wallets, replicas and    *)
(* request slots and for every bound: its safety properties, and that it   *)
(* implements Decision.                                                    *)
(***************************************************************************)
EXTENDS Execution, FiniteSetTheorems, TLAPS

USE DEF rowVars, redisVars, callVars, chainVars

-----------------------------------------------------------------------------
(* The inductive invariant that holds with any number of replicas *)

SubmitPoints == {"load", "claim"} \cup AwaitPoints

\* What a request knows at each point of its handler.
CallShape ==
    \A c \in Calls :
        /\ pc[c] # "idle" => target[c] \in TxIds
        /\ pc[c] = "idle" => seen[c] = Null
        /\ pc[c] \in {"save", "claim"} \cup AwaitPoints => seen[c] \in Nat
        /\ pc[c] \in SubmitPoints => payload[c] \in Payload
        /\ pc[c] \in AwaitPoints =>
              /\ payload[c].tx = target[c]
              /\ payload[c].nonce = seen[c]
              /\ lock[target[c]] = c

\* A row lock is held across awaits by one submit, and the row it guards is
\* `approved` for everyone else.
LockShape ==
    \A t \in TxIds :
        lock[t] # Null =>
            /\ pc[lock[t]] \in AwaitPoints
            /\ target[lock[t]] = t
            /\ status[t] = "approved"

Shape == TypeOK /\ CallShape /\ LockShape

LEMMA ShapeInit == Init => Shape
  BY ConstantsTyped, NullIsFresh
  DEF Init, Shape, TypeOK, CallShape, LockShape, Points, SyncPoints,
      AwaitPoints, SubmitPoints

\* Every step of the adapter, of Redis, of a replica or of the chain keeps the
\* shape of requests and locks.
LEMMA ShapeStep == Shape /\ [Next]_vars => Shape'
<1>. USE ConstantsTyped, NullIsFresh
     DEF Shape, TypeOK, CallShape, LockShape, Points, SyncPoints, AwaitPoints,
         SubmitPoints, Goto, Return, Accept
<1>. SUFFICES ASSUME Shape, [Next]_vars PROVE Shape'
  OBVIOUS
<1>1. ASSUME NEW c \in Calls, NEW t \in TxIds, PrepareRead(c, t) PROVE Shape'
  BY <1>1 DEF PrepareRead
<1>2. ASSUME NEW c \in Calls, PrepareReserve(c) PROVE Shape'
  BY <1>2 DEF PrepareReserve
<1>3. ASSUME NEW c \in Calls, PrepareReserveFails(c) PROVE Shape'
  BY <1>3 DEF PrepareReserveFails
<1>4. ASSUME NEW c \in Calls, PrepareSave(c) PROVE Shape'
  BY <1>4 DEF PrepareSave
<1>5. ASSUME NEW c \in Calls, PrepareIssue(c) PROVE Shape'
  BY <1>5 DEF PrepareIssue
<1>6. ASSUME NEW c \in Calls, PrepareIssueFails(c) PROVE Shape'
  BY <1>6 DEF PrepareIssueFails
<1>7. ASSUME NEW c \in Calls, NEW t \in TxIds, NEW tok \in 1..issued[t],
             NEW p \in Signable, SubmitConsume(c, t, tok, p)
      PROVE  Shape'
  BY <1>7 DEF SubmitConsume, Signable, Payload
<1>8. ASSUME NEW c \in Calls, SubmitLoad(c) PROVE Shape'
  <2>1. CASE status[target[c]] = "approved" /\ nonce[target[c]] # Null
    BY <1>8, <2>1 DEF SubmitLoad
  <2>2. CASE ~(status[target[c]] = "approved" /\ nonce[target[c]] # Null)
    <3>1. /\ pc[c] = "load"
          /\ Return(c)
          /\ UNCHANGED <<rowVars, redisVars, chainVars, requests, crashes>>
      BY <1>8, <2>2 DEF SubmitLoad
    <3>. QED
      BY <3>1
  <2>. QED
    BY <2>1, <2>2
<1>9. ASSUME NEW c \in Calls, SubmitClaim(c) PROVE Shape'
  BY <1>9 DEF SubmitClaim, MaySend, ValidSigned
<1>10. ASSUME NEW c \in Calls, SubmitInvalid(c) PROVE Shape'
  BY <1>10 DEF SubmitInvalid
<1>11. ASSUME NEW c \in Calls, SubmitLost(c) PROVE Shape'
  BY <1>11 DEF SubmitLost
<1>12. ASSUME NEW c \in Calls, SendPost(c) PROVE Shape'
  BY <1>12 DEF SendPost
<1>13. ASSUME NEW c \in Calls, SendOk(c) PROVE Shape'
  BY <1>13 DEF SendOk
<1>14. ASSUME NEW c \in Calls, SendRetry(c) PROVE Shape'
  BY <1>14 DEF SendRetry
<1>15. ASSUME NEW c \in Calls, SendGiveUp(c) PROVE Shape'
  BY <1>15 DEF SendGiveUp
<1>16. ASSUME NEW c \in Calls, NEW t \in TxIds, CancelRevoke(c, t) PROVE Shape'
  BY <1>16 DEF CancelRevoke
<1>17. ASSUME NEW c \in Calls, CancelUpdate(c) PROVE Shape'
  BY <1>17 DEF CancelUpdate
<1>18. ASSUME NEW t \in TxIds, TokenExpire(t) PROVE Shape'
  BY <1>18 DEF TokenExpire
<1>19. ASSUME NEW p \in Procs, Crash(p) PROVE Shape'
  BY <1>19 DEF Crash
<1>20. ASSUME NEW p \in sent, NodeAccept(p) PROVE Shape'
  BY <1>20 DEF NodeAccept
<1>21. ASSUME NEW p \in accepted, Mine(p) PROVE Shape'
  BY <1>21 DEF Mine, Payload
<1>22. CASE UNCHANGED vars
  BY <1>22 DEF vars
<1>. QED
  BY <1>1, <1>2, <1>3, <1>4, <1>5, <1>6, <1>7, <1>8, <1>9, <1>10, <1>11,
     <1>12, <1>13, <1>14, <1>15, <1>16, <1>17, <1>18, <1>19, <1>20, <1>21,
     <1>22 DEF Next, Step, Request

LEMMA ShapeAlways == Spec => []Shape
  BY ShapeInit, ShapeStep, PTL DEF Spec

\* The adapter's state keeps its type in every behaviour.
THEOREM TypeCorrect == Spec => []TypeOK
<1>1. Shape => TypeOK
  BY DEF Shape
<1>. QED
  BY <1>1, ShapeAlways, PTL

-----------------------------------------------------------------------------
(* Nonces: who may use which *)

\* Row t has a hold on nonce n: the column says so, a request of t has read or
\* reserved it, or a payload of t that carries it has left the process.
Owns(t, n) ==
    \/ nonce[t] = n
    \/ \E c \in Calls : target[c] = t /\ seen[c] = n
    \/ \E p \in sent : p.tx = t /\ p.nonce = n

\* Every nonce in use lies below its wallet's counter and has one owner.
NonceOwners ==
    /\ \A t \in TxIds, n \in Nat : Owns(t, n) => n < counter[Wallet[t]]
    /\ \A t, u \in TxIds, n \in Nat :
          t # u /\ Wallet[t] = Wallet[u] /\ Owns(t, n) => ~Owns(u, n)

\* A step gives nobody a new nonce.
NoNewOwner ==
    /\ \A w \in Wallets : counter'[w] \in Nat /\ counter[w] <= counter'[w]
    /\ \A t \in TxIds, n \in Nat : Owns(t, n)' => Owns(t, n)

\* A step gives row u the next nonce of its wallet, and nothing else.
NewOwner(u) ==
    /\ counter' = [counter EXCEPT ![Wallet[u]] = @ + 1]
    /\ \A t \in TxIds, n \in Nat :
          Owns(t, n)' => Owns(t, n) \/ (t = u /\ n = counter[Wallet[u]])

\* Only the allocator's script makes an owner; saving the column, reading it
\* back and posting a payload pass on what the row already holds.
LEMMA OwnersStep ==
  ASSUME Shape, [Next]_vars
  PROVE  NoNewOwner \/ \E u \in TxIds : NewOwner(u)
<1>. USE ConstantsTyped, NullIsFresh
     DEF Shape, TypeOK, CallShape, Points, SyncPoints, AwaitPoints,
         SubmitPoints, Goto, Return, Accept, Owns
<1>1. ASSUME NEW c \in Calls, NEW t \in TxIds, PrepareRead(c, t)
      PROVE  NoNewOwner
  BY <1>1 DEF PrepareRead, NoNewOwner
<1>2. ASSUME NEW c \in Calls, PrepareReserve(c)
      PROVE  \E u \in TxIds : NewOwner(u)
  <2>1. /\ target[c] \in TxIds
        /\ counter' = [counter EXCEPT ![Wallet[target[c]]] = @ + 1]
        /\ target' = target /\ nonce' = nonce /\ sent' = sent
        /\ \A d \in Calls \ {c} : seen'[d] = seen[d]
        /\ seen'[c] = counter[Wallet[target[c]]]
    BY <1>2 DEF PrepareReserve
  <2>2. ASSUME NEW t \in TxIds, NEW n \in Nat, Owns(t, n)'
        PROVE  Owns(t, n) \/ (t = target[c] /\ n = counter[Wallet[target[c]]])
    <3>1. CASE nonce'[t] = n \/ \E p \in sent' : p.tx = t /\ p.nonce = n
      BY <2>1, <3>1
    <3>2. ASSUME NEW d \in Calls, target'[d] = t, seen'[d] = n
          PROVE  Owns(t, n) \/ (t = target[c] /\ n = counter[Wallet[target[c]]])
      BY <2>1, <3>2
    <3>. QED
      BY <2>2, <3>1, <3>2
  <2>. QED
    BY <2>1, <2>2 DEF NewOwner
<1>3. ASSUME NEW c \in Calls, PrepareReserveFails(c) PROVE NoNewOwner
  BY <1>3 DEF PrepareReserveFails, NoNewOwner
<1>4. ASSUME NEW c \in Calls, PrepareSave(c) PROVE NoNewOwner
  BY <1>4 DEF PrepareSave, NoNewOwner
<1>5. ASSUME NEW c \in Calls, PrepareIssue(c) PROVE NoNewOwner
  BY <1>5 DEF PrepareIssue, NoNewOwner
<1>6. ASSUME NEW c \in Calls, PrepareIssueFails(c) PROVE NoNewOwner
  BY <1>6 DEF PrepareIssueFails, NoNewOwner
<1>7. ASSUME NEW c \in Calls, SubmitLoad(c) PROVE NoNewOwner
  BY <1>7 DEF SubmitLoad, NoNewOwner
<1>8. ASSUME NEW c \in Calls, SubmitClaim(c) PROVE NoNewOwner
  BY <1>8 DEF SubmitClaim, NoNewOwner
<1>9. ASSUME NEW c \in Calls, SubmitInvalid(c) PROVE NoNewOwner
  BY <1>9 DEF SubmitInvalid, NoNewOwner
<1>10. ASSUME NEW c \in Calls, SubmitLost(c) PROVE NoNewOwner
  BY <1>10 DEF SubmitLost, NoNewOwner
<1>11. ASSUME NEW c \in Calls, SendPost(c) PROVE NoNewOwner
  BY <1>11 DEF SendPost, NoNewOwner
<1>12. ASSUME NEW c \in Calls, SendOk(c) PROVE NoNewOwner
  BY <1>12 DEF SendOk, NoNewOwner
<1>13. ASSUME NEW c \in Calls, SendRetry(c) PROVE NoNewOwner
  BY <1>13 DEF SendRetry, NoNewOwner
<1>14. ASSUME NEW c \in Calls, SendGiveUp(c) PROVE NoNewOwner
  BY <1>14 DEF SendGiveUp, NoNewOwner
<1>15. ASSUME NEW c \in Calls, CancelUpdate(c) PROVE NoNewOwner
  BY <1>15 DEF CancelUpdate, NoNewOwner
<1>16. ASSUME NEW c \in Calls, NEW t \in TxIds, NEW tok \in 1..issued[t],
             NEW p \in Signable, SubmitConsume(c, t, tok, p)
      PROVE  NoNewOwner
  BY <1>16 DEF SubmitConsume, NoNewOwner
<1>17. ASSUME NEW c \in Calls, NEW t \in TxIds, CancelRevoke(c, t)
      PROVE  NoNewOwner
  BY <1>17 DEF CancelRevoke, NoNewOwner
<1>18. ASSUME NEW t \in TxIds, TokenExpire(t) PROVE NoNewOwner
  BY <1>18 DEF TokenExpire, NoNewOwner
<1>19. ASSUME NEW p \in Procs, Crash(p) PROVE NoNewOwner
  BY <1>19 DEF Crash, NoNewOwner
<1>20. ASSUME NEW p \in sent, NodeAccept(p) PROVE NoNewOwner
  BY <1>20 DEF NodeAccept, NoNewOwner
<1>21. ASSUME NEW p \in accepted, Mine(p) PROVE NoNewOwner
  BY <1>21 DEF Mine, NoNewOwner
<1>22. CASE UNCHANGED vars
  BY <1>22 DEF vars, NoNewOwner
<1>. QED
  BY <1>1, <1>2, <1>3, <1>4, <1>5, <1>6, <1>7, <1>8, <1>9, <1>10, <1>11,
     <1>12, <1>13, <1>14, <1>15, <1>16, <1>17, <1>18, <1>19, <1>20, <1>21,
     <1>22 DEF Next, Step, Request

LEMMA NonceOwnersInit == Init => NonceOwners
  BY ConstantsTyped, NullIsFresh DEF Init, NonceOwners, Owns

LEMMA NonceOwnersStep ==
  Shape /\ NonceOwners /\ [Next]_vars => NonceOwners'
<1>. SUFFICES ASSUME Shape, NonceOwners, [Next]_vars PROVE NonceOwners'
  OBVIOUS
<1>. USE ConstantsTyped DEF Shape, TypeOK, NonceOwners
<1>1. CASE NoNewOwner
  BY <1>1 DEF NoNewOwner
<1>2. ASSUME NEW u \in TxIds, NewOwner(u) PROVE NonceOwners'
  <2>1. ASSUME NEW t \in TxIds, NEW n \in Nat, Owns(t, n)'
        PROVE  n < counter'[Wallet[t]]
    BY <1>2, <2>1 DEF NewOwner
  <2>2. ASSUME NEW t \in TxIds, NEW v \in TxIds, NEW n \in Nat,
               t # v, Wallet[t] = Wallet[v], Owns(t, n)', Owns(v, n)'
        PROVE  FALSE
    <3>1. Owns(t, n) \/ (t = u /\ n = counter[Wallet[u]])
      BY <1>2, <2>2 DEF NewOwner
    <3>2. Owns(v, n) \/ (v = u /\ n = counter[Wallet[u]])
      BY <1>2, <2>2 DEF NewOwner
    <3>. QED
      BY <2>2, <3>1, <3>2
  <2>. QED
    BY <2>1, <2>2
<1>. QED
  BY <1>1, <1>2, OwnersStep

\* With any number of replicas, concurrent prepares and crashes, two decisions
\* of one wallet never post the same nonce.
THEOREM NoNonceCollisionHolds == Spec => []NoNonceCollision
<1>1. Init => NonceOwners
  BY NonceOwnersInit
<1>2. Shape /\ NonceOwners /\ [Next]_vars => NonceOwners'
  BY NonceOwnersStep
<1>3. Shape /\ NonceOwners => NoNonceCollision
  BY DEF Shape, TypeOK, Payload, NonceOwners, Owns, NoNonceCollision
<1>. QED
  BY <1>1, <1>2, <1>3, ShapeAlways, PTL DEF Spec

-----------------------------------------------------------------------------
(* Cancelled rows and counted attempts *)

\* The only steps that touch a row's status or post a payload.
LEMMA StatusOrSent ==
  ASSUME [Next]_vars
  PROVE  \/ UNCHANGED <<status, sent>>
         \/ \E c \in Calls : SendPost(c) \/ SendOk(c) \/ CancelUpdate(c)
  BY DEF Next, Step, Request, vars, PrepareRead, PrepareReserve,
         PrepareReserveFails, PrepareSave, PrepareIssue, PrepareIssueFails,
         SubmitConsume, SubmitLoad, SubmitClaim, SubmitInvalid, SubmitLost,
         SendRetry, SendGiveUp, CancelRevoke, TokenExpire, Crash, NodeAccept,
         Mine

\* A successful cancel is final in every replica: a submit that could still
\* post for the row would hold its lock, and a locked row is `approved`.
THEOREM CancelIsFinalHolds == Spec => CancelIsFinal
<1>1. Shape /\ [Next]_vars =>
        [\A t \in TxIds :
            status[t] = "cancelled" =>
                /\ status'[t] = "cancelled"
                /\ \A p \in sent' \ sent : p.tx # t]_vars
  <2>. SUFFICES ASSUME Shape, [Next]_vars,
                       NEW t \in TxIds, status[t] = "cancelled"
                PROVE  /\ status'[t] = "cancelled"
                       /\ \A p \in sent' \ sent : p.tx # t
    OBVIOUS
  <2>. USE NullIsFresh
       DEF Shape, TypeOK, CallShape, LockShape, AwaitPoints, SubmitPoints
  <2>1. CASE UNCHANGED <<status, sent>>
    BY <2>1
  <2>2. ASSUME NEW c \in Calls, SendPost(c) PROVE payload[c].tx # t
    BY <2>2 DEF SendPost
  <2>3. ASSUME NEW c \in Calls, SendPost(c)
        PROVE  /\ status'[t] = "cancelled"
               /\ \A p \in sent' \ sent : p.tx # t
    BY <2>2, <2>3 DEF SendPost
  <2>4. ASSUME NEW c \in Calls, SendOk(c)
        PROVE  status'[t] = "cancelled" /\ sent' = sent
    BY <2>4 DEF SendOk
  <2>5. ASSUME NEW c \in Calls, CancelUpdate(c)
        PROVE  status'[t] = "cancelled" /\ sent' = sent
    BY <2>5 DEF CancelUpdate, SyncPoints, Points
  <2>. QED
    BY <2>1, <2>3, <2>4, <2>5, StatusOrSent
<1>. QED
  BY <1>1, ShapeAlways, PTL DEF Spec, CancelIsFinal

\* As long as nothing crashed, a posted payload is counted or is about to be
\* by the submit that holds the lock.
Counted ==
    crashes = 0 =>
        \A p \in sent : attempts[p.tx] > 0 \/ lock[p.tx] # Null

LEMMA CountedStep == Shape /\ Counted /\ [Next]_vars => Counted'
<1>. SUFFICES ASSUME Shape, Counted, [Next]_vars PROVE Counted'
  OBVIOUS
<1>. USE NullIsFresh
     DEF Shape, TypeOK, Payload, CallShape, LockShape, AwaitPoints,
         SubmitPoints, Counted
<1>1. ASSUME NEW c \in Calls, SubmitClaim(c) PROVE Counted'
  BY <1>1 DEF SubmitClaim
<1>2. ASSUME NEW c \in Calls, SubmitInvalid(c) PROVE Counted'
  BY <1>2 DEF SubmitInvalid
<1>3. ASSUME NEW c \in Calls, SendPost(c) PROVE Counted'
  BY <1>3 DEF SendPost
<1>4. ASSUME NEW c \in Calls, SendOk(c) PROVE Counted'
  BY <1>4 DEF SendOk
<1>5. ASSUME NEW c \in Calls, SendGiveUp(c) PROVE Counted'
  BY <1>5 DEF SendGiveUp
<1>6. ASSUME NEW p \in Procs, Crash(p) PROVE Counted'
  BY <1>6 DEF Crash
<1>7. CASE UNCHANGED <<sent, attempts, lock, crashes>>
  BY <1>7
<1>8. \/ UNCHANGED <<sent, attempts, lock, crashes>>
      \/ \E p \in Procs : Crash(p)
      \/ \E c \in Calls : \/ SubmitClaim(c) \/ SubmitInvalid(c) \/ SendPost(c)
                          \/ SendOk(c) \/ SendGiveUp(c)
  BY DEF Next, Step, Request, Accept, vars, PrepareRead, PrepareReserve,
         PrepareReserveFails, PrepareSave, PrepareIssue, PrepareIssueFails,
         SubmitConsume, SubmitLoad, SubmitLost, SendRetry, CancelRevoke,
         CancelUpdate, TokenExpire, NodeAccept, Mine
<1>. QED
  BY <1>1, <1>2, <1>3, <1>4, <1>5, <1>6, <1>7, <1>8

\* The attempt counter survives every failure short of a crash.
THEOREM SentIsCountedHolds == Spec => []SentIsCounted
<1>1. Init => Counted
  BY DEF Init, Counted
<1>2. Shape /\ Counted /\ [Next]_vars => Counted'
  BY CountedStep
<1>3. Shape /\ Counted => SentIsCounted
  BY DEF Shape, TypeOK, Counted, SentIsCounted
<1>. QED
  BY <1>1, <1>2, <1>3, ShapeAlways, PTL DEF Spec

-----------------------------------------------------------------------------
(* One replica: a decision is executed at most once *)

\* The deployment has one process, hence one event loop.
OneReplica == \A p, q \in Procs : p = q

\* A process runs one handler at a time.
LoopExclusive ==
    \A c, d \in Calls :
        /\ Proc[c] = Proc[d]
        /\ pc[c] \in SyncPoints
        /\ pc[d] \in SyncPoints
        => c = d

\* Starting a handler needs a free loop; no other step starts to hold one.
LEMMA LoopExclusiveStep ==
  Shape /\ LoopExclusive /\ [Next]_vars => LoopExclusive'
<1>. SUFFICES ASSUME Shape, LoopExclusive, [Next]_vars PROVE LoopExclusive'
  OBVIOUS
<1>. USE ConstantsTyped
     DEF Shape, TypeOK, LoopExclusive, Points, SyncPoints, AwaitPoints,
         Goto, Return
<1>1. ASSUME NEW c \in Calls, PrepareReserve(c) PROVE LoopExclusive'
  BY <1>1 DEF PrepareReserve
<1>2. ASSUME NEW c \in Calls, PrepareReserveFails(c) PROVE LoopExclusive'
  BY <1>2 DEF PrepareReserveFails
<1>3. ASSUME NEW c \in Calls, PrepareSave(c) PROVE LoopExclusive'
  BY <1>3 DEF PrepareSave
<1>4. ASSUME NEW c \in Calls, PrepareIssue(c) PROVE LoopExclusive'
  BY <1>4 DEF PrepareIssue
<1>5. ASSUME NEW c \in Calls, PrepareIssueFails(c) PROVE LoopExclusive'
  BY <1>5 DEF PrepareIssueFails
<1>6. ASSUME NEW c \in Calls, SubmitLoad(c) PROVE LoopExclusive'
  BY <1>6 DEF SubmitLoad
<1>7. ASSUME NEW c \in Calls, SubmitClaim(c) PROVE LoopExclusive'
  BY <1>7 DEF SubmitClaim
<1>8. ASSUME NEW c \in Calls, SubmitInvalid(c) PROVE LoopExclusive'
  BY <1>8 DEF SubmitInvalid
<1>9. ASSUME NEW c \in Calls, SubmitLost(c) PROVE LoopExclusive'
  BY <1>9 DEF SubmitLost
<1>10. ASSUME NEW c \in Calls, SendPost(c) PROVE LoopExclusive'
  BY <1>10 DEF SendPost
<1>11. ASSUME NEW c \in Calls, SendOk(c) PROVE LoopExclusive'
  BY <1>11 DEF SendOk
<1>12. ASSUME NEW c \in Calls, SendRetry(c) PROVE LoopExclusive'
  BY <1>12 DEF SendRetry
<1>13. ASSUME NEW c \in Calls, SendGiveUp(c) PROVE LoopExclusive'
  BY <1>13 DEF SendGiveUp
<1>14. ASSUME NEW c \in Calls, CancelUpdate(c) PROVE LoopExclusive'
  BY <1>14 DEF CancelUpdate
<1>15. ASSUME NEW c \in Calls, NEW t \in TxIds, PrepareRead(c, t) PROVE LoopExclusive'
  BY <1>15 DEF PrepareRead, Accept, Busy
<1>16. ASSUME NEW c \in Calls, NEW t \in TxIds, NEW tok \in 1..issued[t],
             NEW p \in Signable, SubmitConsume(c, t, tok, p)
      PROVE  LoopExclusive'
  BY <1>16 DEF SubmitConsume, Accept, Busy
<1>17. ASSUME NEW c \in Calls, NEW t \in TxIds, CancelRevoke(c, t) PROVE LoopExclusive'
  BY <1>17 DEF CancelRevoke, Accept, Busy
<1>18. ASSUME NEW t \in TxIds, TokenExpire(t) PROVE LoopExclusive'
  BY <1>18 DEF TokenExpire
<1>19. ASSUME NEW p \in Procs, Crash(p) PROVE LoopExclusive'
  BY <1>19 DEF Crash
<1>20. ASSUME NEW p \in sent, NodeAccept(p) PROVE LoopExclusive'
  BY <1>20 DEF NodeAccept
<1>21. ASSUME NEW p \in accepted, Mine(p) PROVE LoopExclusive'
  BY <1>21 DEF Mine
<1>22. CASE UNCHANGED vars
  BY <1>22 DEF vars
<1>. QED
  BY <1>1, <1>2, <1>3, <1>4, <1>5, <1>6, <1>7, <1>8, <1>9, <1>10, <1>11,
     <1>12, <1>13, <1>14, <1>15, <1>16, <1>17, <1>18, <1>19, <1>20, <1>21,
     <1>22 DEF Next, Step, Request

\* With one replica a row's nonce is settled before anything is signed for it:
\* a prepare that is still to save one found none, and every payload posted
\* for the row carries the one it has.
RowNonce ==
    /\ \A c \in Calls :
          /\ pc[c] \in {"reserve", "save"} => nonce[target[c]] = Null
          /\ pc[c] \in {"claim"} \cup AwaitPoints => nonce[target[c]] = seen[c]
    /\ \A p \in sent : nonce[p.tx] = p.nonce

LEMMA RowNonceStep ==
  ASSUME OneReplica
  PROVE  Shape /\ LoopExclusive /\ RowNonce /\ [Next]_vars => RowNonce'
<1>. SUFFICES ASSUME Shape, LoopExclusive, RowNonce, [Next]_vars PROVE RowNonce'
  OBVIOUS
<1>. USE ConstantsTyped, NullIsFresh
     DEF Shape, TypeOK, CallShape, LoopExclusive, Payload, RowNonce, Points,
         SyncPoints, AwaitPoints, SubmitPoints, Goto, Return, OneReplica
<1>1. ASSUME NEW c \in Calls, PrepareReserve(c) PROVE RowNonce'
  BY <1>1 DEF PrepareReserve
<1>2. ASSUME NEW c \in Calls, PrepareReserveFails(c) PROVE RowNonce'
  BY <1>2 DEF PrepareReserveFails
<1>3. ASSUME NEW c \in Calls, PrepareSave(c) PROVE RowNonce'
  BY <1>3 DEF PrepareSave
<1>4. ASSUME NEW c \in Calls, PrepareIssue(c) PROVE RowNonce'
  BY <1>4 DEF PrepareIssue
<1>5. ASSUME NEW c \in Calls, PrepareIssueFails(c) PROVE RowNonce'
  BY <1>5 DEF PrepareIssueFails
<1>6. ASSUME NEW c \in Calls, SubmitLoad(c) PROVE RowNonce'
  BY <1>6 DEF SubmitLoad
<1>7. ASSUME NEW c \in Calls, SubmitClaim(c) PROVE RowNonce'
  BY <1>7 DEF SubmitClaim
<1>8. ASSUME NEW c \in Calls, SubmitInvalid(c) PROVE RowNonce'
  BY <1>8 DEF SubmitInvalid
<1>9. ASSUME NEW c \in Calls, SubmitLost(c) PROVE RowNonce'
  BY <1>9 DEF SubmitLost
<1>10. ASSUME NEW c \in Calls, SendPost(c) PROVE RowNonce'
  BY <1>10 DEF SendPost
<1>11. ASSUME NEW c \in Calls, SendOk(c) PROVE RowNonce'
  BY <1>11 DEF SendOk
<1>12. ASSUME NEW c \in Calls, SendRetry(c) PROVE RowNonce'
  BY <1>12 DEF SendRetry
<1>13. ASSUME NEW c \in Calls, SendGiveUp(c) PROVE RowNonce'
  BY <1>13 DEF SendGiveUp
<1>14. ASSUME NEW c \in Calls, CancelUpdate(c) PROVE RowNonce'
  BY <1>14 DEF CancelUpdate
<1>15. ASSUME NEW c \in Calls, NEW t \in TxIds, PrepareRead(c, t) PROVE RowNonce'
  BY <1>15 DEF PrepareRead, Accept, Busy
<1>16. ASSUME NEW c \in Calls, NEW t \in TxIds, NEW tok \in 1..issued[t],
             NEW p \in Signable, SubmitConsume(c, t, tok, p)
      PROVE  RowNonce'
  BY <1>16 DEF SubmitConsume, Accept, Busy
<1>17. ASSUME NEW c \in Calls, NEW t \in TxIds, CancelRevoke(c, t) PROVE RowNonce'
  BY <1>17 DEF CancelRevoke, Accept, Busy
<1>18. ASSUME NEW t \in TxIds, TokenExpire(t) PROVE RowNonce'
  BY <1>18 DEF TokenExpire
<1>19. ASSUME NEW p \in Procs, Crash(p) PROVE RowNonce'
  BY <1>19 DEF Crash
<1>20. ASSUME NEW p \in sent, NodeAccept(p) PROVE RowNonce'
  BY <1>20 DEF NodeAccept
<1>21. ASSUME NEW p \in accepted, Mine(p) PROVE RowNonce'
  BY <1>21 DEF Mine
<1>22. CASE UNCHANGED vars
  BY <1>22 DEF vars
<1>. QED
  BY <1>1, <1>2, <1>3, <1>4, <1>5, <1>6, <1>7, <1>8, <1>9, <1>10, <1>11,
     <1>12, <1>13, <1>14, <1>15, <1>16, <1>17, <1>18, <1>19, <1>20, <1>21,
     <1>22 DEF Next, Step, Request

\* The chain executes what was posted and accepted, one payload per nonce.
ChainShape ==
    /\ accepted \subseteq sent
    /\ mined \subseteq accepted
    /\ \A p \in mined : p.nonce < chainNonce[Wallet[p.tx]]
    /\ \A p, q \in mined :
          Wallet[p.tx] = Wallet[q.tx] /\ p.nonce = q.nonce => p = q

LEMMA ChainShapeStep == Shape /\ ChainShape /\ [Next]_vars => ChainShape'
<1>. SUFFICES ASSUME Shape, ChainShape, [Next]_vars PROVE ChainShape'
  OBVIOUS
<1>. USE ConstantsTyped DEF Shape, TypeOK, Payload, ChainShape
<1>1. ASSUME NEW c \in Calls, SendPost(c) PROVE ChainShape'
  BY <1>1 DEF SendPost
<1>2. ASSUME NEW p \in sent, NodeAccept(p) PROVE ChainShape'
  BY <1>2 DEF NodeAccept
<1>3. ASSUME NEW p \in accepted, Mine(p) PROVE ChainShape'
  BY <1>3 DEF Mine
<1>4. CASE UNCHANGED chainVars
  BY <1>4
<1>5. \/ UNCHANGED chainVars
      \/ \E c \in Calls : SendPost(c)
      \/ \E p \in sent : NodeAccept(p)
      \/ \E p \in accepted : Mine(p)
  BY DEF Next, Step, Request, vars, PrepareRead, PrepareReserve,
         PrepareReserveFails, PrepareSave, PrepareIssue, PrepareIssueFails,
         SubmitConsume, SubmitLoad, SubmitClaim, SubmitInvalid, SubmitLost,
         SendOk, SendRetry, SendGiveUp, CancelRevoke, CancelUpdate,
         TokenExpire, Crash
<1>. QED
  BY <1>1, <1>2, <1>3, <1>4, <1>5

\* Everything the two theorems below need, together.
OneReplicaInv == Shape /\ LoopExclusive /\ RowNonce /\ ChainShape

LEMMA OneReplicaInvAlways == ASSUME OneReplica PROVE Spec => []OneReplicaInv
<1>1. Init => OneReplicaInv
  <2>1. Init => LoopExclusive /\ RowNonce /\ ChainShape
    BY DEF Init, LoopExclusive, RowNonce, ChainShape, SyncPoints, AwaitPoints
  <2>. QED
    BY <2>1, ShapeInit DEF OneReplicaInv
<1>2. OneReplicaInv /\ [Next]_vars => OneReplicaInv'
  BY ShapeStep, LoopExclusiveStep, RowNonceStep, ChainShapeStep
  DEF OneReplicaInv
<1>. QED
  BY <1>1, <1>2, PTL DEF Spec

\* With one replica, a decision is executed on the chain at most once: after
\* any sequence of lost answers, crashes, new tokens and resubmissions, every
\* payload posted for the row carries the same nonce, and the chain executes
\* one payload per nonce.
THEOREM AtMostOneMinedHolds ==
  ASSUME OneReplica PROVE Spec => []AtMostOneMined
<1>1. OneReplicaInv => AtMostOneMined
  BY DEF OneReplicaInv, Shape, TypeOK, Payload, RowNonce, ChainShape,
         AtMostOneMined
<1>. QED
  BY <1>1, OneReplicaInvAlways, PTL

LEMMA BroadcastMatchesRowStep ==
  ASSUME OneReplica
  PROVE  OneReplicaInv /\ BroadcastMatchesRow /\ [Next]_vars
            => BroadcastMatchesRow'
<1>. SUFFICES ASSUME OneReplicaInv, BroadcastMatchesRow, [Next]_vars
              PROVE  BroadcastMatchesRow'
  OBVIOUS
<1>. USE ConstantsTyped, NullIsFresh
     DEF OneReplicaInv, Shape, TypeOK, Payload, CallShape, RowNonce,
         ChainShape, AwaitPoints, SubmitPoints, SyncPoints, Points,
         BroadcastMatchesRow
<1>1. ASSUME NEW c \in Calls, SendOk(c) PROVE BroadcastMatchesRow'
  BY <1>1 DEF SendOk
<1>2. ASSUME NEW c \in Calls, PrepareSave(c) PROVE BroadcastMatchesRow'
  BY <1>2 DEF PrepareSave
<1>3. ASSUME NEW c \in Calls, CancelUpdate(c) PROVE BroadcastMatchesRow'
  BY <1>3 DEF CancelUpdate
<1>4. ASSUME NEW p \in sent, NodeAccept(p) PROVE BroadcastMatchesRow'
  BY <1>4 DEF NodeAccept
<1>5. CASE UNCHANGED <<status, nonce, txHash, accepted>>
  BY <1>5
<1>6. \/ UNCHANGED <<status, nonce, txHash, accepted>>
      \/ \E c \in Calls : SendOk(c) \/ PrepareSave(c) \/ CancelUpdate(c)
      \/ \E p \in sent : NodeAccept(p)
  BY DEF Next, Step, Request, vars, PrepareRead, PrepareReserve,
         PrepareReserveFails, PrepareIssue, PrepareIssueFails,
         SubmitConsume, SubmitLoad, SubmitClaim, SubmitInvalid, SubmitLost,
         SendPost, SendRetry, SendGiveUp, CancelRevoke, TokenExpire, Crash,
         Mine
<1>. QED
  BY <1>1, <1>2, <1>3, <1>4, <1>5, <1>6

\* With one replica, a row that says `broadcast` names an accepted payload of
\* its own, with the nonce the row holds.
THEOREM BroadcastMatchesRowHolds ==
  ASSUME OneReplica PROVE Spec => []BroadcastMatchesRow
<1>1. Init => BroadcastMatchesRow
  BY DEF Init, BroadcastMatchesRow
<1>. QED
  BY <1>1, BroadcastMatchesRowStep, OneReplicaInvAlways, PTL DEF Spec

-----------------------------------------------------------------------------
(***************************************************************************)
(* Execution implements Decision.  The promise needs that every recorded   *)
(* attempt had a token of its own.  That is no local fact: tokens are      *)
(* overwritten, expire, and are burned by requests that die before they    *)
(* record anything.  What is inductive is a budget: the attempts recorded, *)
(* the submits under way and the token outstanding together never exceed   *)
(* the tokens issued.                                                      *)
(***************************************************************************)

\* The submits under way for a row: each has burned a token and may still
\* record an attempt.
Holders(t) == {c \in Calls : pc[c] \in SubmitPoints /\ target[c] = t}

Spare(t) == IF token[t] = Null THEN 0 ELSE 1

Budget == \A t \in TxIds : attempts[t] + Cardinality(Holders(t)) + Spare(t) <= issued[t]

\* The step spends nothing.
NothingSpent ==
    \A t \in TxIds :
        /\ attempts'[t] = attempts[t] /\ issued'[t] = issued[t]
        /\ token'[t] \in {token[t], Null}
        /\ Holders(t)' \subseteq Holders(t)

\* The step records an attempt for the row of request c, which it ends.
Counts(c) ==
    /\ c \in Holders(target[c])
    /\ attempts' = [attempts EXCEPT ![target[c]] = @ + 1]
    /\ issued' = issued /\ token' = token
    /\ \A t \in TxIds : Holders(t)' = Holders(t) \ {c}

\* Every step spends nothing, records an attempt, issues a token or burns one.
LEMMA SpendingStep ==
  ASSUME Shape, [Next]_vars
  PROVE  \/ NothingSpent
         \/ \E c \in Calls : Counts(c) \/ PrepareIssue(c)
         \/ \E c \in Calls, t \in TxIds, tok \in Nat, p \in Payload :
                SubmitConsume(c, t, tok, p)
<1>. USE ConstantsTyped, NullIsFresh
     DEF Shape, TypeOK, CallShape, Points, SyncPoints, AwaitPoints,
         SubmitPoints, Goto, Return, Accept, Holders
<1>1. ASSUME NEW c \in Calls, NEW t \in TxIds, PrepareRead(c, t)
      PROVE  NothingSpent
  BY <1>1 DEF PrepareRead, NothingSpent
<1>2. ASSUME NEW c \in Calls, PrepareReserve(c) PROVE NothingSpent
  BY <1>2 DEF PrepareReserve, NothingSpent
<1>3. ASSUME NEW c \in Calls, PrepareReserveFails(c) PROVE NothingSpent
  BY <1>3 DEF PrepareReserveFails, NothingSpent
<1>4. ASSUME NEW c \in Calls, PrepareSave(c) PROVE NothingSpent
  BY <1>4 DEF PrepareSave, NothingSpent
<1>5. ASSUME NEW c \in Calls, PrepareIssueFails(c) PROVE NothingSpent
  BY <1>5 DEF PrepareIssueFails, NothingSpent
<1>6. ASSUME NEW c \in Calls, SubmitLoad(c) PROVE NothingSpent
  BY <1>6 DEF SubmitLoad, NothingSpent
<1>7. ASSUME NEW c \in Calls, SubmitClaim(c) PROVE NothingSpent
  BY <1>7 DEF SubmitClaim, NothingSpent
<1>8. ASSUME NEW c \in Calls, SubmitInvalid(c) PROVE Counts(c)
  BY <1>8 DEF SubmitInvalid, Counts
<1>9. ASSUME NEW c \in Calls, SubmitLost(c) PROVE NothingSpent
  BY <1>9 DEF SubmitLost, NothingSpent
<1>10. ASSUME NEW c \in Calls, SendPost(c) PROVE NothingSpent
  BY <1>10 DEF SendPost, NothingSpent
<1>11. ASSUME NEW c \in Calls, SendOk(c) PROVE Counts(c)
  BY <1>11 DEF SendOk, Counts
<1>12. ASSUME NEW c \in Calls, SendRetry(c) PROVE NothingSpent
  BY <1>12 DEF SendRetry, NothingSpent
<1>13. ASSUME NEW c \in Calls, SendGiveUp(c) PROVE Counts(c)
  BY <1>13 DEF SendGiveUp, Counts
<1>14. ASSUME NEW c \in Calls, CancelUpdate(c) PROVE NothingSpent
  BY <1>14 DEF CancelUpdate, NothingSpent
<1>15. ASSUME NEW c \in Calls, NEW t \in TxIds, CancelRevoke(c, t)
       PROVE  NothingSpent
  BY <1>15 DEF CancelRevoke, NothingSpent
<1>16. ASSUME NEW t \in TxIds, TokenExpire(t) PROVE NothingSpent
  BY <1>16 DEF TokenExpire, NothingSpent
<1>17. ASSUME NEW p \in Procs, Crash(p) PROVE NothingSpent
  BY <1>17 DEF Crash, NothingSpent
<1>18. ASSUME NEW p, NodeAccept(p) \/ Mine(p) PROVE NothingSpent
  BY <1>18 DEF NodeAccept, Mine, NothingSpent
<1>19. CASE UNCHANGED vars
  BY <1>19 DEF vars, NothingSpent
<1>20. ASSUME NEW t \in TxIds, NEW tok \in 1..issued[t] PROVE tok \in Nat
  OBVIOUS
<1>21. Signable \subseteq Payload
  BY DEF Signable, Payload
<1>. QED
  BY <1>1, <1>2, <1>3, <1>4, <1>5, <1>6, <1>7, <1>8, <1>9, <1>10, <1>11,
     <1>12, <1>13, <1>14, <1>15, <1>16, <1>17, <1>18, <1>19, <1>20, <1>21
  DEF Next, Step, Request

LEMMA BudgetStep ==
  ASSUME IsFiniteSet(Calls), Shape, Budget, [Next]_vars
  PROVE  Budget'
<1>. SUFFICES ASSUME NEW t \in TxIds
              PROVE  (attempts[t] + Cardinality(Holders(t)) + Spare(t) <= issued[t])'
  BY DEF Budget
<1>1. /\ IsFiniteSet(Holders(t)) /\ Cardinality(Holders(t)) \in Nat
      /\ IsFiniteSet(Holders(t)') /\ Cardinality(Holders(t)') \in Nat
  BY FS_Subset, FS_CardinalityType, Holders(t) \subseteq Calls, Holders(t)' \subseteq Calls
  DEF Holders
<1>2. /\ attempts[t] \in Nat /\ issued[t] \in Nat
      /\ attempts[t] + Cardinality(Holders(t)) + Spare(t) <= issued[t]
  BY DEF Shape, TypeOK, Budget
<1>3. CASE NothingSpent
  <2>1. Cardinality(Holders(t)') <= Cardinality(Holders(t))
    BY <1>1, <1>3, FS_Subset DEF NothingSpent
  <2>2. Spare(t)' <= Spare(t) /\ Spare(t)' \in Nat /\ Spare(t) \in Nat
    BY <1>3 DEF NothingSpent, Spare
  <2>3. attempts'[t] = attempts[t] /\ issued'[t] = issued[t]
    BY <1>3 DEF NothingSpent
  <2>. QED
    BY <1>1, <1>2, <2>1, <2>2, <2>3
<1>4. ASSUME NEW c \in Calls, Counts(c)
      PROVE  (attempts[t] + Cardinality(Holders(t)) + Spare(t) <= issued[t])'
  <2>1. Holders(t)' = Holders(t) \ {c} /\ Spare(t)' = Spare(t) /\ issued'[t] = issued[t]
    BY <1>4 DEF Counts, Spare
  <2>2. Spare(t) \in Nat
    BY DEF Spare
  <2>3. CASE t = target[c]
    <3>1. Cardinality(Holders(t)') = Cardinality(Holders(t)) - 1
      BY <1>1, <1>4, <2>1, <2>3, FS_RemoveElement DEF Counts
    <3>2. attempts'[t] = attempts[t] + 1
      BY <1>4, <2>3 DEF Counts, Shape, TypeOK
    <3>. QED
      BY <1>1, <1>2, <2>1, <2>2, <3>1, <3>2
  <2>4. CASE t # target[c]
    <3>1. Cardinality(Holders(t)') <= Cardinality(Holders(t))
      BY <1>1, <2>1, FS_Subset
    <3>2. attempts'[t] = attempts[t]
      BY <1>4, <2>4 DEF Counts, Shape, TypeOK
    <3>. QED
      BY <1>1, <1>2, <2>1, <2>2, <3>1, <3>2
  <2>. QED
    BY <2>3, <2>4
<1>5. ASSUME NEW c \in Calls, PrepareIssue(c)
      PROVE  (attempts[t] + Cardinality(Holders(t)) + Spare(t) <= issued[t])'
  <2>. USE DEF Shape, TypeOK, CallShape, PrepareIssue, Return, Points, SyncPoints,
               AwaitPoints, SubmitPoints
  <2>1. Holders(t)' = Holders(t)
    BY <1>5 DEF Holders
  <2>2. attempts' = attempts
    BY <1>5
  <2>3. CASE t = target[c]
    BY <1>1, <1>2, <1>5, <2>1, <2>2, <2>3 DEF Spare
  <2>4. CASE t # target[c]
    BY <1>1, <1>2, <1>5, <2>1, <2>2, <2>4 DEF Spare
  <2>. QED
    BY <2>3, <2>4
<1>6. ASSUME NEW c \in Calls, NEW u \in TxIds, NEW tok \in Nat, NEW p \in Payload,
             SubmitConsume(c, u, tok, p)
      PROVE  (attempts[t] + Cardinality(Holders(t)) + Spare(t) <= issued[t])'
  <2>. USE NullIsFresh
       DEF Shape, TypeOK, SubmitConsume, Accept, Points, SyncPoints, AwaitPoints,
           SubmitPoints
  <2>1. attempts' = attempts /\ issued' = issued
    BY <1>6
  <2>2. CASE t = u
    <3>1. c \notin Holders(t) /\ Holders(t)' = Holders(t) \cup {c}
      BY <1>6, <2>2 DEF Holders
    <3>2. Cardinality(Holders(t)') = Cardinality(Holders(t)) + 1
      BY <1>1, <3>1, FS_AddElement
    <3>3. Spare(t) = 1 /\ Spare(t)' = 0
      BY <1>6, <2>2 DEF Spare
    <3>. QED
      BY <1>1, <1>2, <2>1, <3>2, <3>3
  <2>3. CASE t # u
    <3>1. Holders(t)' = Holders(t) /\ Spare(t)' = Spare(t)
      BY <1>6, <2>3 DEF Holders, Spare
    <3>. QED
      BY <1>2, <2>1, <3>1
  <2>. QED
    BY <2>2, <2>3
<1>. QED
  BY <1>3, <1>4, <1>5, <1>6, SpendingStep

LEMMA BudgetInit == Init => Budget
<1>. SUFFICES ASSUME Init, NEW t \in TxIds
              PROVE  attempts[t] + Cardinality(Holders(t)) + Spare(t) <= issued[t]
  BY DEF Budget
<1>1. Holders(t) = {}
  BY DEF Init, Holders, SubmitPoints, AwaitPoints
<1>2. Cardinality(Holders(t)) = 0
  BY <1>1, FS_EmptySet
<1>. QED
  BY <1>2 DEF Init, Spare

LEMMA BudgetAlways ==
  ASSUME IsFiniteSet(Calls) PROVE Spec => [](Shape /\ Budget)
<1>1. Init => Shape /\ Budget
  BY ShapeInit, BudgetInit
<1>2. Shape /\ Budget /\ [Next]_vars => (Shape /\ Budget)'
  BY ShapeStep, BudgetStep
<1>. QED
  BY <1>1, <1>2, PTL DEF Spec

\* A token authorises one attempt: the attempts a row records never exceed the
\* tokens issued for it, whatever expires, is overwritten, fails or crashes.
THEOREM AttemptsWithinTokensHolds ==
  ASSUME IsFiniteSet(Calls) PROVE Spec => []AttemptsWithinTokens
<1>1. Shape /\ Budget => AttemptsWithinTokens
  <2>. SUFFICES ASSUME Shape, Budget, NEW t \in TxIds PROVE attempts[t] <= issued[t]
    BY DEF AttemptsWithinTokens
  <2>1. Cardinality(Holders(t)) \in Nat
    BY FS_Subset, FS_CardinalityType, Holders(t) \subseteq Calls DEF Holders
  <2>2. Spare(t) \in Nat
    BY DEF Spare
  <2>. QED
    BY <2>1, <2>2 DEF Shape, TypeOK, Budget
<1>. QED
  BY <1>1, BudgetAlways, PTL

-----------------------------------------------------------------------------
(* The refinement *)

\* The request may record an attempt: it holds one of the tokens issued.
LEMMA MayRecord ==
  ASSUME IsFiniteSet(Calls), Shape, Budget, NEW c \in Calls, c \in Holders(target[c]),
         target[c] \in TxIds
  PROVE  attempts[target[c]] < issued[target[c]]
<1>. DEFINE t == target[c]
<1>1. IsFiniteSet(Holders(t)) /\ Cardinality(Holders(t)) \in Nat
  BY FS_Subset, FS_CardinalityType, Holders(t) \subseteq Calls DEF Holders
<1>2. Cardinality(Holders(t)) # 0
  BY <1>1, FS_EmptySet
<1>3. Spare(t) \in Nat
  BY DEF Spare
<1>. QED
  BY <1>1, <1>2, <1>3 DEF Shape, TypeOK, Budget

\* Recording an attempt in Execution is recording one in Decision, whether
\* the request held the row's lock or found it free.
LEMMA RecordStep ==
  ASSUME IsFiniteSet(Calls), Shape, Budget, NEW c \in Calls, NEW t \in TxIds,
         t = target[c], SubmitInvalid(c) \/ SendOk(c) \/ SendGiveUp(c)
  PROVE  Promise!Record(t)
<1>. USE DEF Shape, TypeOK, CallShape, LockShape, SubmitPoints, AwaitPoints
<1>1. c \in Holders(target[c])
  BY DEF SubmitInvalid, SendOk, SendGiveUp, Holders
<1>2. attempts[t] < issued[t]
  BY <1>1, MayRecord
<1>3. /\ attempts' = [attempts EXCEPT ![t] = attempts[t] + 1]
      /\ issued' = issued /\ sent' = sent
  BY DEF SubmitInvalid, SendOk, SendGiveUp, redisVars, chainVars
<1>4. {u \in TxIds : lock'[u] # Null} = {u \in TxIds : lock[u] # Null} \ {t}
  <2>1. CASE SubmitInvalid(c)
    BY <2>1 DEF SubmitInvalid
  <2>2. CASE SendOk(c) \/ SendGiveUp(c)
    BY <2>2 DEF SendOk, SendGiveUp
  <2>. QED
    BY <2>1, <2>2
<1>. QED
  BY <1>2, <1>3, <1>4 DEF Promise!Record

LEMMA OneDecision ==
  ASSUME NEW t \in TxIds,
         \/ Promise!Grant(t) \/ Promise!Claim(t) \/ Promise!Post(t)
         \/ Promise!Broadcast(t) \/ Promise!Fail(t) \/ Promise!Cancel(t)
  PROVE  Promise!Next
BY DEF Promise!Next

LEMMA RefinementStep ==
  ASSUME IsFiniteSet(Calls), Shape, Budget, [Next]_vars
  PROVE  [Promise!Next]_(Promise!vars)
<1>1. ASSUME UNCHANGED <<status, issued, attempts, lock, sent>>
      PROVE  UNCHANGED Promise!vars
  BY <1>1 DEF Promise!vars
<1>2. ASSUME NEW c \in Calls, NEW t \in TxIds, t = target[c], PrepareIssue(c)
      PROVE  Promise!Next
  <2>. Promise!Grant(t)
    BY <1>2 DEF PrepareIssue, Promise!Grant, rowVars, chainVars
  <2>. QED
    BY OneDecision
<1>3. ASSUME NEW c \in Calls, NEW t \in TxIds, t = target[c], SubmitClaim(c)
      PROVE  Promise!Next
  <2>1. {u \in TxIds : lock'[u] # Null} = {u \in TxIds : lock[u] # Null} \cup {t}
    BY <1>3, NullIsFresh DEF SubmitClaim, Shape, TypeOK
  <2>2. Promise!Claim(t)
    BY <1>3, <2>1 DEF SubmitClaim, Promise!Claim, redisVars, chainVars
  <2>. QED
    BY <2>2, OneDecision
<1>4. ASSUME NEW c \in Calls, NEW t \in TxIds, t = target[c], SubmitInvalid(c)
      PROVE  Promise!Next
  <2>1. Promise!Record(t)
    BY <1>4, RecordStep
  <2>2. Promise!Fail(t)
    BY <1>4, <2>1 DEF SubmitInvalid, Promise!Fail
  <2>. QED
    BY <2>2, OneDecision
<1>5. ASSUME NEW c \in Calls, NEW t \in TxIds, t = target[c], SendPost(c)
      PROVE  Promise!Next
  <2>1. lock[t] # Null /\ payload[c].tx = t
    BY <1>5, NullIsFresh
    DEF SendPost, Shape, CallShape, LockShape, AwaitPoints, SubmitPoints
  <2>2. {p.tx : p \in sent'} = {p.tx : p \in sent} \cup {t}
    BY <1>5, <2>1 DEF SendPost
  <2>3. Promise!Post(t)
    BY <1>5, <2>1, <2>2 DEF SendPost, Promise!Post, rowVars, redisVars
  <2>. QED
    BY <2>3, OneDecision
<1>6. ASSUME NEW c \in Calls, NEW t \in TxIds, t = target[c], SendOk(c)
      PROVE  Promise!Next
  <2>1. Promise!Record(t)
    BY <1>6, RecordStep
  <2>2. lock[t] # Null
    BY <1>6, NullIsFresh DEF SendOk, Shape, CallShape, AwaitPoints
  <2>3. Promise!Broadcast(t)
    BY <1>6, <2>1, <2>2 DEF SendOk, Promise!Broadcast
  <2>. QED
    BY <2>3, OneDecision
<1>7. ASSUME NEW c \in Calls, NEW t \in TxIds, t = target[c], SendGiveUp(c)
      PROVE  Promise!Next
  <2>1. Promise!Record(t)
    BY <1>7, RecordStep
  <2>2. status[t] = "approved"
    BY <1>7, NullIsFresh DEF SendGiveUp, Shape, CallShape, LockShape, AwaitPoints
  <2>3. Promise!Fail(t)
    BY <1>7, <2>1, <2>2 DEF SendGiveUp, Promise!Fail
  <2>. QED
    BY <2>3, OneDecision
<1>8. ASSUME NEW c \in Calls, NEW t \in TxIds, t = target[c], CancelUpdate(c)
      PROVE  [Promise!Next]_(Promise!vars)
  <2>1. UNCHANGED <<attempts, lock, issued, sent>>
    BY <1>8 DEF CancelUpdate, redisVars, chainVars
  <2>2. CASE status[t] = "approved"
    <3>1. status' = [status EXCEPT ![t] = "cancelled"]
      BY <1>8, <2>2 DEF CancelUpdate
    <3>2. Promise!Cancel(t)
      BY <1>8, <2>1, <2>2, <3>1 DEF CancelUpdate, Promise!Cancel
    <3>. QED
      BY <3>2, OneDecision
  <2>3. CASE status[t] # "approved"
    <3>1. status' = status
      BY <1>8, <2>3 DEF CancelUpdate, Shape, TypeOK
    <3>. QED
      BY <1>1, <2>1, <3>1
  <2>. QED
    BY <2>2, <2>3
<1>9. ASSUME NEW p \in Procs, Crash(p) PROVE Promise!Next
  <2>. DEFINE L == lock'
  <2>. DEFINE S == {t \in TxIds : L[t] = Null}
  <2>1. \A t \in TxIds : L[t] = lock[t] \/ L[t] = Null
    BY <1>9 DEF Crash, Shape, TypeOK
  <2>2. {t \in TxIds : L[t] # Null} = {t \in TxIds : lock[t] # Null} \ S
    BY <1>9 DEF Crash, Shape, TypeOK
  <2>3. PICK F \in SUBSET TxIds : F = S
    OBVIOUS
  <2>4. Promise!Forget(F)
    BY <1>9, <2>2, <2>3 DEF Crash, Promise!Forget, redisVars, chainVars
  <2>. QED
    BY <2>4 DEF Promise!Next
<1>10. \/ UNCHANGED <<status, issued, attempts, lock, sent>>
       \/ \E p \in Procs : Crash(p)
       \/ \E c \in Calls : \/ PrepareIssue(c) \/ SubmitClaim(c) \/ SubmitInvalid(c)
                           \/ SendPost(c) \/ SendOk(c) \/ SendGiveUp(c) \/ CancelUpdate(c)
  <2>1. CASE UNCHANGED vars
    BY <2>1 DEF vars, rowVars, redisVars, chainVars
  <2>2. CASE Next
    BY <2>2 DEF Next, Step, Request, rowVars, redisVars, chainVars, PrepareRead,
         PrepareReserve, PrepareReserveFails, PrepareSave, PrepareIssueFails,
         SubmitConsume, SubmitLoad, SubmitLost, SendRetry, CancelRevoke,
         TokenExpire, NodeAccept, Mine
  <2>. QED
    BY <2>1, <2>2
<1>11. ASSUME NEW c \in Calls,
              \/ PrepareIssue(c) \/ SubmitClaim(c) \/ SubmitInvalid(c)
              \/ SendPost(c) \/ SendOk(c) \/ SendGiveUp(c) \/ CancelUpdate(c)
       PROVE  \E t \in TxIds : t = target[c]
  BY <1>11 DEF Shape, CallShape, PrepareIssue, SubmitClaim, SubmitInvalid,
               SendPost, SendOk, SendGiveUp, CancelUpdate
<1>12. ASSUME NEW c \in Calls,
              \/ PrepareIssue(c) \/ SubmitClaim(c) \/ SubmitInvalid(c)
              \/ SendPost(c) \/ SendOk(c) \/ SendGiveUp(c) \/ CancelUpdate(c)
       PROVE  [Promise!Next]_(Promise!vars)
  <2>1. PICK t \in TxIds : t = target[c]
    BY <1>11, <1>12
  <2>. QED
    BY <1>2, <1>3, <1>4, <1>5, <1>6, <1>7, <1>8, <1>12, <2>1
<1>. QED
  BY <1>1, <1>9, <1>10, <1>12

\* The adapter keeps the promise made of every decision.
THEOREM KeepsPromiseHolds ==
  ASSUME IsFiniteSet(Calls) PROVE Spec => KeepsPromise
<1>1. Init => Promise!Init
  BY DEF Init, Promise!Init
<1>2. Shape /\ Budget /\ [Next]_vars => [Promise!Next]_(Promise!vars)
  BY RefinementStep
<1>. QED
  BY <1>1, <1>2, BudgetAlways, PTL DEF Spec, KeepsPromise, Promise!Spec
=============================================================================
