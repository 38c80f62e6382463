------------------------------ MODULE Execution ------------------------------
(***************************************************************************)
(* The Execution Adapter (services/execution): an approved decision is     *)
(* prepared (a nonce is locked, a single-use decision token is minted),    *)
(* the agent's signed transaction is submitted under that token, and an    *)
(* approved transaction may be cancelled.                                  *)
(*                                                                         *)
(* Every Redis script, every committed SQL statement and every await of    *)
(* the adapter is a step of its own.  Requests run in processes (the Helm  *)
(* chart deploys several replicas); a process is one asyncio event loop,   *)
(* so between two awaits a handler keeps the loop to itself, and that      *)
(* includes the time it spends blocked on a row lock: the SQLAlchemy and   *)
(* Redis clients are synchronous.  The database is PostgreSQL at READ      *)
(* COMMITTED: an UPDATE waits for the row's lock, and its WHERE clause is  *)
(* evaluated on the committed row once the lock is granted.                *)
(***************************************************************************)
EXTENDS Integers, FiniteSets

CONSTANTS
    TxIds,        \* rows of the transactions table, all with decision `approve`
    Wallets,      \* agent wallets
    Wallet,       \* [TxIds -> Wallets]: from_address of a row
    Procs,        \* replicas of the execution service
    Calls,        \* request slots
    Proc,         \* [Calls -> Procs]: the replica that serves a slot
    Prices,       \* gas prices a client may sign with
    Configured,   \* rows whose chain has an RPC provider configured
    StartNonce,   \* [Wallets -> Nat]: the wallet's pending nonce on the chain
    MaxSends,     \* max_broadcast_attempts
    MaxRequests,  \* bound: requests accepted in one behaviour
    MaxCrashes,   \* bound: process crashes in one behaviour
    Null

ASSUME ConstantsTyped ==
    /\ Wallet \in [TxIds -> Wallets]
    /\ Proc \in [Calls -> Procs]
    /\ StartNonce \in [Wallets -> Nat]
    /\ Configured \subseteq TxIds
    /\ MaxSends \in Nat \ {0}
    /\ MaxRequests \in Nat
    /\ MaxCrashes \in Nat

\* Payload is what a client signs: `tx` stands for the screened fields (chain,
\* from, to, value, calldata, gas below the ceiling) of the row it matches.
Payload == [tx : TxIds, nonce : Nat, price : Prices]

ASSUME NullIsFresh ==
    /\ Null \notin Nat
    /\ Null \notin Calls
    /\ Null \notin TxIds
    /\ Null \notin Payload

VARIABLES
    status,      \* committed column transactions.status
    nonce,       \* committed column transactions.nonce
    txHash,      \* committed column transactions.tx_hash: the payload it is the hash of
    attempts,    \* committed column transactions.broadcast_attempts
    lock,        \* row locks: the call whose open transaction updated the row
    token,       \* Redis execution:decision:<id>:token
    issued,      \* number of tokens ever written for a row; token k is the k-th
    counter,     \* Redis nonce:<wallet>:counter
    pc,          \* where a request is
    target,      \* the row a request is about
    payload,     \* the signed payload a submit carries
    seen,        \* the nonce a request has read or reserved
    tries,       \* sends a submit has made
    sent,        \* payloads posted to an RPC node, ever
    accepted,    \* payloads an RPC node took into its pool, ever
    mined,       \* payloads executed on the chain
    chainNonce,  \* next nonce the chain executes for a wallet
    requests,    \* requests accepted so far
    crashes      \* crashes so far

rowVars   == <<status, nonce, txHash, attempts, lock>>
redisVars == <<token, issued, counter>>
callVars  == <<pc, target, payload, seen, tries>>
chainVars == <<sent, accepted, mined, chainNonce>>
vars == <<rowVars, redisVars, callVars, chainVars, requests, crashes>>

\* Points of a handler at which it holds its process's event loop.
SyncPoints == {"reserve", "save", "issue", "load", "claim", "void"}
\* Points at which the handler is suspended in an await.
AwaitPoints == {"send", "await"}
Points == {"idle"} \cup SyncPoints \cup AwaitPoints

TypeOK ==
    /\ status \in [TxIds -> {"approved", "broadcast", "cancelled"}]
    /\ nonce \in [TxIds -> Nat \cup {Null}]
    /\ txHash \in [TxIds -> Payload \cup {Null}]
    /\ attempts \in [TxIds -> Nat]
    /\ lock \in [TxIds -> Calls \cup {Null}]
    /\ token \in [TxIds -> Nat \cup {Null}]
    /\ issued \in [TxIds -> Nat]
    /\ counter \in [Wallets -> Nat]
    /\ pc \in [Calls -> Points]
    /\ target \in [Calls -> TxIds \cup {Null}]
    /\ payload \in [Calls -> Payload \cup {Null}]
    /\ seen \in [Calls -> Nat \cup {Null}]
    /\ tries \in [Calls -> Nat]
    /\ sent \subseteq Payload
    /\ accepted \subseteq Payload
    /\ mined \subseteq Payload
    /\ chainNonce \in [Wallets -> Nat]
    /\ requests \in 0..MaxRequests
    /\ crashes \in 0..MaxCrashes

Init ==
    /\ status = [t \in TxIds |-> "approved"]
    /\ nonce = [t \in TxIds |-> Null]
    /\ txHash = [t \in TxIds |-> Null]
    /\ attempts = [t \in TxIds |-> 0]
    /\ lock = [t \in TxIds |-> Null]
    /\ token = [t \in TxIds |-> Null]
    /\ issued = [t \in TxIds |-> 0]
    /\ counter = [w \in Wallets |-> 0]
    /\ pc = [c \in Calls |-> "idle"]
    /\ target = [c \in Calls |-> Null]
    /\ payload = [c \in Calls |-> Null]
    /\ seen = [c \in Calls |-> Null]
    /\ tries = [c \in Calls |-> 0]
    /\ sent = {} /\ accepted = {} /\ mined = {}
    /\ chainNonce = StartNonce
    /\ requests = 0
    /\ crashes = 0

-----------------------------------------------------------------------------
(* The event loop *)

\* Some handler of process p runs: nothing else in p can take a step.
Busy(p) == \E c \in Calls : Proc[c] = p /\ pc[c] \in SyncPoints

\* A free slot of a process whose loop is free takes a request about row t.
Accept(c, t, point) ==
    /\ pc[c] = "idle"
    /\ ~Busy(Proc[c])
    /\ requests < MaxRequests
    /\ requests' = requests + 1
    /\ pc' = [pc EXCEPT ![c] = point]
    /\ target' = [target EXCEPT ![c] = t]
    /\ UNCHANGED crashes

Goto(c, point) == pc' = [pc EXCEPT ![c] = point]

\* The request is answered, with a result or an error.
Return(c) ==
    /\ pc' = [pc EXCEPT ![c] = "idle"]
    /\ target' = [target EXCEPT ![c] = Null]
    /\ payload' = [payload EXCEPT ![c] = Null]
    /\ seen' = [seen EXCEPT ![c] = Null]
    /\ tries' = [tries EXCEPT ![c] = 0]

-----------------------------------------------------------------------------
(* ExecutionAdapter.prepare *)

\* Mutant: a fresh nonce on every prepare, an earlier reservation forgotten.
PrepareReadMutant(c, t) ==
    /\ status[t] = "approved"
    /\ Accept(c, t, "reserve")
    /\ UNCHANGED <<rowVars, redisVars, payload, seen, tries, chainVars>>

\* Read the row; a row that is not approved is refused (409, nothing changes).
PrepareRead(c, t) ==
    /\ status[t] = "approved"
    /\ Accept(c, t, IF nonce[t] = Null THEN "reserve" ELSE "issue")
    /\ UNCHANGED <<rowVars, redisVars, payload, seen, tries, chainVars>>

\* Mutant: the counter is read but not advanced.
PrepareReserveMutant(c) ==
    /\ pc[c] = "reserve"
    /\ seen' = [seen EXCEPT ![c] = counter[Wallet[target[c]]]]
    /\ Goto(c, "save")
    /\ UNCHANGED <<rowVars, redisVars, target, payload, tries,
                   chainVars, requests, crashes>>

\* The nonce allocator's Lua script.  The adapter is built with the default
\* base-nonce getter, which answers 0, so a missing counter starts at 0.
PrepareReserve(c) ==
    LET w == Wallet[target[c]] IN
    /\ pc[c] = "reserve"
    /\ seen' = [seen EXCEPT ![c] = counter[w]]
    /\ counter' = [counter EXCEPT ![w] = counter[w] + 1]
    /\ Goto(c, "save")
    /\ UNCHANGED <<rowVars, token, issued, target, payload, tries,
                   chainVars, requests, crashes>>

\* A Redis error fails the request; the script may have run all the same.
PrepareReserveFails(c) ==
    LET w == Wallet[target[c]] IN
    /\ pc[c] = "reserve"
    /\ \E step \in {0, 1} : counter' = [counter EXCEPT ![w] = counter[w] + step]
    /\ Return(c)
    /\ UNCHANGED <<rowVars, token, issued, chainVars, requests, crashes>>

\* The ORM flush is UPDATE ... SET nonce WHERE id: it waits for the row lock
\* and does not look at the row again.
PrepareSave(c) ==
    LET t == target[c] IN
    /\ pc[c] = "save"
    /\ lock[t] = Null
    /\ nonce' = [nonce EXCEPT ![t] = seen[c]]
    /\ Goto(c, "issue")
    /\ UNCHANGED <<status, txHash, attempts, lock, redisVars, target, payload,
                   seen, tries, chainVars, requests, crashes>>

\* DecisionTokenStore.issue: SET overwrites whatever token was outstanding.
PrepareIssue(c) ==
    LET t == target[c] IN
    /\ pc[c] = "issue"
    /\ issued' = [issued EXCEPT ![t] = issued[t] + 1]
    /\ token' = [token EXCEPT ![t] = issued[t] + 1]
    /\ Return(c)
    /\ UNCHANGED <<rowVars, counter, chainVars, requests, crashes>>

\* A Redis error before the SET took effect.  (A SET that took effect and
\* whose answer was lost is PrepareIssue with a client that drops the token.)
PrepareIssueFails(c) ==
    /\ pc[c] = "issue"
    /\ Return(c)
    /\ UNCHANGED <<rowVars, redisVars, chainVars, requests, crashes>>

-----------------------------------------------------------------------------
(* ExecutionAdapter.submit *)

\* Mutant: the token is compared and not deleted.
SubmitConsumeMutant(c, t, tok, p) ==
    /\ token[t] = tok
    /\ Accept(c, t, "load")
    /\ payload' = [payload EXCEPT ![c] = p]
    /\ UNCHANGED <<rowVars, redisVars, seen, tries, chainVars>>

\* DecisionTokenStore.consume: compare and delete in one script.  A caller
\* with any other token is refused and nothing changes.
SubmitConsume(c, t, tok, p) ==
    /\ token[t] = tok
    /\ token' = [token EXCEPT ![t] = Null]
    /\ Accept(c, t, "load")
    /\ payload' = [payload EXCEPT ![c] = p]
    /\ UNCHANGED <<rowVars, issued, counter, seen, tries, chainVars>>

\* session.get and the checks on what it returned; the token stays burned.
SubmitLoad(c) ==
    LET t == target[c] IN
    /\ pc[c] = "load"
    /\ IF status[t] = "approved" /\ nonce[t] # Null
       THEN /\ seen' = [seen EXCEPT ![c] = nonce[t]]
            /\ Goto(c, "claim")
            /\ UNCHANGED <<target, payload, tries>>
       ELSE Return(c)
    /\ UNCHANGED <<rowVars, redisVars, chainVars, requests, crashes>>

\* validate_signed_tx against the row and the nonce read at SubmitLoad.
ValidSigned(t, p, reserved) == p.tx = t /\ p.nonce = reserved

\* The payload may be sent for the row the call is about.
MaySend(c) ==
    /\ ValidSigned(target[c], payload[c], seen[c])
    /\ target[c] \in Configured

\* Mutant: the transition is not conditional on the status.
SubmitClaimMutant(c) ==
    LET t == target[c] IN
    /\ pc[c] = "claim"
    /\ lock[t] = Null
    /\ MaySend(c)
    /\ lock' = [lock EXCEPT ![t] = c]
    /\ Goto(c, "send")
    /\ UNCHANGED <<status, nonce, txHash, attempts, redisVars, target, payload,
                   seen, tries, chainVars, requests, crashes>>

\* UPDATE ... SET status = 'broadcasting' WHERE status = 'approved'.  The
\* change is not committed: what others see is the row lock.
SubmitClaim(c) ==
    LET t == target[c] IN
    /\ pc[c] = "claim"
    /\ lock[t] = Null
    /\ status[t] = "approved"
    /\ MaySend(c)
    /\ lock' = [lock EXCEPT ![t] = c]
    /\ Goto(c, "send")
    /\ UNCHANGED <<status, nonce, txHash, attempts, redisVars, target, payload,
                   seen, tries, chainVars, requests, crashes>>

\* The claim succeeds but the payload is refused before anything is sent: the
\* status is put back and the attempt is committed in the same transaction.
SubmitInvalid(c) ==
    LET t == target[c] IN
    /\ pc[c] = "claim"
    /\ lock[t] = Null
    /\ status[t] = "approved"
    /\ ~MaySend(c)
    /\ attempts' = [attempts EXCEPT ![t] = attempts[t] + 1]
    /\ Return(c)
    /\ UNCHANGED <<status, nonce, txHash, lock, redisVars, chainVars,
                   requests, crashes>>

\* The conditional UPDATE matches no row.
SubmitLost(c) ==
    LET t == target[c] IN
    /\ pc[c] = "claim"
    /\ lock[t] = Null
    /\ status[t] # "approved"
    /\ Return(c)
    /\ UNCHANGED <<rowVars, redisVars, chainVars, requests, crashes>>

\* One eth_sendRawTransaction leaves the process; the handler awaits.
SendPost(c) ==
    /\ pc[c] = "send"
    /\ ~Busy(Proc[c])
    /\ sent' = sent \cup {payload[c]}
    /\ tries' = [tries EXCEPT ![c] = tries[c] + 1]
    /\ Goto(c, "await")
    /\ UNCHANGED <<rowVars, redisVars, target, payload, seen,
                   accepted, mined, chainNonce, requests, crashes>>

\* Mutant: a timed-out send is taken for an accepted one.
SendOkMutant(c) ==
    LET t == target[c] IN
    /\ pc[c] = "await"
    /\ ~Busy(Proc[c])
    /\ status' = [status EXCEPT ![t] = "broadcast"]
    /\ txHash' = [txHash EXCEPT ![t] = payload[c]]
    /\ attempts' = [attempts EXCEPT ![t] = attempts[t] + 1]
    /\ lock' = [lock EXCEPT ![t] = Null]
    /\ Return(c)
    /\ UNCHANGED <<nonce, redisVars, chainVars, requests, crashes>>

\* The node answered with a hash: the row becomes `broadcast` and commits.
SendOk(c) ==
    LET t == target[c] IN
    /\ pc[c] = "await"
    /\ ~Busy(Proc[c])
    /\ payload[c] \in accepted
    /\ status' = [status EXCEPT ![t] = "broadcast"]
    /\ txHash' = [txHash EXCEPT ![t] = payload[c]]
    /\ attempts' = [attempts EXCEPT ![t] = attempts[t] + 1]
    /\ lock' = [lock EXCEPT ![t] = Null]
    /\ Return(c)
    /\ UNCHANGED <<nonce, redisVars, chainVars, requests, crashes>>

\* RPCError (refused, timed out, answer lost) with attempts left: back off.
SendRetry(c) ==
    /\ pc[c] = "await"
    /\ ~Busy(Proc[c])
    /\ tries[c] < MaxSends
    /\ Goto(c, "send")
    /\ UNCHANGED <<rowVars, redisVars, target, payload, seen, tries,
                   chainVars, requests, crashes>>

\* Mutant: the whole transaction is rolled back, the attempt with it.
SendGiveUpMutant(c) ==
    /\ pc[c] = "await"
    /\ ~Busy(Proc[c])
    /\ tries[c] >= MaxSends
    /\ lock' = [lock EXCEPT ![target[c]] = Null]
    /\ Return(c)
    /\ UNCHANGED <<status, nonce, txHash, attempts, redisVars, chainVars,
                   requests, crashes>>

\* RPCError on the last attempt: the row reverts to `approved` and the
\* attempt counter commits with it.
SendGiveUp(c) ==
    LET t == target[c] IN
    /\ pc[c] = "await"
    /\ ~Busy(Proc[c])
    /\ tries[c] >= MaxSends
    /\ attempts' = [attempts EXCEPT ![t] = attempts[t] + 1]
    /\ lock' = [lock EXCEPT ![t] = Null]
    /\ Return(c)
    /\ UNCHANGED <<status, nonce, txHash, redisVars, chainVars,
                   requests, crashes>>

-----------------------------------------------------------------------------
(* ExecutionAdapter.cancel *)

\* DecisionTokenStore.revoke, before the row is looked at.
CancelRevoke(c, t) ==
    /\ token' = [token EXCEPT ![t] = Null]
    /\ Accept(c, t, "void")
    /\ UNCHANGED <<rowVars, issued, counter, payload, seen, tries, chainVars>>

\* Mutant: the row gets the status of a policy rejection.
CancelUpdateMutant(c) ==
    LET t == target[c] IN
    /\ pc[c] = "void"
    /\ lock[t] = Null
    /\ status' = [status EXCEPT ![t] = IF @ = "approved" THEN "rejected" ELSE @]
    /\ Return(c)
    /\ UNCHANGED <<nonce, txHash, attempts, lock, redisVars, chainVars,
                   requests, crashes>>

\* UPDATE ... SET status = 'cancelled' WHERE status = 'approved'; COMMIT.
CancelUpdate(c) ==
    LET t == target[c] IN
    /\ pc[c] = "void"
    /\ lock[t] = Null
    /\ status' = [status EXCEPT ![t] = IF @ = "approved" THEN "cancelled" ELSE @]
    /\ Return(c)
    /\ UNCHANGED <<nonce, txHash, attempts, lock, redisVars, chainVars,
                   requests, crashes>>

-----------------------------------------------------------------------------
(* Redis, the processes and the chain *)

\* A token's time to live ends, or a consume whose answer was lost took it.
TokenExpire(t) ==
    /\ token[t] # Null
    /\ token' = [token EXCEPT ![t] = Null]
    /\ UNCHANGED <<rowVars, issued, counter, callVars, chainVars,
                   requests, crashes>>

\* A process dies and restarts: its requests are gone and PostgreSQL rolls
\* their open transactions back.
Crash(p) ==
    LET Dead(c) == Proc[c] = p IN
    /\ crashes < MaxCrashes
    /\ crashes' = crashes + 1
    /\ pc' = [c \in Calls |-> IF Dead(c) THEN "idle" ELSE pc[c]]
    /\ target' = [c \in Calls |-> IF Dead(c) THEN Null ELSE target[c]]
    /\ payload' = [c \in Calls |-> IF Dead(c) THEN Null ELSE payload[c]]
    /\ seen' = [c \in Calls |-> IF Dead(c) THEN Null ELSE seen[c]]
    /\ tries' = [c \in Calls |-> IF Dead(c) THEN 0 ELSE tries[c]]
    /\ lock' = [t \in TxIds |-> IF lock[t] \in Calls /\ Dead(lock[t])
                                THEN Null ELSE lock[t]]
    /\ UNCHANGED <<status, nonce, txHash, attempts, redisVars, chainVars, requests>>

\* A node takes a posted payload, possibly long after it was posted.
NodeAccept(p) ==
    /\ p \notin accepted
    /\ p.nonce >= chainNonce[Wallet[p.tx]]
    /\ accepted' = accepted \cup {p}
    /\ UNCHANGED <<rowVars, redisVars, callVars, sent, mined, chainNonce,
                   requests, crashes>>

\* The chain executes a wallet's transactions in nonce order, one per nonce.
Mine(p) ==
    LET w == Wallet[p.tx] IN
    /\ p.nonce = chainNonce[w]
    /\ mined' = mined \cup {p}
    /\ chainNonce' = [chainNonce EXCEPT ![w] = chainNonce[w] + 1]
    /\ UNCHANGED <<rowVars, redisVars, callVars, sent, accepted,
                   requests, crashes>>

-----------------------------------------------------------------------------
\* What a request does once it has been accepted.
Step(c) ==
    \/ PrepareReserve(c) \/ PrepareReserveFails(c) \/ PrepareSave(c)
    \/ PrepareIssue(c) \/ PrepareIssueFails(c)
    \/ SubmitLoad(c) \/ SubmitClaim(c) \/ SubmitInvalid(c) \/ SubmitLost(c)
    \/ SendPost(c) \/ SendOk(c) \/ SendRetry(c) \/ SendGiveUp(c)
    \/ CancelUpdate(c)

\* What clients sign in a bounded behaviour: no wallet is given more nonces
\* than there are requests.
Signable == [tx : TxIds, nonce : 0..(MaxRequests - 1), price : Prices]

Request(c, t) ==
    \/ PrepareRead(c, t)
    \/ \E tok \in 1..issued[t], p \in Signable : SubmitConsume(c, t, tok, p)
    \/ CancelRevoke(c, t)

Next ==
    \/ \E c \in Calls : Step(c)
    \/ \E c \in Calls, t \in TxIds : Request(c, t)
    \/ \E t \in TxIds : TokenExpire(t)
    \/ \E p \in Procs : Crash(p)
    \/ \E p \in sent : NodeAccept(p)
    \/ \E p \in accepted : Mine(p)

Spec == Init /\ [][Next]_vars

\* The event loop serves its ready callbacks in order and PostgreSQL queues
\* the waiters of a row lock; the HTTP client's timeout ends every await.
FairSpec == Spec /\ \A c \in Calls : SF_vars(Step(c))

-----------------------------------------------------------------------------
(* Properties *)

\* FR-CHAIN-03: two decisions of one wallet never put the same nonce on the
\* wire, whichever replicas prepared and submitted them and whichever crashed.
NoNonceCollision ==
    \A p, q \in sent :
        p.tx # q.tx /\ Wallet[p.tx] = Wallet[q.tx] => p.nonce # q.nonce

\* A token authorises one attempt: the attempts the row records never exceed
\* the tokens issued for it.
AttemptsWithinTokens == \A t \in TxIds : attempts[t] <= issued[t]

\* The attempt counter survives every failure short of a crash: once no submit
\* is in flight, a row whose payload left the process has counted it.
SentIsCounted ==
    \A t \in TxIds :
        (crashes = 0 /\ lock[t] = Null /\ \E p \in sent : p.tx = t)
            => attempts[t] > 0

\* A cancel that was answered with success is final: the row stays cancelled
\* and nothing more is posted for it.
CancelIsFinal ==
    [][\A t \in TxIds :
          status[t] = "cancelled" =>
              /\ status'[t] = "cancelled"
              /\ \A p \in sent' \ sent : p.tx # t]_vars

\* One decision is executed on the chain at most once, whatever is lost,
\* retried, prepared again or resubmitted.
AtMostOneMined == \A p, q \in mined : p.tx = q.tx => p = q

\* A row that says `broadcast` names a payload that a node did accept, and that
\* payload carries the nonce the row holds.
BroadcastMatchesRow ==
    \A t \in TxIds :
        status[t] = "broadcast" =>
            /\ txHash[t] \in accepted
            /\ txHash[t].tx = t
            /\ txHash[t].nonce = nonce[t]

\* Tokens, locks and nonces implement the promise made of a decision: the row
\* lock is the attempt under way, the token the authorisation, and the row's
\* status and attempts are the decision's (executor.py: submit, cancel).
Promise == INSTANCE Decision WITH
    Decisions <- TxIds, state <- status, granted <- issued, counted <- attempts,
    sending <- {t \in TxIds : lock[t] # Null}, posted <- {p.tx : p \in sent}

KeepsPromise == Promise!Spec

\* Every request is answered.
CallsReturn == \A c \in Calls : pc[c] # "idle" ~> pc[c] = "idle"
=============================================================================
