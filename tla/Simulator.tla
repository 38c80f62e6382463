------------------------------ MODULE Simulator ------------------------------
(***************************************************************************)
(* Fork-per-request simulation (services/blockchain: simulate.py,          *)
(* simulator.py, gas.py, and rpc.py with a single endpoint).  A simulation *)
(* starts an anvil process on a port it believes free, waits until         *)
(* something answers there, makes its calls and takes the process down,    *)
(* also when the pipeline's budget for the stage cancels it.  The budget   *)
(* may also end its wait for the process, which is then never killed.      *)
(***************************************************************************)
EXTENDS Integers

CONSTANTS
    Sims,       \* simulations, one per screening
    Ports,      \* local ports
    Gases,      \* raw gas a transaction may need
    Ceilings,   \* gas ceilings of a policy; Null when it has none
    MaxFaults,  \* bound: RPC and process failures in one behaviour
    Null

SimulatorConstants ==
    /\ Gases \subseteq Nat /\ Ceilings \subseteq Nat \cup {Null} /\ MaxFaults \in Nat
    /\ Null \notin Nat \cup Sims

VARIABLES
    tx,        \* what the chain would do: reverts or not, raw gas, the ceiling
    pc,        \* where a simulation is; "cut" if the budget ended its wait in `finally`
    port,      \* the port it picked
    alive,     \* simulations whose anvil process runs
    listener,  \* the simulation whose process listens on a port
    status,    \* of the eth_call
    gas,       \* raw estimate, 0 when there is none
    result,    \* what the simulation returned
    faults

vars == <<tx, pc, port, alive, listener, status, gas, result, faults>>

Init ==
    /\ tx \in [Sims -> [reverts : BOOLEAN, gas : Gases, ceiling : Ceilings]]
    /\ pc = [s \in Sims |-> "idle"]
    /\ port = [s \in Sims |-> Null]
    /\ alive = {}
    /\ listener = [p \in Ports |-> Null]
    /\ status = [s \in Sims |-> Null]
    /\ gas = [s \in Sims |-> 0]
    /\ result = [s \in Sims |-> Null]
    /\ faults = 0

Goto(s, point) == pc' = [pc EXCEPT ![s] = point]
Answer(s, r) == result' = [result EXCEPT ![s] = r]
Fault == faults < MaxFaults /\ faults' = faults + 1

\* gas_with_buffer: 20 per cent, rounded down.
Buffered(raw) == raw + (raw * 20) \div 100

-----------------------------------------------------------------------------
(* The process *)

\* _pick_port and Popen: a port nobody listens on yet.
Start(s) ==
    /\ pc[s] = "idle"
    /\ \E p \in Ports :
          /\ listener[p] = Null
          /\ port' = [port EXCEPT ![s] = p]
    /\ alive' = alive \cup {s}
    /\ Goto(s, "ready")
    /\ UNCHANGED <<tx, listener, status, gas, result, faults>>

\* No anvil, or no provider to fork from: an error before anything starts.
NoBackend(s) ==
    /\ pc[s] = "idle"
    /\ Fault
    /\ Answer(s, "error")
    /\ Goto(s, "done")
    /\ UNCHANGED <<tx, port, alive, listener, status, gas>>

\* anvil binds its port, or exits because another one has it.
Bind(s) ==
    /\ s \in alive
    /\ \A p \in Ports : listener[p] # s
    /\ IF listener[port[s]] = Null
       THEN listener' = [listener EXCEPT ![port[s]] = s] /\ UNCHANGED alive
       ELSE alive' = alive \ {s} /\ UNCHANGED listener
    /\ UNCHANGED <<tx, pc, port, status, gas, result, faults>>

Freed(s) == [p \in Ports |-> IF listener[p] = s THEN Null ELSE listener[p]]

\* anvil dies on its own.
Dies(s) ==
    /\ s \in alive
    /\ Fault
    /\ alive' = alive \ {s}
    /\ listener' = Freed(s)
    /\ UNCHANGED <<tx, pc, port, status, gas, result>>

-----------------------------------------------------------------------------
(* The calls *)

Reachable(s) == listener[port[s]] # Null

\* _wait_ready: whoever answers on the port.
Ready(s) ==
    /\ pc[s] = "ready"
    /\ Reachable(s)
    /\ Goto(s, "call")
    /\ UNCHANGED <<tx, port, alive, listener, status, gas, result, faults>>

\* Thirty attempts without an answer: the error is reported.
NotReady(s) ==
    /\ pc[s] = "ready"
    /\ ~Reachable(s)
    /\ Answer(s, "error")
    /\ Goto(s, "reap")
    /\ UNCHANGED <<tx, port, alive, listener, status, gas, faults>>

\* A call is answered, or fails: nobody listens, or a fault of the provider
\* behind the fork.
Answered(s) == Reachable(s) /\ UNCHANGED faults
Unanswered(s) == IF Reachable(s) THEN Fault ELSE UNCHANGED faults

\* eth_call: every error counts as a revert.
CallStatus(s, reverts) == IF reverts THEN "reverted" ELSE "success"

EthCall(s) ==
    /\ pc[s] = "call"
    /\ \/ Answered(s) /\ status' = [status EXCEPT ![s] = CallStatus(s, tx[s].reverts)]
       \/ Unanswered(s) /\ status' = [status EXCEPT ![s] = "reverted"]
    /\ Goto(s, "gas")
    /\ UNCHANGED <<tx, port, alive, listener, gas, result>>

\* eth_estimateGas: every error, a revert included, is an estimate of 0.
EstimateGas(s) ==
    /\ pc[s] = "gas"
    /\ \/ /\ Answered(s)
          /\ gas' = [gas EXCEPT ![s] = IF tx[s].reverts THEN 0 ELSE tx[s].gas]
       \/ Unanswered(s) /\ UNCHANGED gas
    /\ Goto(s, "trace")
    /\ UNCHANGED <<tx, port, alive, listener, status, result>>

OverCeiling(raw, ceiling) == ceiling # Null /\ Buffered(raw) > ceiling

\* debug_traceCall, answered or not, changes nothing of the answer: the tracer
\* is asked for the state before the call and the fork executes nothing, so
\* there is no difference to report.
Report(s) ==
    /\ pc[s] = "trace"
    /\ Answered(s) \/ Unanswered(s)
    /\ Answer(s, IF OverCeiling(gas[s], tx[s].ceiling) THEN "error" ELSE status[s])
    /\ Goto(s, "reap")
    /\ UNCHANGED <<tx, port, alive, listener, status, gas>>

\* Mutant: the process is taken down on the ordinary path only.
CancelMutant(s) ==
    /\ pc[s] \in {"ready", "call", "gas", "trace"}
    /\ Answer(s, "cancelled")
    /\ Goto(s, "done")
    /\ UNCHANGED <<tx, port, alive, listener, status, gas, faults>>

\* The stage's budget runs out at one of the awaits of the calls.
Cancel(s) ==
    /\ pc[s] \in {"ready", "call", "gas", "trace"}
    /\ Answer(s, "cancelled")
    /\ Goto(s, "reap")
    /\ UNCHANGED <<tx, port, alive, listener, status, gas, faults>>

-----------------------------------------------------------------------------
(* finally: the process is told to terminate, and awaited for five seconds *)

\* It obeys, sooner or later or never.
Exits(s) ==
    /\ pc[s] \in {"reap", "cut"}
    /\ s \in alive
    /\ alive' = alive \ {s}
    /\ listener' = Freed(s)
    /\ UNCHANGED <<tx, pc, port, status, gas, result, faults>>

Reaped(s) ==
    /\ pc[s] = "reap" /\ s \notin alive
    /\ Goto(s, "done")
    /\ UNCHANGED <<tx, port, alive, listener, status, gas, result, faults>>

\* The five seconds are over.
Kill(s) ==
    /\ pc[s] = "reap" /\ s \in alive
    /\ alive' = alive \ {s}
    /\ listener' = Freed(s)
    /\ Goto(s, "done")
    /\ UNCHANGED <<tx, port, status, gas, result, faults>>

\* The budget, which cancels once, runs out during this wait: a cancellation
\* is no Exception, so the handler that kills is skipped.
CancelReap(s) ==
    /\ pc[s] = "reap" /\ result[s] # "cancelled"
    /\ Answer(s, "cancelled")
    /\ Goto(s, "cut")
    /\ UNCHANGED <<tx, port, alive, listener, status, gas, faults>>

Next ==
    \E s \in Sims :
        \/ Start(s) \/ NoBackend(s) \/ Bind(s) \/ Dies(s)
        \/ Ready(s) \/ NotReady(s) \/ EthCall(s) \/ EstimateGas(s) \/ Report(s)
        \/ Cancel(s) \/ Exits(s) \/ Reaped(s) \/ Kill(s) \/ CancelReap(s)

Spec == Init /\ [][Next]_vars

-----------------------------------------------------------------------------
(* Properties *)

\* A simulation that is over leaves its anvil process running, or its port
\* taken, only if the budget ended its wait in `finally`; however else it ended
\* and whoever picked the same port.
ForkLeftOnlyIfCut ==
    \A s \in Sims :
        (pc[s] \in {"done", "cut"} /\ (s \in alive \/ \E p \in Ports : listener[p] = s))
            => pc[s] = "cut"

\* simulate.py:3-5: "any backend failure (missing anvil, RPC error, gas
\* ceiling exceeded) is surfaced as a structured `status="error"` result with a
\* reason - never a silent success".
CeilingNeverPassed ==
    \A s \in Sims :
        (result[s] = "success" /\ tx[s].ceiling # Null)
            => Buffered(tx[s].gas) <= tx[s].ceiling
=============================================================================
