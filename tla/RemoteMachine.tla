---------------------------- MODULE RemoteMachine ----------------------------
(***************************************************************************)
(* What the Ethernet debugger promises its user, without a network: calls  *)
(* are made one at a time, each WRITE and EXEC takes effect on the target  *)
(* in the order of the calls, an EXEC takes effect at most once ("to avoid *)
(* executing things twice", eth/c-main.c), and a WRITE is reported         *)
(* successful only after it took effect.                                   *)
(*                                                                         *)
(* A call may return before it has any effect and take effect later: a     *)
(* call that gave up does not take its datagrams back.                     *)
(***************************************************************************)
EXTENDS Integers, Sequences

CONSTANTS
    Addr,       \* the blocks of memory
    MaxCalls    \* bound: calls the host makes

VARIABLES
    log,        \* the calls made so far, in order
    outcome,    \* "busy", "ok" or "fail" for each of them
    mem,        \* the target's memory: the number of the WRITE it holds
    effects     \* how often each call took effect

machine == <<log, outcome, mem, effects>>

AbstractCall == [kind : {"TEST", "READ", "WRITE", "EXEC"}, addr : Addr]

last == Len(log)
Pending == last > 0 /\ outcome[last] = "busy"

MachineInit ==
    /\ log = <<>>
    /\ outcome = <<>>
    /\ mem = [a \in Addr |-> 0]
    /\ effects = [k \in 1..MaxCalls |-> 0]

Issue ==
    /\ ~Pending
    /\ last < MaxCalls
    /\ \E c \in AbstractCall : log' = Append(log, c)
    /\ outcome' = Append(outcome, "busy")
    /\ UNCHANGED <<mem, effects>>

(* No call after the k-th has taken effect yet.                            *)
InOrder(k) == \A j \in k + 1..MaxCalls : effects[j] = 0

PerformWrite(k) ==
    /\ log[k].kind = "WRITE"
    /\ InOrder(k)
    /\ mem' = [mem EXCEPT ![log[k].addr] = k]
    /\ effects' = [effects EXCEPT ![k] = @ + 1]
    /\ UNCHANGED <<log, outcome>>

PerformExec(k) ==
    /\ log[k].kind = "EXEC"
    /\ InOrder(k)
    /\ effects[k] = 0
    /\ effects' = [effects EXCEPT ![k] = 1]
    /\ UNCHANGED <<log, outcome, mem>>

ReturnOk ==
    /\ Pending
    /\ log[last].kind = "WRITE" => effects[last] > 0
    /\ outcome' = [outcome EXCEPT ![last] = "ok"]
    /\ UNCHANGED <<log, mem, effects>>

ReturnFail ==
    /\ Pending
    /\ outcome' = [outcome EXCEPT ![last] = "fail"]
    /\ UNCHANGED <<log, mem, effects>>

MachineNext ==
    \/ Issue \/ ReturnOk \/ ReturnFail
    \/ \E k \in 1..last : PerformWrite(k) \/ PerformExec(k)

MachineSpec == MachineInit /\ [][MachineNext]_machine
=============================================================================
