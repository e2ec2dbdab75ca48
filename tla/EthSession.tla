----------------------------- MODULE EthSession -----------------------------
(***************************************************************************)
(* The Ethernet debugger: the host library (comm/e_lib.c) calling the      *)
(* target's UDP handler (net_on_ipv4_udp in eth/c-main.c) over a network.  *)
(*                                                                         *)
(* The host is sequential.  A call sends one datagram, waits 1.25 s, and   *)
(* sends it again on a timeout, at most Retries times.  The target's poll  *)
(* loop handles one datagram at a time and answers it at once.  Replies    *)
(* that come after the call they answer has returned stay in the socket    *)
(* and are read by the next call.                                          *)
(*                                                                         *)
(* A cell of memory stands for a block of at most 1400 bytes.  The data a  *)
(* WRITE carries is the number of the call, so two WRITEs never write the  *)
(* same value.  0 is what a cell holds before the first WRITE.             *)
(***************************************************************************)
EXTENDS Integers, Sequences

CONSTANTS
    Addr,           \* the blocks the host reads, writes and executes
    Lens,           \* the lengths of a READ
    Retries,        \* "retry = 3" in every call of e_lib.c
    Cap,            \* datagrams a queue holds; what comes after is dropped
    SeqSpace,       \* number of values of a uint32_t sequence number
    MaxCalls,       \* bound: calls the host makes
    MaxClock,       \* bound: seconds that pass
    MaxSock,        \* bound: sockets the host opens
    ExecSpacing,    \* seconds between the starts of two EXEC calls
    Timely,         \* a round trip never takes longer than the timeout
    Reordering,     \* the network may deliver datagrams out of order
    MaxDups,        \* bound: datagrams the network delivers twice
    Tails           \* what may follow an EXEC datagram in the rx buffer

(* The byte behind the datagram is not a hexadecimal digit.                *)
NoTail == -1

ASSUME SessionConstants ==
    /\ Addr # {}
    /\ Lens \subseteq Nat /\ Lens # {}
    /\ Retries \in Nat \ {0}
    /\ Cap \in Nat \ {0}
    /\ SeqSpace \in Nat \ {0}
    /\ MaxCalls \in Nat
    /\ MaxClock \in Nat
    /\ MaxSock \in Nat
    /\ ExecSpacing \in Nat
    /\ Timely \in BOOLEAN
    /\ Reordering \in BOOLEAN
    /\ MaxDups \in Nat
    /\ Tails \subseteq {NoTail} \cup 0..15 /\ Tails # {}

VARIABLES
    clock,          \* time(NULL) on the host
    sock,           \* which socket the host has open
    wseq,           \* the static seq of remote_eth_write_block, 0 at first
    issued,         \* the requests of the calls made so far, in order
    outcome,        \* what each call returned: "busy" until it does
    retry,          \* tries the running call has left
    got,            \* the data the last successful READ returned
    toTarget,       \* requests on their way, oldest first
    toHost,         \* replies on their way or waiting in the socket
    dups,           \* how often the network delivered a datagram twice
    mem,            \* the target's memory
    exec_last_seq,  \* the target's guard against executing twice
    effects,        \* history: how often each call took effect on the target
    seen            \* history: contents of a cell since the last good WRITE

hostVars == <<clock, sock, wseq, issued, outcome, retry, got>>
targetVars == <<mem, exec_last_seq, effects>>
vars == <<hostVars, toTarget, toHost, dups, targetVars, seen>>

Kinds == {"TEST", "READ", "WRITE", "EXEC"}
CallId == 1..MaxCalls

Request == [id : CallId, kind : Kinds, addr : Addr, seq : Nat, len : Lens,
            sock : Nat]
Reply == [kind : Kinds, addr : Addr, seq : Nat, len : Lens, data : Nat]

calls == Len(issued)
busy == calls > 0 /\ outcome[calls] = "busy"
op == issued[calls]

Enqueue(q, m) == IF Len(q) < Cap THEN Append(q, m) ELSE q

ExecSeqs == {issued[i].seq : i \in {j \in 1..calls : issued[j].kind = "EXEC"}}

-----------------------------------------------------------------------------
(* The host: one action per call, and what a waiting call may do next.     *)

(* A call stores its request and sends it for the first time.              *)
Begin(r) ==
    /\ ~busy
    /\ calls < MaxCalls
    /\ issued' = Append(issued, r)
    /\ outcome' = Append(outcome, "busy")
    /\ retry' = Retries
    /\ toTarget' = Enqueue(toTarget, r)
    /\ UNCHANGED <<clock, sock, got, toHost, dups, targetVars, seen>>

NewRequest(kind, a, s, n) ==
    [id |-> calls + 1, kind |-> kind, addr |-> a, seq |-> s, len |-> n,
     sock |-> sock]

AnyLen == CHOOSE n \in Lens : TRUE
AnyAddr == CHOOSE a \in Addr : TRUE

remote_eth_test ==
    /\ Begin(NewRequest("TEST", AnyAddr, 0, AnyLen))
    /\ UNCHANGED wseq

remote_eth_read_block(a, n) ==
    /\ Begin(NewRequest("READ", a, 0, n))
    /\ UNCHANGED wseq

(* seq is static: the time of the first call, then one more per call.      *)
NextWriteSeq == IF wseq = 0 THEN clock ELSE wseq + 1

remote_eth_write_block(a) ==
    /\ wseq' = NextWriteSeq
    /\ Begin(NewRequest("WRITE", a, NextWriteSeq, AnyLen))

(* Mutant: the seq of an EXEC never changes.                               *)
NextExecSeqConstant == 1

(* seq is not static: it is the time of the call, whatever came before.    *)
NextExecSeq == clock

remote_eth_exec(a) ==
    /\ \A s \in ExecSeqs : clock >= s + ExecSpacing
    /\ Begin(NewRequest("EXEC", a, NextExecSeq, AnyLen))
    /\ UNCHANGED wseq

Return(res) == outcome' = [outcome EXCEPT ![calls] = res]

(* Mutants: the test for the last try is gone, and the decrement is.       *)
TryAgainPastZero ==
    /\ retry' = retry - 1
    /\ toTarget' = Enqueue(toTarget, op)
    /\ UNCHANGED outcome

TryAgainForever ==
    /\ toTarget' = Enqueue(toTarget, op)
    /\ UNCHANGED <<retry, outcome>>

(* while (--retry != 0): send again, or give up with 0.                    *)
TryAgain ==
    /\ retry' = retry - 1
    /\ \/ /\ retry' # 0
          /\ toTarget' = Enqueue(toTarget, op)
          /\ UNCHANGED outcome
       \/ /\ retry' = 0
          /\ Return("fail")
          /\ UNCHANGED toTarget

(* remote_eth_wait_for_data returns 0 after 1.25 s without a reply.        *)
Timeout ==
    /\ busy
    /\ Timely => toTarget = <<>> /\ toHost = <<>>
    /\ TryAgain
    /\ UNCHANGED <<clock, sock, wseq, issued, got, toHost, dups, targetVars,
                   seen>>

(* Mutants: seq is not compared, the kind of a reply to a READ is not      *)
(* looked at, the comparison of lengths is off by one.                     *)
AcceptsAnySeq(r, p) ==
    \/ r.kind \in {"TEST", "EXEC"}
    \/ p.kind = r.kind /\ p.addr = r.addr /\ p.len >= r.len

AcceptsAnyText(r, p) ==
    \/ r.kind \in {"TEST", "EXEC", "READ"}
    \/ p.kind = "WRITE" /\ p.addr = r.addr /\ p.seq = r.seq

AcceptsLongerOnly(r, p) ==
    \/ r.kind \in {"TEST", "EXEC"}
    \/ r.kind = "WRITE" /\ p.kind = "WRITE" /\ p.addr = r.addr /\ p.seq = r.seq
    \/ r.kind = "READ" /\ p.kind = "READ" /\ p.len > r.len /\ p.addr = r.addr

(* What each call makes of the reply it finds in the socket.  Every reply  *)
(* of the target starts with "OK "; only a READ reply holds a newline.     *)
Accepts(r, p) ==
    \/ r.kind \in {"TEST", "EXEC"}
    \/ /\ r.kind = "WRITE"
       /\ p.kind = "WRITE" /\ p.addr = r.addr /\ p.seq = r.seq
    \/ /\ r.kind = "READ"
       /\ p.kind = "READ" /\ p.len >= r.len /\ p.addr = r.addr

(* read_block alone passes over a reply it does not understand.            *)
Ignores(r, p) == r.kind = "READ" /\ p.kind # "READ"

(* Mutant: the data of a READ reply is not copied out.                     *)
SucceedNoCopy(p) ==
    /\ Accepts(op, p)
    /\ Return("ok")
    /\ seen' = IF op.kind = "WRITE" THEN [a \in Addr |-> {mem[a]}] ELSE seen
    /\ UNCHANGED <<retry, toTarget, got>>

Succeed(p) ==
    /\ Accepts(op, p)
    /\ Return("ok")
    /\ got' = IF op.kind = "READ" THEN p.data ELSE got
    /\ seen' = IF op.kind = "WRITE" THEN [a \in Addr |-> {mem[a]}] ELSE seen
    /\ UNCHANGED <<retry, toTarget>>

Reject(p) ==
    /\ ~Accepts(op, p) /\ ~Ignores(op, p)
    /\ Return("fail")
    /\ UNCHANGED <<retry, toTarget, got, seen>>

Ignore(p) ==
    /\ Ignores(op, p)
    /\ TryAgain
    /\ UNCHANGED <<got, seen>>

recvfrom ==
    /\ busy
    /\ toHost # <<>>
    /\ toHost' = Tail(toHost)
    /\ LET p == Head(toHost) IN Succeed(p) \/ Reject(p) \/ Ignore(p)
    /\ UNCHANGED <<clock, sock, wseq, issued, dups, targetVars>>

(* remote_eth_close and remote_eth_socket: a new run of a host program.    *)
(* Its socket has another port, and its statics start afresh.              *)
Reopen ==
    /\ ~busy
    /\ sock < MaxSock
    /\ sock' = sock + 1
    /\ wseq' = 0
    /\ toHost' = <<>>
    /\ UNCHANGED <<clock, issued, outcome, retry, got, toTarget, dups,
                   targetVars, seen>>

Tick ==
    /\ clock < MaxClock
    /\ clock' = clock + 1
    /\ UNCHANGED <<sock, wseq, issued, outcome, retry, got, toTarget, toHost,
                   dups, targetVars, seen>>

-----------------------------------------------------------------------------
(* The target: the branches of net_on_ipv4_udp for port 777.  The address  *)
(* and port of the sender are those of the datagram, so a reply to a       *)
(* socket that has been closed reaches nobody.                             *)

ReplyTo(m, d) ==
    [kind |-> m.kind, addr |-> m.addr, seq |-> m.seq, len |-> m.len,
     data |-> d]

Answer(m, p) == toHost' = IF m.sock = sock THEN Enqueue(toHost, p) ELSE toHost

(* net_idle takes the oldest datagram from the driver.                     *)
TakeRequest(kind) ==
    /\ toTarget # <<>>
    /\ Head(toTarget).kind = kind
    /\ toTarget' = Tail(toTarget)
    /\ UNCHANGED <<hostVars, dups>>

HandleTest ==
    /\ TakeRequest("TEST")
    /\ Answer(Head(toTarget), ReplyTo(Head(toTarget), 0))
    /\ UNCHANGED <<targetVars, seen>>

HandleRead ==
    LET m == Head(toTarget) IN
    /\ TakeRequest("READ")
    /\ Answer(m, ReplyTo(m, mem[m.addr]))
    /\ UNCHANGED <<targetVars, seen>>

(* Every copy of a WRITE is carried out: its seq is only echoed.           *)
HandleWrite ==
    LET m == Head(toTarget) IN
    /\ TakeRequest("WRITE")
    /\ mem' = [mem EXCEPT ![m.addr] = m.id]
    /\ seen' = [seen EXCEPT ![m.addr] = @ \cup {m.id}]
    /\ effects' = [effects EXCEPT ![m.id] = @ + 1]
    /\ Answer(m, ReplyTo(m, 0))
    /\ UNCHANGED exec_last_seq

(* s_strtoul_hex reads on past the end of the datagram.                    *)
s_strtoul_hex(s, tail) ==
    IF tail = NoTail THEN s ELSE (16 * s + tail) % SeqSpace

(* Mutants: exec_last_seq is not updated, and not compared.                *)
HandleExecNoUpdate ==
    LET m == Head(toTarget) IN
    /\ TakeRequest("EXEC")
    /\ m.seq # exec_last_seq
    /\ effects' = [effects EXCEPT ![m.id] = @ + 1]
    /\ Answer(m, ReplyTo(m, 0))
    /\ UNCHANGED <<mem, exec_last_seq, seen>>

HandleExecAlways ==
    LET m == Head(toTarget) IN
    /\ TakeRequest("EXEC")
    /\ effects' = [effects EXCEPT ![m.id] = @ + 1]
    /\ exec_last_seq' = m.seq
    /\ Answer(m, ReplyTo(m, 0))
    /\ UNCHANGED <<mem, seen>>

HandleExec ==
    LET m == Head(toTarget) IN
    /\ TakeRequest("EXEC")
    /\ \E tail \in Tails :
         LET s == s_strtoul_hex(m.seq, tail) IN
         /\ \/ /\ s # exec_last_seq
               /\ effects' = [effects EXCEPT ![m.id] = @ + 1]
               /\ exec_last_seq' = s
            \/ /\ s = exec_last_seq
               /\ UNCHANGED <<effects, exec_last_seq>>
         /\ Answer(m, [ReplyTo(m, 0) EXCEPT !.seq = s])
    /\ UNCHANGED <<mem, seen>>

-----------------------------------------------------------------------------
(* The network between them.  Delay is the freedom of a step not to happen *)
(* yet.  A datagram that is lost is lost when it is the oldest.            *)

LoseRequest ==
    /\ toTarget # <<>>
    /\ toTarget' = Tail(toTarget)
    /\ UNCHANGED <<hostVars, toHost, dups, targetVars, seen>>

LoseReply ==
    /\ toHost # <<>>
    /\ toHost' = Tail(toHost)
    /\ UNCHANGED <<hostVars, toTarget, dups, targetVars, seen>>

DuplicateRequest ==
    /\ dups < MaxDups
    /\ dups' = dups + 1
    /\ toTarget # <<>>
    /\ Len(toTarget) < Cap
    /\ toTarget' = [i \in 1..Len(toTarget) + 1 |->
                        IF i = 1 THEN toTarget[1] ELSE toTarget[i - 1]]
    /\ UNCHANGED <<hostVars, toHost, targetVars, seen>>

ReorderRequests ==
    /\ Reordering
    /\ \E i \in 1..Len(toTarget) - 1 :
         toTarget' = [toTarget EXCEPT ![i] = toTarget[i + 1],
                                      ![i + 1] = toTarget[i]]
    /\ UNCHANGED <<hostVars, toHost, dups, targetVars, seen>>

-----------------------------------------------------------------------------
Init ==
    /\ clock = 1
    /\ sock = 1
    /\ wseq = 0
    /\ issued = <<>>
    /\ outcome = <<>>
    /\ retry = 0
    /\ got = 0
    /\ toTarget = <<>>
    /\ toHost = <<>>
    /\ dups = 0
    /\ mem = [a \in Addr |-> 0]
    /\ exec_last_seq = SeqSpace - 1
    /\ effects = [k \in CallId |-> 0]
    /\ seen = [a \in Addr |-> {0}]

Call ==
    \/ remote_eth_test
    \/ \E a \in Addr :
         \/ \E n \in Lens : remote_eth_read_block(a, n)
         \/ remote_eth_write_block(a)
         \/ remote_eth_exec(a)

Handle == HandleTest \/ HandleRead \/ HandleWrite \/ HandleExec

Network == LoseRequest \/ LoseReply \/ DuplicateRequest \/ ReorderRequests

Next == Call \/ Timeout \/ recvfrom \/ Reopen \/ Tick \/ Handle \/ Network

Spec == Init /\ [][Next]_vars

(* select() returns after its timeout, and the target's main loop polls    *)
(* the card for ever.  Nothing is assumed of the network.                  *)
FairSpec == Spec /\ WF_vars(Timeout) /\ WF_vars(recvfrom) /\ WF_vars(Handle)

-----------------------------------------------------------------------------
(* What every variable is.                                                 *)
TypeOK ==
    /\ clock \in Nat \ {0}
    /\ sock \in Nat
    /\ wseq \in Nat
    /\ issued \in Seq(Request)
    /\ outcome \in Seq({"busy", "ok", "fail"})
    /\ Len(outcome) = Len(issued)
    /\ retry \in 0..Retries
    /\ got \in Nat
    /\ toTarget \in Seq(Request) /\ Len(toTarget) <= Cap
    /\ toHost \in Seq(Reply) /\ Len(toHost) <= Cap
    /\ dups \in Nat
    /\ mem \in [Addr -> Nat]
    /\ exec_last_seq \in Nat
    /\ effects \in [CallId -> Nat]
    /\ seen \in [Addr -> SUBSET Nat]

CallsThat(k, kind, res) == issued[k].kind = kind /\ outcome[k] = res
Latest(kind, res) == calls > 0 /\ CallsThat(calls, kind, res)

(* The code an EXEC call names is run at most once, however often the call *)
(* sends its datagram and however late the copies arrive: the comment at   *)
(* exec_last_seq in eth/c-main.c.                                          *)
ExecAtMostOnce ==
    \A k \in 1..calls : issued[k].kind = "EXEC" => effects[k] <= 1

(* A block whose WRITE returned 1 holds that data until the host asks for  *)
(* another WRITE to it: no late copy of an older WRITE, which the target   *)
(* would carry out without looking at its seq, can bring old data back.    *)
AckedWriteHolds ==
    \A k \in 1..calls :
        /\ CallsThat(k, "WRITE", "ok")
        /\ \A j \in k + 1..calls :
             ~(issued[j].kind = "WRITE" /\ issued[j].addr = issued[k].addr)
        => mem[issued[k].addr] = k

(* remote_eth_write_block returns 1 only if the target carried out this    *)
(* very call, whatever stale replies were waiting in the socket.           *)
WriteAckIsOwn ==
    \A k \in 1..calls : CallsThat(k, "WRITE", "ok") => effects[k] > 0

(* remote_eth_read_block matches a reply by address only, so it can take a *)
(* reply to an earlier READ.  Still the data it returns was in memory at   *)
(* some time since the last WRITE that returned 1.                         *)
ReadSinceLastAck == Latest("READ", "ok") => got \in seen[op.addr]

(* remote_eth_exec returns 1 only if the target ran the code.              *)
ExecOkMeansExecuted ==
    \A k \in 1..calls : CallsThat(k, "EXEC", "ok") => effects[k] > 0

(* The data remote_eth_read_block returns is what the memory holds.        *)
ReadOkIsCurrent == Latest("READ", "ok") => got = mem[op.addr]

(* A call gives up only when nothing it sent, and no answer, is left on    *)
(* the way: no reply of the target is ever mistaken for a failure.         *)
FailOnlyInSilence ==
    [][busy /\ outcome'[calls] = "fail" => toTarget = <<>> /\ toHost = <<>>]_outcome

(* Every call returns.                                                     *)
CallReturns == busy ~> ~busy

(* The session implements the abstract machine.                            *)
Machine == INSTANCE RemoteMachine WITH
    log <- [k \in 1..calls |-> [kind |-> issued[k].kind,
                                addr |-> issued[k].addr]]

ImplementsMachine == Machine!MachineSpec
=============================================================================
