-------------------------- MODULE EthSessionProofs --------------------------
(***************************************************************************)
(* Proofs about EthSession for every value of its constants: any number of *)
(* blocks, calls, tries and queued datagrams, and a network that delays,   *)
(* loses and duplicates.                                                   *)
(***************************************************************************)
EXTENDS EthSession, TLAPS

(***************************************************************************)
(* The network keeps the order of requests, and no hexadecimal digit       *)
(* follows an EXEC datagram in the receive buffer.                         *)
(***************************************************************************)
Fifo == Reordering = FALSE /\ Tails = {NoTail}

(* The log numbers the calls, and every request on its way is in it.       *)
Numbered == \A k \in 1..calls : issued[k].id = k

Known ==
    \A i \in 1..Len(toTarget) :
        /\ toTarget[i].id \in 1..calls
        /\ toTarget[i] = issued[toTarget[i].id]

(* A call that has not been made has had no effect.                        *)
Unissued == \A j \in CallId : j > calls => effects[j] = 0

(* Requests arrive in the order of the calls, and none of them is older    *)
(* than a call that already took effect.                                   *)
Ordered ==
    \A i, j \in 1..Len(toTarget) : i <= j => toTarget[i].id <= toTarget[j].id

NotYet ==
    \A i \in 1..Len(toTarget), j \in CallId :
        j > toTarget[i].id => effects[j] = 0

(* While a copy of an executed EXEC can still arrive, or be sent, its seq  *)
(* is the one the target remembers.                                        *)
Guarded ==
    \A i \in 1..Len(toTarget) :
        toTarget[i].kind = "EXEC" /\ effects[toTarget[i].id] > 0
            => exec_last_seq = toTarget[i].seq

GuardedOp ==
    calls > 0 /\ issued[calls].kind = "EXEC" /\ effects[calls] > 0
        => exec_last_seq = issued[calls].seq

LogInv == TypeOK /\ Numbered /\ Known /\ Unissued
OnceInv == LogInv /\ Ordered /\ NotYet /\ Guarded /\ GuardedOp /\ ExecAtMostOnce

(* Two WRITEs of one socket have different seqs, growing in the order of   *)
(* the calls: seq is static and the socket lives as long as it.            *)
SeqsGrow ==
    \A j, k \in 1..calls :
        /\ j < k
        /\ issued[j].kind = "WRITE" /\ issued[k].kind = "WRITE"
        /\ issued[j].sock = issued[k].sock
        => issued[j].seq < issued[k].seq

SeqsBelow ==
    \A k \in 1..calls :
        /\ issued[k].sock <= sock
        /\ issued[k].kind = "WRITE" /\ issued[k].sock = sock
             => wseq > 0 /\ issued[k].seq <= wseq

(* Every reply to a WRITE answers a call of this socket that took effect.  *)
RepliesOwn ==
    \A i \in 1..Len(toHost) :
        toHost[i].kind = "WRITE" =>
            \E k \in 1..calls :
                /\ issued[k].kind = "WRITE" /\ effects[k] > 0
                /\ issued[k].addr = toHost[i].addr
                /\ issued[k].seq = toHost[i].seq
                /\ issued[k].sock = sock

(* The socket is not replaced while a call is waiting on it.               *)
OwnSocket == busy => op.sock = sock

AckInv ==
    LogInv /\ SeqsGrow /\ SeqsBelow /\ OwnSocket /\ RepliesOwn /\ WriteAckIsOwn

(* A block holds the data of the last WRITE to it that took effect.        *)
MemLatest ==
    \A k \in 1..calls :
        /\ issued[k].kind = "WRITE" /\ effects[k] > 0
        /\ \A j \in k + 1..calls :
             issued[j].kind = "WRITE" /\ issued[j].addr = issued[k].addr
                 => effects[j] = 0
        => mem[issued[k].addr] = k

-----------------------------------------------------------------------------
(* What a queue holds after a datagram joins it.                           *)
LEMMA EnqueueFacts ==
    ASSUME NEW S, NEW q \in Seq(S), Len(q) <= Cap, NEW m \in S
    PROVE  /\ Enqueue(q, m) \in Seq(S)
           /\ Len(Enqueue(q, m)) <= Cap
           /\ \A i \in 1..Len(Enqueue(q, m)) :
                \/ i \in 1..Len(q) /\ Enqueue(q, m)[i] = q[i]
                \/ i = Len(q) + 1 /\ Enqueue(q, m)[i] = m
  BY SessionConstants DEF Enqueue

(* What it holds after the oldest leaves.                                  *)
LEMMA TailFacts ==
    ASSUME NEW S, NEW q \in Seq(S), q # <<>>
    PROVE  /\ Tail(q) \in Seq(S)
           /\ Len(Tail(q)) = Len(q) - 1
           /\ Len(q) >= 1
           /\ Head(q) = q[1] /\ q[1] \in S
           /\ \A i \in 1..Len(Tail(q)) :
                i + 1 \in 1..Len(q) /\ Tail(q)[i] = q[i + 1]
  OBVIOUS

(* What the network's copy of the oldest datagram leaves in the queue.     *)
LEMMA DuplicateFacts ==
    ASSUME NEW S, NEW q \in Seq(S), q # <<>>, NEW r,
           r = [i \in 1..Len(q) + 1 |-> IF i = 1 THEN q[1] ELSE q[i - 1]]
    PROVE  /\ r \in Seq(S)
           /\ Len(r) = Len(q) + 1
           /\ \A i \in 1..Len(r) :
                \/ i = 1 /\ r[i] = q[1] /\ 1 \in 1..Len(q)
                \/ i - 1 \in 1..Len(q) /\ r[i] = q[i - 1] /\ i # 1
  OBVIOUS

-----------------------------------------------------------------------------
(* The request a call sends.                                               *)
LEMMA RequestType ==
    ASSUME TypeOK, calls < MaxCalls, NEW kind \in Kinds, NEW a \in Addr,
           NEW s \in Nat, NEW n \in Lens
    PROVE  NewRequest(kind, a, s, n) \in Request
  BY SessionConstants DEF TypeOK, NewRequest, Request, CallId, calls

(* The choices that stand for "any" length and block.                      *)
LEMMA AnyTypes == AnyLen \in Lens /\ AnyAddr \in Addr
  BY SessionConstants DEF AnyLen, AnyAddr

LEMMA BeginType ==
    ASSUME TypeOK, NEW r \in Request, Begin(r), wseq' \in Nat
    PROVE  TypeOK'
<1>1. /\ issued' \in Seq(Request) /\ outcome' \in Seq({"busy", "ok", "fail"})
      /\ Len(outcome') = Len(issued')
  BY DEF TypeOK, Begin
<1>2. toTarget' \in Seq(Request) /\ Len(toTarget') <= Cap
  BY EnqueueFacts DEF TypeOK, Begin
<1> QED
  BY <1>1, <1>2, SessionConstants DEF TypeOK, Begin, targetVars

(* Storing what a call returns keeps the log of outcomes one, and ends it. *)
LEMMA ReturnType ==
    ASSUME TypeOK, busy, NEW res \in {"ok", "fail"}, Return(res)
    PROVE  /\ outcome' \in Seq({"busy", "ok", "fail"})
           /\ Len(outcome') = Len(outcome)
           /\ outcome'[calls] = res
           /\ \A k \in 1..calls : k # calls => outcome'[k] = outcome[k]
<1>1. calls \in 1..Len(outcome) /\ outcome \in Seq({"busy", "ok", "fail"})
  BY DEF TypeOK, busy, calls
<1> QED
  BY <1>1 DEF Return, TypeOK, calls

(* A retry keeps the types of what it changes.                             *)
LEMMA TryAgainType ==
    ASSUME TypeOK, busy, TryAgain, retry # 0
    PROVE  /\ retry' \in 0..Retries
           /\ toTarget' \in Seq(Request) /\ Len(toTarget') <= Cap
           /\ outcome' \in Seq({"busy", "ok", "fail"})
           /\ Len(outcome') = Len(outcome)
<1>1. op \in Request /\ calls \in 1..Len(outcome)
  BY DEF TypeOK, op, calls, busy
<1>2. retry' \in 0..Retries
  BY SessionConstants DEF TypeOK, TryAgain
<1>3. CASE retry' # 0
  <2>1. toTarget' = Enqueue(toTarget, op) /\ outcome' = outcome
    BY <1>3 DEF TryAgain
  <2>2. toTarget' \in Seq(Request) /\ Len(toTarget') <= Cap
    BY <1>1, <2>1, EnqueueFacts DEF TypeOK
  <2> QED
    BY <1>2, <2>1, <2>2 DEF TypeOK
<1>4. CASE retry' = 0
  <2>1. Return("fail") /\ toTarget' = toTarget
    BY <1>4 DEF TryAgain
  <2> QED
    BY <1>2, <2>1, ReturnType DEF TypeOK
<1> QED
  BY <1>3, <1>4

(* A running call has a try left: what keeps the retry counter above zero. *)
TriesLeft == busy => retry > 0

LEMMA TryAgainLeaves ==
    ASSUME TypeOK, busy, TryAgain, issued' = issued
    PROVE  TriesLeft' \/ retry = 0
  BY ReturnType, SessionConstants DEF TypeOK, TryAgain, TriesLeft, busy, calls

(* Answering a datagram keeps the type of the reply queue.                 *)
LEMMA AnswerType ==
    ASSUME TypeOK, NEW m \in Request, NEW d \in Nat, NEW s \in Nat,
           Answer(m, [ReplyTo(m, d) EXCEPT !.seq = s])
    PROVE  toHost' \in Seq(Reply) /\ Len(toHost') <= Cap
<1>1. [ReplyTo(m, d) EXCEPT !.seq = s] \in Reply
  BY DEF ReplyTo, Request, Reply
<1> QED
  BY <1>1, EnqueueFacts DEF TypeOK, Answer

LEMMA PlainAnswerType ==
    ASSUME TypeOK, NEW m \in Request, NEW d \in Nat, Answer(m, ReplyTo(m, d))
    PROVE  toHost' \in Seq(Reply) /\ Len(toHost') <= Cap
<1>1. ReplyTo(m, d) \in Reply
  BY DEF ReplyTo, Request, Reply
<1> QED
  BY <1>1, EnqueueFacts DEF TypeOK, Answer

(* The request net_idle takes, and the queue it leaves.                    *)
LEMMA TakeType ==
    ASSUME TypeOK, NEW kind, TakeRequest(kind)
    PROVE  /\ Head(toTarget) \in Request
           /\ Head(toTarget) = toTarget[1] /\ toTarget[1].kind = kind
           /\ 1 \in 1..Len(toTarget)
           /\ toTarget' \in Seq(Request) /\ Len(toTarget') <= Cap
           /\ Len(toTarget') = Len(toTarget) - 1
           /\ \A i \in 1..Len(toTarget') :
                i + 1 \in 1..Len(toTarget) /\ toTarget'[i] = toTarget[i + 1]
           /\ UNCHANGED <<hostVars, dups>>
<1>1. toTarget \in Seq(Request) /\ toTarget # <<>> /\ Len(toTarget) <= Cap
  BY DEF TypeOK, TakeRequest
<1>2. /\ toTarget' = Tail(toTarget) /\ Head(toTarget).kind = kind
      /\ UNCHANGED <<hostVars, dups>>
  BY DEF TakeRequest
<1> QED
  BY <1>1, <1>2, TailFacts, SessionConstants

LEMMA ParseType ==
    ASSUME NEW s \in Nat, NEW tail \in Tails
    PROVE  s_strtoul_hex(s, tail) \in Nat
<1>1. CASE tail = NoTail
  BY <1>1 DEF s_strtoul_hex
<1>2. CASE tail # NoTail
  <2>1. tail \in 0..15
    BY <1>2, SessionConstants
  <2>2. 16 * s + tail \in Nat /\ SeqSpace \in Nat \ {0}
    BY <2>1, SessionConstants
  <2> QED
    BY <1>2, <2>2 DEF s_strtoul_hex
<1> QED
  BY <1>1, <1>2

(* Every variable of the session keeps its type: in particular neither     *)
(* queue outgrows its buffer and the retry counter never passes zero.      *)
THEOREM TypeCorrect == Spec => []TypeOK
<1>1. Init => TypeOK /\ TriesLeft
  BY SessionConstants DEF Init, TypeOK, TriesLeft, busy, calls, CallId
<1>2. TypeOK /\ TriesLeft /\ [Next]_vars => TypeOK' /\ TriesLeft'
  <2> SUFFICES ASSUME TypeOK, TriesLeft, [Next]_vars
               PROVE  TypeOK' /\ TriesLeft'
    OBVIOUS
  <2>1. ASSUME NEW r \in Request, Begin(r), wseq' \in Nat
        PROVE  TypeOK' /\ TriesLeft'
    BY <2>1, BeginType, SessionConstants DEF Begin, TriesLeft
  <2>2. CASE Call
    <3>1. NextWriteSeq \in Nat /\ NextExecSeq \in Nat /\ wseq \in Nat
      BY DEF TypeOK, NextWriteSeq, NextExecSeq
    <3>2. CASE remote_eth_test
      BY <2>1, <3>1, <3>2, RequestType, AnyTypes
         DEF remote_eth_test, Kinds, Begin
    <3>3. ASSUME NEW a \in Addr, NEW n \in Lens, remote_eth_read_block(a, n)
          PROVE  TypeOK' /\ TriesLeft'
      BY <2>1, <3>1, <3>3, RequestType DEF remote_eth_read_block, Kinds, Begin
    <3>4. ASSUME NEW a \in Addr, remote_eth_write_block(a)
          PROVE  TypeOK' /\ TriesLeft'
      BY <2>1, <3>1, <3>4, RequestType, AnyTypes
         DEF remote_eth_write_block, Kinds, Begin
    <3>5. ASSUME NEW a \in Addr, remote_eth_exec(a)
          PROVE  TypeOK' /\ TriesLeft'
      BY <2>1, <3>1, <3>5, RequestType, AnyTypes
         DEF remote_eth_exec, Kinds, Begin
    <3> QED
      BY <2>2, <3>2, <3>3, <3>4, <3>5 DEF Call
  <2>3. CASE Timeout
    <3>1. retry # 0
      BY <2>3 DEF Timeout, TriesLeft
    <3> QED
      BY <2>3, <3>1, TryAgainType, TryAgainLeaves DEF Timeout, TypeOK, targetVars
  <2>4. CASE recvfrom
    <3> DEFINE p == Head(toHost)
    <3>1. p \in Reply /\ toHost' \in Seq(Reply) /\ Len(toHost') <= Cap
      <4>1. toHost \in Seq(Reply) /\ toHost # <<>> /\ toHost' = Tail(toHost)
        BY <2>4 DEF recvfrom, TypeOK
      <4> QED
        BY <4>1, TailFacts, SessionConstants DEF TypeOK
    <3>2. op \in Request
      BY <2>4 DEF recvfrom, busy, op, calls, TypeOK
    <3>3. CASE Succeed(p)
      <4>1. got' \in Nat /\ seen' \in [Addr -> SUBSET Nat]
        BY <3>1, <3>3 DEF Succeed, TypeOK, Reply
      <4> QED
        BY <2>4, <3>1, <3>3, <4>1, ReturnType
           DEF recvfrom, Succeed, TypeOK, TriesLeft, busy, calls, targetVars
    <3>4. CASE Reject(p)
      BY <2>4, <3>1, <3>4, ReturnType
         DEF recvfrom, Reject, TypeOK, TriesLeft, busy, calls, targetVars
    <3>5. CASE Ignore(p)
      <4>1. retry # 0
        BY <2>4 DEF recvfrom, TriesLeft
      <4> QED
        BY <2>4, <3>1, <3>5, <4>1, TryAgainType, TryAgainLeaves
           DEF recvfrom, Ignore, TypeOK, targetVars
    <3> QED
      BY <2>4, <3>3, <3>4, <3>5 DEF recvfrom
  <2>5. CASE Reopen
    BY <2>5, SessionConstants DEF Reopen, TypeOK, TriesLeft, busy, calls, targetVars
  <2>6. CASE Tick
    BY <2>6 DEF Tick, TypeOK, TriesLeft, busy, calls, targetVars
  <2>7. CASE HandleTest
    BY <2>7, TakeType, PlainAnswerType
       DEF HandleTest, TypeOK, TriesLeft, busy, calls, targetVars, hostVars
  <2>8. CASE HandleRead
    <3>1. mem[Head(toTarget).addr] \in Nat
      BY <2>8, TakeType DEF HandleRead, TypeOK, Request
    <3> QED
      BY <2>8, <3>1, TakeType, PlainAnswerType
         DEF HandleRead, TypeOK, TriesLeft, busy, calls, targetVars, hostVars
  <2>9. CASE HandleWrite
    <3> DEFINE m == Head(toTarget)
    <3>1. m \in Request /\ m.addr \in Addr /\ m.id \in CallId /\ m.id \in Nat
      BY <2>9, TakeType DEF HandleWrite, Request, CallId
    <3>a. mem' \in [Addr -> Nat]
      BY <2>9, <3>1 DEF HandleWrite, TypeOK
    <3>b. seen' \in [Addr -> SUBSET Nat]
      BY <2>9, <3>1 DEF HandleWrite, TypeOK
    <3>c. effects' \in [CallId -> Nat]
      BY <2>9, <3>1 DEF HandleWrite, TypeOK
    <3>2. /\ mem' \in [Addr -> Nat] /\ seen' \in [Addr -> SUBSET Nat]
          /\ effects' \in [CallId -> Nat]
      BY <3>a, <3>b, <3>c
    <3> QED
      BY <2>9, <3>1, <3>2, TakeType, PlainAnswerType
         DEF HandleWrite, TypeOK, TriesLeft, busy, calls, hostVars
  <2>10. CASE HandleExec
    <3> DEFINE m == Head(toTarget)
    <3>1. m \in Request /\ m.id \in CallId /\ m.seq \in Nat
      BY <2>10, TakeType DEF HandleExec, Request
    <3>2. PICK tail \in Tails :
            /\ \/ /\ effects' = [effects EXCEPT ![m.id] = @ + 1]
                  /\ exec_last_seq' = s_strtoul_hex(m.seq, tail)
               \/ UNCHANGED <<effects, exec_last_seq>>
            /\ Answer(m, [ReplyTo(m, 0) EXCEPT !.seq = s_strtoul_hex(m.seq, tail)])
      BY <2>10 DEF HandleExec
    <3>3. s_strtoul_hex(m.seq, tail) \in Nat
      BY <3>1, ParseType
    <3>4. exec_last_seq' \in Nat
      BY <3>2, <3>3 DEF TypeOK
    <3>5. effects' \in [CallId -> Nat]
      <4>1. \/ effects' = [effects EXCEPT ![m.id] = effects[m.id] + 1]
            \/ effects' = effects
        BY <3>2
      <4>2. effects \in [CallId -> Nat] /\ m.id \in CallId /\ effects[m.id] + 1 \in Nat
        BY <3>1 DEF TypeOK
      <4> HIDE DEF m
      <4> QED
        BY <4>1, <4>2
    <3> QED
      BY <2>10, <3>1, <3>2, <3>3, <3>4, <3>5, TakeType, AnswerType
         DEF HandleExec, TypeOK, TriesLeft, busy, calls, hostVars
  <2>11. CASE LoseRequest
    <3>1. toTarget \in Seq(Request) /\ toTarget # <<>> /\ toTarget' = Tail(toTarget)
      BY <2>11 DEF LoseRequest, TypeOK
    <3>2. toTarget' \in Seq(Request) /\ Len(toTarget') = Len(toTarget) - 1
      BY <3>1, TailFacts
    <3> QED
      BY <2>11, <3>2, SessionConstants
         DEF LoseRequest, TypeOK, TriesLeft, busy, calls, targetVars, hostVars
  <2>12. CASE LoseReply
    <3>1. toHost \in Seq(Reply) /\ toHost # <<>> /\ toHost' = Tail(toHost)
      BY <2>12 DEF LoseReply, TypeOK
    <3>2. toHost' \in Seq(Reply) /\ Len(toHost') = Len(toHost) - 1
      BY <3>1, TailFacts
    <3> QED
      BY <2>12, <3>2, SessionConstants
         DEF LoseReply, TypeOK, TriesLeft, busy, calls, targetVars, hostVars
  <2>13. CASE DuplicateRequest
    <3>1. toTarget' \in Seq(Request) /\ Len(toTarget') = Len(toTarget) + 1
      BY <2>13, DuplicateFacts DEF DuplicateRequest, TypeOK
    <3> QED
      BY <2>13, <3>1, SessionConstants
         DEF DuplicateRequest, TypeOK, TriesLeft, busy, calls, targetVars, hostVars
  <2>14. CASE ReorderRequests
    <3>1. PICK i \in 1..Len(toTarget) - 1 :
            toTarget' = [toTarget EXCEPT ![i] = toTarget[i + 1],
                                         ![i + 1] = toTarget[i]]
      BY <2>14 DEF ReorderRequests
    <3>2. toTarget \in Seq(Request) /\ Len(toTarget) \in Nat
      BY DEF TypeOK
    <3>3. toTarget[i] \in Request /\ toTarget[i + 1] \in Request
      <4>1. i \in 1..Len(toTarget) /\ i + 1 \in 1..Len(toTarget)
        BY <3>2
      <4> QED
        BY <3>2, <4>1
    <3>4. toTarget' \in Seq(Request) /\ Len(toTarget') = Len(toTarget)
      BY <3>1, <3>2, <3>3
    <3> QED
      BY <2>14, <3>4
         DEF ReorderRequests, TypeOK, TriesLeft, busy, calls, targetVars, hostVars
  <2>15. CASE UNCHANGED vars
    BY <2>15 DEF vars, TypeOK, TriesLeft, busy, calls, targetVars, hostVars
  <2> QED
    BY <2>2, <2>3, <2>4, <2>5, <2>6, <2>7, <2>8, <2>9, <2>10, <2>11, <2>12,
       <2>13, <2>14, <2>15 DEF Next, Handle, Network
<1> QED
  BY <1>1, <1>2, PTL DEF Spec

-----------------------------------------------------------------------------
(* How a step changes the queue of requests.                               *)

(* A new call logs a request with the next number, and a WRITE takes the   *)
(* next seq.                                                               *)
NewCall(r) ==
    /\ Begin(r)
    /\ r.id = calls + 1
    /\ r.sock = sock
    /\ IF r.kind = "WRITE" THEN r.seq = NextWriteSeq /\ wseq' = NextWriteSeq
                           ELSE wseq' = wseq

LEMMA CallBegins ==
    ASSUME TypeOK, Call
    PROVE  \E r \in Request : NewCall(r)
<1>0. NextWriteSeq \in Nat /\ NextExecSeq \in Nat
  BY DEF TypeOK, NextWriteSeq, NextExecSeq
<1>1. ASSUME NEW kind \in Kinds, NEW a \in Addr, NEW s \in Nat, NEW n \in Lens,
             Begin(NewRequest(kind, a, s, n)),
             IF kind = "WRITE" THEN s = NextWriteSeq /\ wseq' = NextWriteSeq
                               ELSE wseq' = wseq
      PROVE  \E r \in Request : NewCall(r)
  <2> DEFINE r == NewRequest(kind, a, s, n)
  <2>1. r \in Request
    BY <1>1, RequestType DEF Begin
  <2>2. r.id = calls + 1 /\ r.sock = sock /\ r.kind = kind /\ r.seq = s
    BY DEF NewRequest
  <2>3. NewCall(r)
    BY <1>1, <2>2 DEF NewCall
  <2> QED
    BY <2>1, <2>3
<1>2. CASE remote_eth_test
  BY <1>1, <1>2, AnyTypes DEF remote_eth_test, Kinds
<1>3. ASSUME NEW a \in Addr, NEW n \in Lens, remote_eth_read_block(a, n)
      PROVE  \E r \in Request : NewCall(r)
  BY <1>1, <1>3 DEF remote_eth_read_block, Kinds
<1>4. ASSUME NEW a \in Addr, remote_eth_write_block(a)
      PROVE  \E r \in Request : NewCall(r)
  BY <1>0, <1>1, <1>4, AnyTypes DEF remote_eth_write_block, Kinds
<1>5. ASSUME NEW a \in Addr, remote_eth_exec(a)
      PROVE  \E r \in Request : NewCall(r)
  BY <1>0, <1>1, <1>5, AnyTypes DEF remote_eth_exec, Kinds
<1> QED
  BY <1>2, <1>3, <1>4, <1>5 DEF Call

(* Every request in the new queue was in the old one, or is a copy of the  *)
(* running call's.                                                         *)
Inherits ==
    \A i \in 1..Len(toTarget') :
        \/ \E g \in 1..Len(toTarget) : toTarget'[i] = toTarget[g]
        \/ calls > 0 /\ toTarget'[i] = op

LEMMA TryAgainQueue ==
    ASSUME TypeOK, busy, TryAgain
    PROVE  \/ toTarget' = toTarget
           \/ op \in Request /\ calls > 0 /\ toTarget' = Enqueue(toTarget, op)
  BY DEF TypeOK, busy, TryAgain, op, calls

(* The three ways in which a step other than a call changes the queue.     *)
LEMMA QueueShapes ==
    ASSUME TypeOK, [Next]_vars, ~Call
    PROVE  /\ issued' = issued
           /\ \/ toTarget' = toTarget
              \/ op \in Request /\ calls > 0 /\ toTarget' = Enqueue(toTarget, op)
              \/ toTarget # <<>> /\ toTarget' = Tail(toTarget)
              \/ DuplicateRequest
              \/ ReorderRequests
<1>1. CASE Timeout
  BY <1>1, TryAgainQueue DEF Timeout
<1>2. CASE recvfrom
  BY <1>2, TryAgainQueue DEF recvfrom, Succeed, Reject, Ignore
<1>3. CASE Reopen \/ Tick \/ UNCHANGED vars
  BY <1>3 DEF Reopen, Tick, vars, hostVars
<1>4. CASE Handle
  BY <1>4 DEF Handle, HandleTest, HandleRead, HandleWrite, HandleExec,
              TakeRequest, hostVars
<1>5. CASE Network
  BY <1>5 DEF Network, LoseRequest, LoseReply, DuplicateRequest,
              ReorderRequests, hostVars
<1> QED
  BY <1>1, <1>2, <1>3, <1>4, <1>5 DEF Next

LEMMA QueueInherits ==
    ASSUME TypeOK, [Next]_vars, ~Call
    PROVE  Inherits
<1> USE DEF Inherits
<1>1. CASE toTarget' = toTarget
  BY <1>1
<1>2. CASE op \in Request /\ calls > 0 /\ toTarget' = Enqueue(toTarget, op)
  BY <1>2, EnqueueFacts DEF TypeOK
<1>3. CASE toTarget # <<>> /\ toTarget' = Tail(toTarget)
  BY <1>3, TailFacts DEF TypeOK
<1>4. CASE DuplicateRequest
  <2>1. \A i \in 1..Len(toTarget') :
           \/ i = 1 /\ toTarget'[i] = toTarget[1] /\ 1 \in 1..Len(toTarget)
           \/ i - 1 \in 1..Len(toTarget) /\ toTarget'[i] = toTarget[i - 1]
    BY <1>4, DuplicateFacts DEF TypeOK, DuplicateRequest
  <2> QED
    BY <2>1
<1>5. CASE ReorderRequests
  <2>1. PICK i \in 1..Len(toTarget) - 1 :
          toTarget' = [toTarget EXCEPT ![i] = toTarget[i + 1],
                                       ![i + 1] = toTarget[i]]
    BY <1>5 DEF ReorderRequests
  <2>a. toTarget \in Seq(Request) /\ Len(toTarget) \in Nat
    BY DEF TypeOK
  <2>b. i \in 1..Len(toTarget) /\ i + 1 \in 1..Len(toTarget)
    BY <2>a
  <2>2. toTarget \in Seq(Request) /\ i \in 1..Len(toTarget)
        /\ i + 1 \in 1..Len(toTarget) /\ Len(toTarget') = Len(toTarget)
    BY <2>1, <2>a, <2>b
  <2>3. \A k \in 1..Len(toTarget) :
          \/ k = i /\ toTarget'[k] = toTarget[i + 1]
          \/ k = i + 1 /\ toTarget'[k] = toTarget[i]
          \/ toTarget'[k] = toTarget[k]
    BY <2>1, <2>2
  <2> QED
    BY <2>2, <2>3
<1> QED
  BY <1>1, <1>2, <1>3, <1>4, <1>5, QueueShapes

(* Without reordering the queue stays in the order of the calls.           *)
LEMMA QueueOrdered ==
    ASSUME LogInv, Ordered, Reordering = FALSE, [Next]_vars, ~Call
    PROVE  Ordered'
<1> USE DEF Ordered
<1>0. TypeOK
  BY DEF LogInv
<1>1. CASE toTarget' = toTarget
  BY <1>1
<1>2. CASE op \in Request /\ calls > 0 /\ toTarget' = Enqueue(toTarget, op)
  <2>1. op.id = calls
    BY <1>2 DEF LogInv, Numbered, op, calls, TypeOK
  <2>2. \A i \in 1..Len(toTarget) : toTarget[i].id <= calls
    BY DEF LogInv, Known, TypeOK, calls
  <2>3. \A i \in 1..Len(toTarget') :
           \/ i \in 1..Len(toTarget) /\ toTarget'[i] = toTarget[i]
           \/ i = Len(toTarget) + 1 /\ toTarget'[i] = op
    BY <1>0, <1>2, EnqueueFacts DEF TypeOK
  <2>4. calls \in Nat /\ Len(toTarget) \in Nat
    BY <1>0 DEF TypeOK, calls
  <2> SUFFICES ASSUME NEW i \in 1..Len(toTarget'), NEW j \in 1..Len(toTarget'), i <= j
               PROVE  toTarget'[i].id <= toTarget'[j].id
    OBVIOUS
  <2>5. CASE i \in 1..Len(toTarget) /\ toTarget'[i] = toTarget[i]
    BY <2>1, <2>2, <2>3, <2>5
  <2>6. CASE i = Len(toTarget) + 1 /\ toTarget'[i] = op
    <3>1. j = i
      BY <2>3, <2>4, <2>6
    <3> QED
      BY <2>1, <2>4, <2>6, <3>1
  <2> QED
    BY <2>3, <2>5, <2>6
<1>3. CASE toTarget # <<>> /\ toTarget' = Tail(toTarget)
  <2>1. \A i \in 1..Len(toTarget') :
           i + 1 \in 1..Len(toTarget) /\ toTarget'[i] = toTarget[i + 1]
    BY <1>0, <1>3, TailFacts DEF TypeOK
  <2> QED
    BY <2>1
<1>4. CASE DuplicateRequest
  <2>1. \A i \in 1..Len(toTarget') :
           \/ i = 1 /\ toTarget'[i] = toTarget[1] /\ 1 \in 1..Len(toTarget)
           \/ i - 1 \in 1..Len(toTarget) /\ toTarget'[i] = toTarget[i - 1] /\ i # 1
    BY <1>0, <1>4, DuplicateFacts DEF TypeOK, DuplicateRequest
  <2> SUFFICES ASSUME NEW i \in 1..Len(toTarget'), NEW j \in 1..Len(toTarget'), i <= j
               PROVE  toTarget'[i].id <= toTarget'[j].id
    OBVIOUS
  <2>2. CASE i = 1
    <3>1. CASE j = 1
      BY <2>1, <2>2, <3>1
    <3>2. CASE j # 1
      <4>1. j - 1 \in 1..Len(toTarget) /\ toTarget'[j] = toTarget[j - 1]
        BY <2>1, <3>2
      <4>2. 1 \in 1..Len(toTarget) /\ 1 <= j - 1 /\ toTarget'[i] = toTarget[1]
        BY <2>1, <2>2, <4>1
      <4> QED
        BY <4>1, <4>2
    <3> QED
      BY <3>1, <3>2
  <2>3. CASE i # 1
    <3>1. i - 1 \in 1..Len(toTarget) /\ toTarget'[i] = toTarget[i - 1]
      BY <2>1, <2>3
    <3>2. j - 1 \in 1..Len(toTarget) /\ toTarget'[j] = toTarget[j - 1]
      BY <2>1, <2>3
    <3> QED
      BY <3>1, <3>2
  <2> QED
    BY <2>2, <2>3
<1>5. CASE ReorderRequests
  BY <1>5 DEF ReorderRequests
<1> QED
  BY <1>0, <1>1, <1>2, <1>3, <1>4, <1>5, QueueShapes

-----------------------------------------------------------------------------
(* A step other than handling a WRITE or an EXEC leaves the effects alone, *)
(* and those two change only the effects of the call they handle.          *)
LEMMA EffectsStep ==
    ASSUME [Next]_vars
    PROVE  \/ UNCHANGED <<effects, exec_last_seq, mem>>
           \/ HandleWrite \/ HandleExec
  BY DEF Next, vars, targetVars, Call, remote_eth_test, remote_eth_read_block,
         remote_eth_write_block, remote_eth_exec, Begin, Timeout, recvfrom,
         Reopen, Tick, Handle, HandleTest, HandleRead, Network, LoseRequest,
         LoseReply, DuplicateRequest, ReorderRequests

(* Handling the request at the head: its number is that of a call made.    *)
LEMMA HandledCall ==
    ASSUME LogInv, NEW kind, TakeRequest(kind)
    PROVE  /\ toTarget[1] = Head(toTarget) /\ 1 \in 1..Len(toTarget)
           /\ toTarget[1] \in Request
           /\ toTarget[1].id \in 1..calls /\ toTarget[1].id \in CallId
           /\ toTarget[1] = issued[toTarget[1].id]
           /\ issued[toTarget[1].id].kind = kind
           /\ \A i \in 1..Len(toTarget') :
                i + 1 \in 1..Len(toTarget) /\ toTarget'[i] = toTarget[i + 1]
           /\ issued' = issued
<1>1. TypeOK
  BY DEF LogInv
<1>2. 1 \in 1..Len(toTarget) /\ toTarget[1] \in Request
  BY <1>1, TakeType
<1>3. toTarget[1].id \in 1..calls /\ toTarget[1] = issued[toTarget[1].id]
  BY <1>2 DEF LogInv, Known
<1> QED
  BY <1>1, <1>2, <1>3, TakeType DEF hostVars, Request

LEMMA EffectsOfHandle ==
    ASSUME LogInv, HandleWrite \/ HandleExec
    PROVE  /\ toTarget[1].id \in 1..calls
           /\ \A j \in CallId : j # toTarget[1].id => effects'[j] = effects[j]
           /\ \/ effects'[toTarget[1].id] = effects[toTarget[1].id] + 1
              \/ effects' = effects
<1>1. effects \in [CallId -> Nat]
  BY DEF LogInv, TypeOK
<1>2. CASE HandleWrite
  BY <1>1, <1>2, HandledCall DEF HandleWrite
<1>3. CASE HandleExec
  <2>1. /\ Head(toTarget) = toTarget[1] /\ toTarget[1].id \in CallId
        /\ toTarget[1].id \in 1..calls
    BY <1>3, HandledCall DEF HandleExec
  <2>2. \/ effects' = [effects EXCEPT ![toTarget[1].id] = effects[toTarget[1].id] + 1]
        \/ effects' = effects
    BY <1>3, <2>1 DEF HandleExec
  <2> QED
    BY <1>1, <2>1, <2>2
<1> QED
  BY <1>2, <1>3

LEMMA LogStep ==
    ASSUME LogInv, TypeOK', [Next]_vars
    PROVE  LogInv'
<1>0. TypeOK
  BY DEF LogInv
<1>1. CASE Call
  <2>1. PICK r \in Request : Begin(r) /\ r.id = calls + 1
    BY <1>0, <1>1, CallBegins DEF NewCall
  <2>2. /\ issued \in Seq(Request) /\ issued' = Append(issued, r)
        /\ toTarget' = Enqueue(toTarget, r) /\ effects' = effects
    BY <1>0, <2>1 DEF Begin, TypeOK, targetVars
  <2>3. /\ calls' = calls + 1 /\ calls \in Nat
        /\ \A k \in 1..calls : issued'[k] = issued[k]
        /\ issued'[calls + 1] = r
    BY <2>2 DEF calls
  <2>4. Numbered'
    BY <2>1, <2>3 DEF LogInv, Numbered
  <2>5. Known'
    <3>1. \A i \in 1..Len(toTarget') :
             \/ i \in 1..Len(toTarget) /\ toTarget'[i] = toTarget[i]
             \/ toTarget'[i] = r
      BY <1>0, <2>2, EnqueueFacts DEF TypeOK
    <3> SUFFICES ASSUME NEW i \in 1..Len(toTarget')
                 PROVE  /\ toTarget'[i].id \in 1..calls'
                        /\ toTarget'[i] = issued'[toTarget'[i].id]
      BY DEF Known
    <3>2. CASE i \in 1..Len(toTarget) /\ toTarget'[i] = toTarget[i]
      BY <2>3, <3>2 DEF LogInv, Known
    <3>3. CASE toTarget'[i] = r
      BY <2>1, <2>3, <3>3
    <3> QED
      BY <3>1, <3>2, <3>3
  <2>6. Unissued'
    BY <2>2, <2>3 DEF LogInv, Unissued, CallId
  <2> QED
    BY <2>4, <2>5, <2>6 DEF LogInv
<1>2. CASE ~Call
  <2>1. Inherits /\ issued' = issued /\ calls' = calls
    BY <1>0, <1>2, QueueInherits, QueueShapes DEF calls
  <2>2. Numbered'
    BY <2>1 DEF LogInv, Numbered
  <2>3. Known'
    <3>1. calls > 0 => op.id = calls /\ op = issued[calls] /\ calls \in 1..calls
      <4>1. calls \in Nat
        BY <1>0 DEF calls, TypeOK
      <4> QED
        BY <4>1 DEF LogInv, Numbered, op
    <3> QED
      BY <2>1, <3>1 DEF LogInv, Known, Inherits
  <2>4. Unissued'
    <3>1. CASE UNCHANGED effects
      BY <2>1, <3>1 DEF LogInv, Unissued
    <3>2. CASE HandleWrite \/ HandleExec
      <4>1. calls \in Nat
        BY <1>0 DEF calls, TypeOK
      <4>2. \A j \in CallId : j > calls => effects'[j] = effects[j]
        BY <3>2, <4>1, EffectsOfHandle DEF CallId
      <4> QED
        BY <2>1, <4>2 DEF LogInv, Unissued
    <3> QED
      BY <3>1, <3>2, EffectsStep
  <2> QED
    BY <2>2, <2>3, <2>4 DEF LogInv
<1> QED
  BY <1>1, <1>2

LEMMA LogInvariant == Spec => []LogInv
<1>1. Init => LogInv
  BY SessionConstants DEF Init, LogInv, TypeOK, Numbered, Known, Unissued, calls, CallId
<1>2. LogInv /\ TypeOK' /\ [Next]_vars => LogInv'
  BY LogStep
<1> QED
  BY <1>1, <1>2, TypeCorrect, PTL DEF Spec

-----------------------------------------------------------------------------
(* At most once.                                                           *)

(* Types and ranges that the steps below keep using.                       *)
LEMMA LogFacts ==
    ASSUME LogInv
    PROVE  /\ calls \in Nat /\ calls <= MaxCalls
           /\ \A k \in 1..calls : k \in CallId /\ issued[k] \in Request
           /\ Len(toTarget) \in Nat
           /\ \A i \in 1..Len(toTarget) :
                /\ toTarget[i] \in Request /\ toTarget[i].id \in CallId
                /\ toTarget[i].id \in 1..calls
                /\ toTarget[i] = issued[toTarget[i].id]
<1>1. issued \in Seq(Request) /\ toTarget \in Seq(Request)
  BY DEF LogInv, TypeOK
<1>2. calls \in Nat /\ \A k \in 1..calls : issued[k] \in Request /\ issued[k].id = k
  BY <1>1 DEF LogInv, Numbered, calls
<1>3. \A k \in 1..calls : k \in CallId
  BY <1>2 DEF Request
<1>4. calls <= MaxCalls
  <2>1. CASE calls = 0
    BY <2>1, SessionConstants
  <2>2. CASE calls # 0
    <3>1. calls \in CallId
      BY <1>2, <1>3, <2>2
    <3> QED
      BY <3>1, SessionConstants DEF CallId
  <2> QED
    BY <2>1, <2>2
<1>5. Len(toTarget) \in Nat /\ \A i \in 1..Len(toTarget) : toTarget[i] \in Request
  BY <1>1
<1>6. \A i \in 1..Len(toTarget) : toTarget[i].id \in CallId
  BY <1>5 DEF Request
<1> QED
  BY <1>2, <1>3, <1>4, <1>5, <1>6 DEF LogInv, Known

LEMMA OnceCall ==
    ASSUME OnceInv, LogInv', Call
    PROVE  OnceInv'
<1>0. TypeOK /\ LogInv
  BY DEF OnceInv, LogInv
<1>1. PICK r \in Request : Begin(r) /\ r.id = calls + 1
  BY <1>0, CallBegins DEF NewCall
<1>2. /\ issued \in Seq(Request) /\ issued' = Append(issued, r)
      /\ toTarget' = Enqueue(toTarget, r)
      /\ UNCHANGED <<effects, exec_last_seq>>
      /\ calls < MaxCalls
  BY <1>0, <1>1 DEF Begin, TypeOK, targetVars
<1>3. /\ calls' = calls + 1 /\ calls \in Nat
      /\ \A k \in 1..calls : issued'[k] = issued[k]
      /\ issued'[calls + 1] = r
  BY <1>2 DEF calls
<1>4. \A i \in 1..Len(toTarget') :
         \/ i \in 1..Len(toTarget) /\ toTarget'[i] = toTarget[i]
         \/ i = Len(toTarget) + 1 /\ toTarget'[i] = r
  BY <1>0, <1>2, EnqueueFacts DEF TypeOK
<1>5. /\ \A i \in 1..Len(toTarget) : toTarget[i].id \in 1..calls
      /\ r.id = calls + 1 /\ Len(toTarget) \in Nat
  BY <1>0, <1>1, LogFacts
<1>6. effects[calls + 1] = 0 /\ calls + 1 \in CallId
  BY <1>0, <1>2, <1>3, SessionConstants DEF LogInv, Unissued, CallId
<1>7. Ordered'
  <2> SUFFICES ASSUME NEW i \in 1..Len(toTarget'), NEW j \in 1..Len(toTarget'), i <= j
               PROVE  toTarget'[i].id <= toTarget'[j].id
    BY DEF Ordered
  <2>1. CASE j \in 1..Len(toTarget) /\ toTarget'[j] = toTarget[j]
    <3>1. i \in 1..Len(toTarget) /\ toTarget'[i] = toTarget[i]
      BY <1>4, <1>5, <2>1
    <3> QED
      BY <2>1, <3>1 DEF OnceInv, Ordered
  <2>2. CASE toTarget'[j] = r
    <3>1. toTarget'[i].id \in 1..calls \/ toTarget'[i].id = calls + 1
      BY <1>4, <1>5
    <3> QED
      BY <1>3, <1>5, <2>2, <3>1
  <2> QED
    BY <1>4, <2>1, <2>2
<1>8. NotYet'
  BY <1>0, <1>2, <1>3, <1>4, <1>5 DEF OnceInv, NotYet, LogInv, Unissued, CallId
<1>9. Guarded'
  BY <1>2, <1>4, <1>5, <1>6 DEF OnceInv, Guarded
<1>10. GuardedOp'
  BY <1>2, <1>3, <1>6 DEF GuardedOp
<1>11. ExecAtMostOnce'
  <2>1. \A k \in 1..calls' : k \in 1..calls \/ k = calls + 1
    BY <1>3
  <2>2. \A k \in 1..calls : issued'[k].kind = "EXEC" => effects'[k] <= 1
    BY <1>2, <1>3 DEF OnceInv, ExecAtMostOnce
  <2>3. effects'[calls + 1] <= 1
    BY <1>2, <1>6
  <2> QED
    BY <2>1, <2>2, <2>3 DEF ExecAtMostOnce
<1> QED
  BY <1>7, <1>8, <1>9, <1>10, <1>11 DEF OnceInv

LEMMA OnceQuiet ==
    ASSUME OnceInv, LogInv', Fifo, [Next]_vars, ~Call,
           UNCHANGED <<effects, exec_last_seq>>
    PROVE  OnceInv'
<1>0. TypeOK /\ LogInv
  BY DEF OnceInv, LogInv
<1>1. Inherits /\ issued' = issued /\ calls' = calls /\ calls \in Nat
  BY <1>0, QueueInherits, QueueShapes DEF calls, TypeOK
<1>2. calls > 0 => op = issued[calls] /\ op.id = calls
  BY <1>0, <1>1 DEF LogInv, Numbered, op
<1>3. Ordered'
  BY <1>0, QueueOrdered DEF OnceInv, Fifo
<1>4. NotYet'
  BY <1>0, <1>1, <1>2 DEF OnceInv, NotYet, Inherits, LogInv, Unissued, CallId
<1>5. Guarded'
  BY <1>1, <1>2 DEF OnceInv, Guarded, GuardedOp, Inherits
<1>6. GuardedOp' /\ ExecAtMostOnce'
  BY <1>1 DEF OnceInv, GuardedOp, ExecAtMostOnce
<1> QED
  BY <1>3, <1>4, <1>5, <1>6 DEF OnceInv

(* Handling the oldest request, when only its own call's effects change:   *)
(* no later request, and no later call, can have taken effect before it.   *)
LEMMA OnceHandled ==
    ASSUME OnceInv, Fifo, HandleWrite \/ HandleExec, [Next]_vars
    PROVE  /\ NotYet'
           /\ \A j \in CallId : j > toTarget[1].id => effects[j] = 0 /\ effects'[j] = 0
           /\ \A i \in 1..Len(toTarget') : toTarget[1].id <= toTarget'[i].id
<1>0. LogInv
  BY DEF OnceInv
<1>1. /\ \A i \in 1..Len(toTarget') :
           i + 1 \in 1..Len(toTarget) /\ toTarget'[i] = toTarget[i + 1]
      /\ 1 \in 1..Len(toTarget)
      /\ toTarget[1].id \in CallId
  BY <1>0, HandledCall DEF HandleWrite, HandleExec
<1>2. \A j \in CallId : j # toTarget[1].id => effects'[j] = effects[j]
  BY <1>0, EffectsOfHandle
<1>3. \A j \in CallId : j > toTarget[1].id => effects[j] = 0 /\ effects'[j] = 0
  BY <1>1, <1>2 DEF OnceInv, NotYet, CallId
<1>4. \A i \in 1..Len(toTarget') : toTarget[1].id <= toTarget'[i].id
  BY <1>1 DEF OnceInv, Ordered
<1>5. \A i \in 1..Len(toTarget') : toTarget'[i].id \in Int
  BY <1>0, <1>1 DEF LogInv, Known
<1>6. NotYet'
  BY <1>1, <1>3, <1>4, <1>5 DEF NotYet, CallId
<1> QED
  BY <1>3, <1>4, <1>6

LEMMA OnceWrite ==
    ASSUME OnceInv, LogInv', Fifo, HandleWrite, [Next]_vars
    PROVE  OnceInv'
<1>0. TypeOK /\ LogInv
  BY DEF OnceInv, LogInv
<1> DEFINE id == toTarget[1].id
<1>1. /\ id \in 1..calls /\ id \in CallId /\ toTarget[1] = issued[id]
      /\ issued[id].kind = "WRITE" /\ issued' = issued /\ calls' = calls
      /\ \A i \in 1..Len(toTarget') :
           i + 1 \in 1..Len(toTarget) /\ toTarget'[i] = toTarget[i + 1]
  BY <1>0, HandledCall DEF HandleWrite, calls
<1>2. /\ \A j \in CallId : j # id => effects'[j] = effects[j]
      /\ exec_last_seq' = exec_last_seq
  BY <1>0, EffectsOfHandle DEF HandleWrite
<1>3. \A i \in 1..Len(toTarget) :
         /\ toTarget[i] = issued[toTarget[i].id] /\ toTarget[i].id \in CallId
         /\ toTarget[i].kind = "EXEC" => toTarget[i].id # id
  BY <1>0, <1>1, LogFacts
<1>4. Guarded'
  <2> SUFFICES ASSUME NEW i \in 1..Len(toTarget'),
                      toTarget'[i].kind = "EXEC", effects'[toTarget'[i].id] > 0
               PROVE  exec_last_seq' = toTarget'[i].seq
    BY DEF Guarded
  <2>1. i + 1 \in 1..Len(toTarget) /\ toTarget'[i] = toTarget[i + 1]
    BY <1>1
  <2>2. toTarget[i + 1].id \in CallId /\ toTarget[i + 1].id # id
    BY <1>3, <2>1
  <2> QED
    BY <1>2, <2>1, <2>2 DEF OnceInv, Guarded
<1>5. calls \in Nat /\ (calls > 0 => calls \in 1..calls)
  BY <1>0, LogFacts
<1>6. \A k \in 1..calls : k \in CallId
  BY <1>0, LogFacts
<1>7. GuardedOp' /\ ExecAtMostOnce'
  BY <1>1, <1>2, <1>5, <1>6 DEF OnceInv, GuardedOp, ExecAtMostOnce
<1>8. ~Call
  BY <1>0, <1>1, CallBegins DEF NewCall, Begin, TypeOK, calls
<1>9. Ordered'
  BY <1>0, <1>8, QueueOrdered DEF OnceInv, Fifo
<1>10. NotYet'
  BY OnceHandled
<1> QED
  BY <1>4, <1>7, <1>9, <1>10 DEF OnceInv

LEMMA OnceExec ==
    ASSUME OnceInv, LogInv', Fifo, HandleExec, [Next]_vars
    PROVE  OnceInv'
<1>0. TypeOK /\ LogInv
  BY DEF OnceInv, LogInv
<1> DEFINE id == toTarget[1].id
<1>1. /\ id \in 1..calls /\ id \in CallId /\ toTarget[1] = issued[id]
      /\ 1 \in 1..Len(toTarget) /\ Head(toTarget) = toTarget[1]
      /\ issued[id].kind = "EXEC" /\ issued' = issued /\ calls' = calls
      /\ \A i \in 1..Len(toTarget') :
           i + 1 \in 1..Len(toTarget) /\ toTarget'[i] = toTarget[i + 1]
  BY <1>0, HandledCall DEF HandleExec, calls
<1>2. \/ /\ issued[id].seq # exec_last_seq
         /\ effects' = [effects EXCEPT ![id] = effects[id] + 1]
         /\ exec_last_seq' = issued[id].seq
      \/ UNCHANGED <<effects, exec_last_seq>>
  BY <1>1 DEF HandleExec, Fifo, s_strtoul_hex
<1>3. ~Call
  BY <1>0, <1>1, CallBegins DEF NewCall, Begin, TypeOK, calls
<1>4. CASE UNCHANGED <<effects, exec_last_seq>>
  BY <1>3, <1>4, OnceQuiet
<1>5. CASE /\ issued[id].seq # exec_last_seq
           /\ effects' = [effects EXCEPT ![id] = effects[id] + 1]
           /\ exec_last_seq' = issued[id].seq
  <2>1. effects \in [CallId -> Nat]
    BY <1>0 DEF TypeOK
  <2>2. effects[id] = 0
    BY <1>1, <1>5, <2>1 DEF OnceInv, Guarded
  <2>3. effects'[id] = 1 /\ \A j \in CallId : j # id => effects'[j] = effects[j]
    BY <1>1, <1>5, <2>1, <2>2
  <2>4. \A j \in CallId : j > id => effects'[j] = 0
    BY OnceHandled
  <2>5. \A i \in 1..Len(toTarget') :
           /\ toTarget'[i].id \in CallId /\ id <= toTarget'[i].id
           /\ toTarget'[i] = issued[toTarget'[i].id]
    BY <1>0, <1>1, LogFacts, OnceHandled
  <2>6. Guarded'
    <3> SUFFICES ASSUME NEW i \in 1..Len(toTarget'), toTarget'[i].kind = "EXEC",
                        effects'[toTarget'[i].id] > 0
                 PROVE  exec_last_seq' = toTarget'[i].seq
      BY DEF Guarded
    <3>1. toTarget'[i].id = id
      <4>1. toTarget'[i].id \in CallId /\ id \in CallId /\ id <= toTarget'[i].id
        BY <1>1, <2>5
      <4>2. ~(toTarget'[i].id > id)
        BY <2>4, <4>1
      <4> HIDE DEF id
      <4> QED
        BY <4>1, <4>2, SessionConstants DEF CallId
    <3> QED
      BY <1>5, <2>5, <3>1
  <2>7. calls \in Nat /\ \A k \in 1..calls : k \in CallId
    BY <1>0, LogFacts
  <2>8. GuardedOp'
    <3> SUFFICES ASSUME calls > 0, effects'[calls] > 0
                 PROVE  exec_last_seq' = issued[calls].seq
      BY <1>1 DEF GuardedOp
    <3>1. calls \in CallId /\ id <= calls
      BY <1>1, <2>7
    <3>2. calls = id
      BY <1>1, <2>4, <3>1 DEF CallId
    <3> QED
      BY <1>5, <3>2
  <2>9. ExecAtMostOnce'
    BY <1>1, <2>3, <2>7 DEF OnceInv, ExecAtMostOnce
  <2>10. Ordered'
    BY <1>0, <1>3, QueueOrdered DEF OnceInv, Fifo
  <2>11. NotYet'
    BY OnceHandled
  <2> QED
    BY <2>6, <2>8, <2>9, <2>10, <2>11 DEF OnceInv
<1> QED
  BY <1>2, <1>4, <1>5

LEMMA OnceInvariant == ASSUME Fifo PROVE Spec => []OnceInv
<1>1. Init => OnceInv
  <2> SUFFICES ASSUME Init PROVE OnceInv
    OBVIOUS
  <2>1. LogInv
    BY SessionConstants DEF Init, LogInv, TypeOK, Numbered, Known, Unissued, calls, CallId
  <2>2. toTarget = <<>> /\ issued = <<>>
    BY DEF Init
  <2> QED
    BY <2>1, <2>2 DEF OnceInv, Ordered, NotYet, Guarded, GuardedOp, ExecAtMostOnce, calls
<1>2. OnceInv /\ LogInv' /\ [Next]_vars => OnceInv'
  <2> SUFFICES ASSUME OnceInv, LogInv', [Next]_vars PROVE OnceInv'
    OBVIOUS
  <2>1. CASE Call
    BY <2>1, OnceCall
  <2>2. CASE HandleWrite
    BY <2>2, OnceWrite
  <2>3. CASE HandleExec
    BY <2>3, OnceExec
  <2>4. CASE ~Call /\ UNCHANGED <<effects, exec_last_seq>>
    BY <2>4, OnceQuiet
  <2> QED
    BY <2>1, <2>2, <2>3, <2>4, EffectsStep
<1> QED
  BY <1>1, <1>2, LogInvariant, PTL DEF Spec

(* If the network does not reorder requests and nothing that follows an    *)
(* EXEC datagram in memory reads as a digit, the code of an EXEC call runs *)
(* at most once: the promise of the comment at exec_last_seq.              *)
THEOREM ExecOnce == ASSUME Fifo PROVE Spec => []ExecAtMostOnce
<1>1. OnceInv => ExecAtMostOnce
  BY DEF OnceInv
<1> QED
  BY <1>1, OnceInvariant, PTL

-----------------------------------------------------------------------------
(* An acknowledged WRITE is its own: for any network.                      *)

LEMMA EffectsGrow ==
    ASSUME LogInv, [Next]_vars
    PROVE  \A k \in CallId : effects[k] > 0 => effects'[k] > 0
<1>1. effects \in [CallId -> Nat]
  BY DEF LogInv, TypeOK
<1>2. CASE UNCHANGED effects
  BY <1>2
<1>3. CASE HandleWrite \/ HandleExec
  BY <1>1, <1>3, EffectsOfHandle
<1> QED
  BY <1>2, <1>3, EffectsStep

LEMMA AckCall ==
    ASSUME AckInv, LogInv', Call
    PROVE  AckInv'
<1>0. TypeOK /\ LogInv
  BY DEF AckInv, LogInv
<1>1. PICK r \in Request : NewCall(r)
  BY <1>0, CallBegins
<1>2. /\ issued \in Seq(Request) /\ issued' = Append(issued, r)
      /\ outcome \in Seq({"busy", "ok", "fail"})
      /\ outcome' = Append(outcome, "busy") /\ Len(outcome) = calls
      /\ UNCHANGED <<effects, toHost, sock>>
  BY <1>0, <1>1 DEF NewCall, Begin, TypeOK, targetVars, calls
<1>3. /\ calls' = calls + 1 /\ calls \in Nat
      /\ \A k \in 1..calls : issued'[k] = issued[k]
      /\ issued'[calls + 1] = r
      /\ \A k \in 1..calls' : k \in 1..calls \/ k = calls + 1
  BY <1>2 DEF calls
<1>4. \A k \in 1..calls : outcome'[k] = outcome[k]
  BY <1>2, <1>3
<1>5. outcome'[calls + 1] = "busy"
  BY <1>2, <1>3
<1>6. /\ sock \in Nat /\ wseq \in Nat /\ clock \in Nat \ {0}
      /\ \A k \in 1..calls : issued[k].seq \in Nat
      /\ r.seq \in Nat /\ r.sock = sock
      /\ wseq' \in Nat
  BY <1>0, <1>1, LogFacts DEF TypeOK, Request, NewCall, NextWriteSeq
<1>7. r.kind = "WRITE" => r.seq = wseq' /\ wseq' > 0 /\ (wseq > 0 => wseq' = wseq + 1)
  BY <1>1, <1>6 DEF NewCall, NextWriteSeq
<1>8. wseq' >= wseq
  BY <1>1, <1>6 DEF NewCall, NextWriteSeq
<1>9. SeqsGrow'
  <2> SUFFICES ASSUME NEW j \in 1..calls', NEW k \in 1..calls', j < k,
                      issued'[j].kind = "WRITE", issued'[k].kind = "WRITE",
                      issued'[j].sock = issued'[k].sock
               PROVE  issued'[j].seq < issued'[k].seq
    BY DEF SeqsGrow
  <2>1. j \in 1..calls /\ issued'[j] = issued[j]
    BY <1>3
  <2>2. CASE k \in 1..calls
    BY <1>3, <2>1, <2>2 DEF AckInv, SeqsGrow
  <2>3. CASE k = calls + 1
    <3>1. wseq > 0 /\ issued[j].seq <= wseq
      BY <1>3, <1>6, <2>1, <2>3 DEF AckInv, SeqsBelow
    <3> QED
      BY <1>3, <1>6, <1>7, <2>1, <2>3, <3>1
  <2> QED
    BY <1>3, <2>2, <2>3
<1>10. SeqsBelow'
  <2> SUFFICES ASSUME NEW k \in 1..calls'
               PROVE  /\ issued'[k].sock <= sock'
                      /\ issued'[k].kind = "WRITE" /\ issued'[k].sock = sock'
                           => wseq' > 0 /\ issued'[k].seq <= wseq'
    BY DEF SeqsBelow
  <2>0. sock' = sock
    BY <1>2
  <2>1. CASE k \in 1..calls
    <3>1. issued'[k] = issued[k] /\ issued[k].seq \in Nat
      BY <1>3, <1>6, <2>1
    <3>2. /\ issued[k].sock <= sock
          /\ issued[k].kind = "WRITE" /\ issued[k].sock = sock
               => wseq > 0 /\ issued[k].seq <= wseq
      BY <2>1 DEF AckInv, SeqsBelow
    <3>3. wseq > 0 => wseq' > 0
      BY <1>6, <1>8
    <3> QED
      BY <1>6, <1>8, <2>0, <3>1, <3>2, <3>3
  <2>2. CASE k = calls + 1
    <3>1. issued'[k] = r
      BY <1>3, <2>2
    <3> QED
      BY <1>6, <1>7, <2>0, <3>1
  <2> QED
    BY <1>3, <2>1, <2>2
<1>11. OwnSocket'
  BY <1>2, <1>3, <1>6 DEF OwnSocket, op, calls
<1>12. RepliesOwn'
  <2> SUFFICES ASSUME NEW i \in 1..Len(toHost), toHost[i].kind = "WRITE"
               PROVE  \E k \in 1..calls' :
                        /\ issued'[k].kind = "WRITE" /\ effects'[k] > 0
                        /\ issued'[k].addr = toHost[i].addr
                        /\ issued'[k].seq = toHost[i].seq
                        /\ issued'[k].sock = sock'
    BY <1>2 DEF RepliesOwn
  <2>1. PICK k \in 1..calls :
          /\ issued[k].kind = "WRITE" /\ effects[k] > 0
          /\ issued[k].addr = toHost[i].addr
          /\ issued[k].seq = toHost[i].seq
          /\ issued[k].sock = sock
    BY DEF AckInv, RepliesOwn
  <2>2. k \in 1..calls' /\ issued'[k] = issued[k]
    BY <1>3
  <2> QED
    BY <1>2, <2>1, <2>2
<1>13. WriteAckIsOwn'
  BY <1>2, <1>3, <1>4, <1>5 DEF AckInv, WriteAckIsOwn, CallsThat
<1> QED
  BY <1>9, <1>10, <1>11, <1>12, <1>13 DEF AckInv

(* How a step other than a call ends the running one.                      *)
LEMMA OutcomeShapes ==
    ASSUME TypeOK, [Next]_vars, ~Call
    PROVE  \/ UNCHANGED outcome
           \/ busy /\ Return("fail")
           \/ /\ busy /\ Return("ok")
              /\ toHost # <<>> /\ Accepts(op, Head(toHost))
<1>1. CASE Timeout
  BY <1>1 DEF Timeout, TryAgain
<1>2. CASE recvfrom
  BY <1>2 DEF recvfrom, Succeed, Reject, Ignore, TryAgain
<1>3. CASE Reopen \/ Tick \/ Handle \/ Network \/ UNCHANGED vars
  BY <1>3 DEF Reopen, Tick, Handle, HandleTest, HandleRead, HandleWrite,
              HandleExec, TakeRequest, Network, LoseRequest, LoseReply,
              DuplicateRequest, ReorderRequests, vars, hostVars
<1> QED
  BY <1>1, <1>2, <1>3 DEF Next

(* How a step other than a call changes the queue of replies.              *)
LEMMA ReplyShapes ==
    ASSUME TypeOK, [Next]_vars, ~Call
    PROVE  \/ Reopen
           \/ /\ UNCHANGED <<sock, wseq>>
              /\ \/ UNCHANGED toHost
                 \/ toHost # <<>> /\ toHost' = Tail(toHost)
                 \/ Handle
<1>1. CASE Timeout \/ recvfrom \/ Tick \/ Network \/ UNCHANGED vars
  BY <1>1 DEF Timeout, recvfrom, Tick, Network, LoseRequest, LoseReply,
              DuplicateRequest, ReorderRequests, vars, hostVars
<1>2. CASE Handle
  BY <1>2 DEF Handle, HandleTest, HandleRead, HandleWrite, HandleExec,
              TakeRequest, hostVars
<1> QED
  BY <1>1, <1>2 DEF Next

(* The reply the target sends for the oldest request.                      *)
LEMMA HandleReplies ==
    ASSUME LogInv, Handle
    PROVE  /\ toTarget[1].id \in 1..calls
           /\ \A i \in 1..Len(toHost') :
                \/ i \in 1..Len(toHost) /\ toHost'[i] = toHost[i]
                \/ /\ toHost'[i].kind = toTarget[1].kind
                   /\ toTarget[1].sock = sock
                   /\ toTarget[1].kind = "WRITE" =>
                        /\ toHost'[i].addr = toTarget[1].addr
                        /\ toHost'[i].seq = toTarget[1].seq
                        /\ effects'[toTarget[1].id] > 0
<1>0. TypeOK
  BY DEF LogInv
<1> DEFINE m == toTarget[1]
<1>1. /\ m = Head(toTarget) /\ m \in Request /\ m.id \in 1..calls /\ m.id \in CallId
  <2>1. PICK kind \in Kinds : TakeRequest(kind)
    BY DEF Handle, HandleTest, HandleRead, HandleWrite, HandleExec, Kinds
  <2> QED
    BY <2>1, HandledCall
<1>2. ASSUME NEW p \in Reply, Answer(m, p), p.kind = m.kind,
             m.kind = "WRITE" => /\ p.addr = m.addr /\ p.seq = m.seq
                                 /\ effects'[m.id] > 0
      PROVE  \A i \in 1..Len(toHost') :
                \/ i \in 1..Len(toHost) /\ toHost'[i] = toHost[i]
                \/ /\ toHost'[i].kind = m.kind
                   /\ m.sock = sock
                   /\ m.kind = "WRITE" =>
                        /\ toHost'[i].addr = m.addr /\ toHost'[i].seq = m.seq
                        /\ effects'[m.id] > 0
  <2>1. CASE m.sock = sock
    <3>1. toHost' = Enqueue(toHost, p)
      BY <1>2, <2>1 DEF Answer
    <3>2. \A i \in 1..Len(toHost') :
            \/ i \in 1..Len(toHost) /\ toHost'[i] = toHost[i]
            \/ toHost'[i] = p
      BY <1>0, <3>1, EnqueueFacts DEF TypeOK
    <3> QED
      BY <1>2, <2>1, <3>2
  <2>2. CASE m.sock # sock
    BY <1>2, <2>2 DEF Answer
  <2> QED
    BY <2>1, <2>2
<1>3. ASSUME NEW d \in Nat
      PROVE  /\ ReplyTo(m, d) \in Reply /\ ReplyTo(m, d).kind = m.kind
             /\ ReplyTo(m, d).addr = m.addr /\ ReplyTo(m, d).seq = m.seq
  BY <1>1 DEF ReplyTo, Reply, Request
<1>4. CASE HandleTest
  BY <1>1, <1>2, <1>3, <1>4 DEF HandleTest, TakeRequest
<1>5. CASE HandleRead
  <2>1. mem[m.addr] \in Nat
    BY <1>0, <1>1 DEF TypeOK, Request
  <2> QED
    BY <1>1, <1>2, <1>3, <1>5, <2>1 DEF HandleRead, TakeRequest
<1>6. CASE HandleWrite
  <2>1. effects' = [effects EXCEPT ![m.id] = effects[m.id] + 1]
    BY <1>1, <1>6 DEF HandleWrite
  <2>2. effects'[m.id] > 0
    BY <1>0, <1>1, <2>1 DEF TypeOK
  <2>3. Answer(m, ReplyTo(m, 0))
    BY <1>1, <1>6 DEF HandleWrite
  <2> QED
    BY <1>1, <1>2, <1>3, <2>2, <2>3
<1>7. CASE HandleExec
  <2>1. PICK tail \in Tails :
          Answer(m, [ReplyTo(m, 0) EXCEPT !.seq = s_strtoul_hex(m.seq, tail)])
    BY <1>1, <1>7 DEF HandleExec
  <2> DEFINE p == [ReplyTo(m, 0) EXCEPT !.seq = s_strtoul_hex(m.seq, tail)]
  <2>2. s_strtoul_hex(m.seq, tail) \in Nat
    BY <1>1, ParseType DEF Request
  <2>3. p \in Reply /\ p.kind = m.kind
    BY <1>1, <2>2 DEF ReplyTo, Reply, Request
  <2>4. m.kind = "EXEC"
    BY <1>1, <1>7 DEF HandleExec, TakeRequest
  <2> HIDE DEF p
  <2> QED
    BY <1>1, <1>2, <2>1, <2>3, <2>4 DEF p
<1> QED
  BY <1>4, <1>5, <1>6, <1>7 DEF Handle

(* The reply a WRITE accepts answers that WRITE: the target echoes the seq *)
(* and no two WRITEs of a socket share one.                                *)
LEMMA AcceptedIsOwn ==
    ASSUME AckInv, busy, toHost # <<>>, Accepts(op, Head(toHost)),
           op.kind = "WRITE"
    PROVE  effects[calls] > 0
<1>0. TypeOK /\ LogInv
  BY DEF AckInv, LogInv
<1>1. calls \in Nat /\ calls \in 1..calls /\ op = issued[calls]
  BY <1>0, LogFacts DEF busy, op
<1>2. Head(toHost) = toHost[1] /\ 1 \in 1..Len(toHost)
  BY <1>0, TailFacts DEF TypeOK
<1>3. toHost[1].kind = "WRITE" /\ toHost[1].seq = op.seq
  BY <1>2 DEF Accepts
<1>4. PICK k \in 1..calls :
        /\ issued[k].kind = "WRITE" /\ effects[k] > 0
        /\ issued[k].seq = toHost[1].seq /\ issued[k].sock = sock
  BY <1>2, <1>3 DEF AckInv, RepliesOwn
<1>5. issued[calls].sock = sock
  BY <1>1 DEF AckInv, OwnSocket
<1>6. issued[calls].seq \in Nat
  BY <1>0, <1>1, LogFacts DEF Request
<1>7. ~(k < calls)
  BY <1>1, <1>3, <1>4, <1>5, <1>6 DEF AckInv, SeqsGrow
<1>8. k = calls
  BY <1>1, <1>7
<1> QED
  BY <1>4, <1>8

LEMMA AckQuiet ==
    ASSUME AckInv, LogInv', [Next]_vars, ~Call
    PROVE  AckInv'
<1>0. TypeOK /\ LogInv
  BY DEF AckInv, LogInv
<1>1. issued' = issued /\ calls' = calls /\ op' = op
  BY <1>0, QueueShapes DEF calls, op
<1>2. calls \in Nat /\ \A k \in 1..calls : k \in CallId /\ issued[k] \in Request
  BY <1>0, LogFacts
<1>3. \A k \in 1..calls : effects[k] > 0 => effects'[k] > 0
  BY <1>0, <1>2, EffectsGrow
<1>4. SeqsGrow'
  BY <1>1 DEF AckInv, SeqsGrow
<1>5. SeqsBelow'
  <2>1. CASE UNCHANGED <<sock, wseq>>
    BY <1>1, <2>1 DEF AckInv, SeqsBelow
  <2>2. CASE Reopen
    <3>1. sock' = sock + 1 /\ sock \in Nat
      BY <1>0, <2>2 DEF Reopen, TypeOK
    <3>2. \A k \in 1..calls : issued[k].sock \in Nat /\ issued[k].sock <= sock
      BY <1>2 DEF AckInv, SeqsBelow, Request
    <3> QED
      BY <1>1, <3>1, <3>2 DEF SeqsBelow
  <2> QED
    BY <1>0, <2>1, <2>2, ReplyShapes
<1>6. WriteAckIsOwn' /\ (busy' => busy)
  <2>1. CASE UNCHANGED outcome
    BY <1>1, <1>3, <2>1 DEF AckInv, WriteAckIsOwn, CallsThat, busy
  <2>2. CASE busy /\ Return("fail")
    <3>1. \A k \in 1..calls : outcome'[k] = "fail" \/ outcome'[k] = outcome[k]
      BY <1>0, <2>2, ReturnType
    <3> QED
      BY <1>1, <1>3, <2>2, <3>1 DEF AckInv, WriteAckIsOwn, CallsThat
  <2>3. CASE busy /\ Return("ok") /\ toHost # <<>> /\ Accepts(op, Head(toHost))
    <3>1. \A k \in 1..calls : k = calls \/ outcome'[k] = outcome[k]
      BY <1>0, <2>3, ReturnType
    <3>2. op.kind = "WRITE" => effects[calls] > 0
      BY <2>3, AcceptedIsOwn
    <3>3. calls \in 1..calls
      BY <1>2, <2>3 DEF busy
    <3> QED
      BY <1>1, <1>3, <2>3, <3>1, <3>2, <3>3 DEF AckInv, WriteAckIsOwn, CallsThat, op
  <2> QED
    BY <1>0, <2>1, <2>2, <2>3, OutcomeShapes
<1>7. OwnSocket'
  <2>1. CASE UNCHANGED <<sock, wseq>>
    BY <1>1, <1>6, <2>1 DEF AckInv, OwnSocket
  <2>2. CASE Reopen
    BY <1>1, <1>6, <2>2 DEF Reopen, OwnSocket
  <2> QED
    BY <1>0, <2>1, <2>2, ReplyShapes
<1>8. RepliesOwn'
  <2>1. CASE Reopen
    BY <2>1 DEF Reopen, RepliesOwn
  <2>2. CASE sock' = sock /\ UNCHANGED toHost
    BY <1>1, <1>3, <2>2 DEF AckInv, RepliesOwn
  <2>3. CASE sock' = sock /\ toHost # <<>> /\ toHost' = Tail(toHost)
    <3>1. \A i \in 1..Len(toHost') :
            i + 1 \in 1..Len(toHost) /\ toHost'[i] = toHost[i + 1]
      BY <1>0, <2>3, TailFacts DEF TypeOK
    <3> QED
      BY <1>1, <1>3, <2>3, <3>1 DEF AckInv, RepliesOwn
  <2>4. CASE sock' = sock /\ Handle
    <3> SUFFICES ASSUME NEW i \in 1..Len(toHost'), toHost'[i].kind = "WRITE"
                 PROVE  \E k \in 1..calls :
                          /\ issued[k].kind = "WRITE" /\ effects'[k] > 0
                          /\ issued[k].addr = toHost'[i].addr
                          /\ issued[k].seq = toHost'[i].seq
                          /\ issued[k].sock = sock
      BY <1>1, <2>4 DEF RepliesOwn
    <3>1. CASE i \in 1..Len(toHost) /\ toHost'[i] = toHost[i]
      BY <1>3, <3>1 DEF AckInv, RepliesOwn
    <3>2. CASE ~(i \in 1..Len(toHost) /\ toHost'[i] = toHost[i])
      <4>1. 1 \in 1..Len(toTarget)
        BY <1>0, <2>4, TakeType DEF Handle, HandleTest, HandleRead, HandleWrite, HandleExec
      <4>2. toTarget[1] = issued[toTarget[1].id]
        BY <1>0, <4>1, LogFacts
      <4> QED
        BY <1>0, <2>4, <3>2, <4>2, HandleReplies
    <3> QED
      BY <3>1, <3>2
  <2> QED
    BY <1>0, <2>1, <2>2, <2>3, <2>4, ReplyShapes
<1> QED
  BY <1>4, <1>5, <1>6, <1>7, <1>8 DEF AckInv

LEMMA AckInvariant == Spec => []AckInv
<1>1. Init => AckInv
  <2> SUFFICES ASSUME Init PROVE AckInv
    OBVIOUS
  <2>1. LogInv
    BY SessionConstants DEF Init, LogInv, TypeOK, Numbered, Known, Unissued, calls, CallId
  <2>2. toHost = <<>> /\ issued = <<>>
    BY DEF Init
  <2> QED
    BY <2>1, <2>2 DEF AckInv, SeqsGrow, SeqsBelow, OwnSocket, RepliesOwn,
                      WriteAckIsOwn, calls, busy
<1>2. AckInv /\ LogInv' /\ [Next]_vars => AckInv'
  BY AckCall, AckQuiet
<1> QED
  BY <1>1, <1>2, LogInvariant, PTL DEF Spec

(* Whatever the network does, and whatever stale replies wait in the       *)
(* socket, remote_eth_write_block returns 1 only if the target has carried *)
(* out that very call.                                                     *)
THEOREM WriteAck == Spec => []WriteAckIsOwn
<1>1. AckInv => WriteAckIsOwn
  BY DEF AckInv
<1> QED
  BY <1>1, AckInvariant, PTL

-----------------------------------------------------------------------------
(* An acknowledged WRITE stays: no late copy brings old data back.         *)

LEMMA MemCall ==
    ASSUME OnceInv, MemLatest, Call
    PROVE  MemLatest'
<1>0. TypeOK /\ LogInv
  BY DEF OnceInv, LogInv
<1>1. PICK r \in Request : NewCall(r)
  BY <1>0, CallBegins
<1>2. /\ issued \in Seq(Request) /\ issued' = Append(issued, r)
      /\ effects' = effects /\ mem' = mem /\ calls < MaxCalls
  BY <1>0, <1>1 DEF NewCall, Begin, TypeOK, targetVars
<1>3. /\ calls' = calls + 1 /\ calls \in Nat
      /\ \A k \in 1..calls : issued'[k] = issued[k]
      /\ \A k \in 1..calls' : k \in 1..calls \/ k = calls + 1
      /\ \A k \in 1..calls : \A j \in k + 1..calls : j \in k + 1..calls'
  BY <1>2 DEF calls
<1>4. effects[calls + 1] = 0
  BY <1>0, <1>2, <1>3, SessionConstants DEF LogInv, Unissued, CallId
<1> SUFFICES ASSUME NEW k \in 1..calls',
                    issued'[k].kind = "WRITE", effects'[k] > 0,
                    \A j \in k + 1..calls' :
                      issued'[j].kind = "WRITE" /\ issued'[j].addr = issued'[k].addr
                        => effects'[j] = 0
             PROVE  mem'[issued'[k].addr] = k
  BY DEF MemLatest
<1>5. k \in 1..calls /\ issued'[k] = issued[k]
  <2>1. k # calls + 1
    BY <1>2, <1>4
  <2> QED
    BY <1>3, <2>1
<1>6. \A j \in k + 1..calls :
        issued[j].kind = "WRITE" /\ issued[j].addr = issued[k].addr => effects[j] = 0
  <2> SUFFICES ASSUME NEW j \in k + 1..calls, issued[j].kind = "WRITE",
                      issued[j].addr = issued[k].addr
               PROVE  effects[j] = 0
    OBVIOUS
  <2>1. j \in k + 1..calls' /\ j \in 1..calls
    BY <1>3, <1>5
  <2> QED
    BY <1>2, <1>3, <1>5, <2>1
<1> QED
  BY <1>2, <1>5, <1>6 DEF MemLatest

LEMMA MemWrite ==
    ASSUME OnceInv, MemLatest, Fifo, HandleWrite, [Next]_vars
    PROVE  MemLatest'
<1>0. TypeOK /\ LogInv
  BY DEF OnceInv, LogInv
<1> DEFINE id == toTarget[1].id
<1>1. /\ id \in 1..calls /\ id \in CallId /\ toTarget[1] = issued[id]
      /\ Head(toTarget) = toTarget[1]
      /\ issued[id].kind = "WRITE" /\ issued' = issued /\ calls' = calls
  BY <1>0, HandledCall DEF HandleWrite, calls
<1>2. calls \in Nat /\ \A k \in 1..calls : k \in CallId /\ issued[k].addr \in Addr
  BY <1>0, LogFacts DEF Request
<1>3. mem' = [mem EXCEPT ![issued[id].addr] = id] /\ mem \in [Addr -> Nat]
  BY <1>0, <1>1 DEF HandleWrite, TypeOK
<1>4. effects' = [effects EXCEPT ![id] = effects[id] + 1] /\ effects \in [CallId -> Nat]
  BY <1>0, <1>1 DEF HandleWrite, TypeOK
<1>5. effects'[id] > 0 /\ \A j \in CallId : j # id => effects'[j] = effects[j]
  BY <1>1, <1>4
<1>6. \A j \in CallId : j > id => effects'[j] = 0
  BY OnceHandled
<1> HIDE DEF id
<1> SUFFICES ASSUME NEW k \in 1..calls,
                    issued[k].kind = "WRITE", effects'[k] > 0,
                    \A j \in k + 1..calls :
                      issued[j].kind = "WRITE" /\ issued[j].addr = issued[k].addr
                        => effects'[j] = 0
             PROVE  mem'[issued[k].addr] = k
  BY <1>1 DEF MemLatest
<1>7. CASE k = id
  BY <1>2, <1>3, <1>7
<1>8. CASE k # id
  <2>1. k \in CallId /\ ~(k > id)
    BY <1>2, <1>6
  <2>2. id \in k + 1..calls
    BY <1>1, <1>2, <1>8, <2>1
  <2>3. issued[id].addr # issued[k].addr
    BY <1>1, <1>5, <2>2
  <2>4. effects[k] > 0
    BY <1>5, <1>8, <2>1
  <2>5. \A j \in k + 1..calls :
          issued[j].kind = "WRITE" /\ issued[j].addr = issued[k].addr
            => effects[j] = 0
    <3> SUFFICES ASSUME NEW j \in k + 1..calls, issued[j].kind = "WRITE",
                        issued[j].addr = issued[k].addr
                 PROVE  effects[j] = 0
      OBVIOUS
    <3>1. j # id /\ j \in 1..calls
      BY <1>2, <2>3
    <3> QED
      BY <1>2, <1>5, <3>1
  <2>6. mem[issued[k].addr] = k
    BY <2>4, <2>5 DEF MemLatest
  <2> QED
    BY <1>2, <1>3, <2>3, <2>6
<1> QED
  BY <1>7, <1>8

LEMMA MemOther ==
    ASSUME OnceInv, MemLatest, [Next]_vars, ~Call, ~HandleWrite
    PROVE  MemLatest'
<1>0. TypeOK /\ LogInv
  BY DEF OnceInv, LogInv
<1>1. issued' = issued /\ calls' = calls /\ calls \in Nat
  BY <1>0, QueueShapes, LogFacts DEF calls
<1>2. CASE UNCHANGED <<effects, exec_last_seq, mem>>
  BY <1>1, <1>2 DEF MemLatest
<1>3. CASE HandleExec
  <2>1. mem' = mem /\ toTarget[1].id \in 1..calls /\ issued[toTarget[1].id].kind = "EXEC"
    BY <1>0, <1>3, HandledCall DEF HandleExec
  <2>2. \A k \in 1..calls : issued[k].kind = "WRITE" => effects'[k] = effects[k]
    BY <1>0, <1>3, <2>1, EffectsOfHandle, LogFacts
  <2>3. \A k \in 1..calls : \A j \in k + 1..calls : j \in 1..calls
    BY <1>1
  <2> QED
    BY <1>1, <2>1, <2>2, <2>3 DEF MemLatest
<1> QED
  BY <1>2, <1>3, EffectsStep

(* If the network does not reorder requests, a block whose WRITE returned  *)
(* 1 holds that data until another WRITE to it is asked for: the copies of *)
(* older WRITEs that are still on the way cannot overwrite it.             *)
THEOREM AckedWrite == ASSUME Fifo PROVE Spec => []AckedWriteHolds
<1>1. Init => MemLatest
  BY DEF Init, MemLatest, calls
<1>2. MemLatest /\ OnceInv /\ [Next]_vars => MemLatest'
  BY MemCall, MemWrite, MemOther
<1>3. MemLatest /\ OnceInv /\ AckInv => AckedWriteHolds
  <2> SUFFICES ASSUME MemLatest, OnceInv, AckInv,
                      NEW k \in 1..calls, CallsThat(k, "WRITE", "ok"),
                      \A j \in k + 1..calls :
                        ~(issued[j].kind = "WRITE" /\ issued[j].addr = issued[k].addr)
               PROVE  mem[issued[k].addr] = k
    BY DEF AckedWriteHolds
  <2>1. issued[k].kind = "WRITE" /\ effects[k] > 0
    BY DEF AckInv, WriteAckIsOwn, CallsThat
  <2> QED
    BY <2>1 DEF MemLatest
<1> QED
  BY <1>1, <1>2, <1>3, OnceInvariant, AckInvariant, PTL DEF Spec

-----------------------------------------------------------------------------
(* The session implements the abstract machine.                            *)

(* The abstract view of the log of calls.                                  *)
LogView == [k \in 1..calls |-> [kind |-> issued[k].kind, addr |-> issued[k].addr]]

LEMMA LogViewFacts ==
    ASSUME LogInv
    PROVE  /\ LogView \in Seq(Machine!AbstractCall)
           /\ Len(LogView) = calls
           /\ \A k \in 1..calls : /\ LogView[k].kind = issued[k].kind
                                  /\ LogView[k].addr = issued[k].addr
<1>1. \A k \in 1..calls :
        [kind |-> issued[k].kind, addr |-> issued[k].addr] \in Machine!AbstractCall
  BY LogFacts DEF Request, Kinds, Machine!AbstractCall
<1>2. calls \in Nat
  BY LogFacts
<1> HIDE DEF calls, Machine!AbstractCall
<1> QED
  BY <1>1, <1>2 DEF LogView

LEMMA MachineIssues ==
    ASSUME LogInv, LogInv', Call
    PROVE  Machine!Issue
<1>0. TypeOK /\ TypeOK'
  BY DEF LogInv
<1>1. PICK r \in Request : NewCall(r)
  BY <1>0, CallBegins
<1>2. /\ issued \in Seq(Request) /\ issued' = Append(issued, r)
      /\ outcome' = Append(outcome, "busy") /\ UNCHANGED <<mem, effects>>
      /\ calls < MaxCalls /\ ~busy
  BY <1>0, <1>1 DEF NewCall, Begin, TypeOK, targetVars
<1>3. /\ calls' = calls + 1 /\ calls \in Nat
      /\ \A k \in 1..calls : issued'[k] = issued[k]
      /\ issued'[calls + 1] = r
  BY <1>2 DEF calls
<1> DEFINE c == [kind |-> r.kind, addr |-> r.addr]
<1>4. c \in Machine!AbstractCall
  BY DEF Request, Kinds, Machine!AbstractCall
<1>5. LogView' = Append(LogView, c)
  <2>1. Append(LogView, c) = [k \in 1..calls + 1 |->
                                IF k = calls + 1 THEN c ELSE LogView[k]]
    BY <1>3, LogViewFacts
  <2>2. LogView' = [k \in 1..calls + 1 |->
                      [kind |-> issued'[k].kind, addr |-> issued'[k].addr]]
    BY <1>3 DEF LogView
  <2>3. \A k \in 1..calls + 1 :
          [kind |-> issued'[k].kind, addr |-> issued'[k].addr]
            = IF k = calls + 1 THEN c ELSE LogView[k]
    BY <1>3 DEF LogView
  <2> QED
    BY <2>1, <2>2, <2>3
<1>6. Len(LogView) = calls
  BY LogViewFacts
<1> HIDE DEF c
<1> QED
  BY <1>2, <1>4, <1>5, <1>6
     DEF Machine!Issue, Machine!Pending, Machine!last, LogView, busy

(* A call that returns does so as the machine allows.                      *)
LEMMA MachineReturns ==
    ASSUME AckInv, [Next]_vars, ~Call, UNCHANGED <<mem, effects>>
    PROVE  Machine!ReturnOk \/ Machine!ReturnFail \/ UNCHANGED Machine!machine
<1>0. TypeOK /\ LogInv
  BY DEF AckInv, LogInv
<1>1. issued' = issued /\ calls' = calls /\ LogView' = LogView
  BY <1>0, QueueShapes DEF calls, LogView
<1>2. /\ Len(LogView) = calls
      /\ \A k \in 1..calls : LogView[k].kind = issued[k].kind
      /\ calls \in Nat
  BY <1>0, LogViewFacts, LogFacts
<1>3. CASE UNCHANGED outcome
  BY <1>1, <1>3 DEF Machine!machine, LogView
<1>4. CASE busy /\ Return("fail")
  BY <1>1, <1>2, <1>4
     DEF Machine!ReturnFail, Machine!Pending, Machine!last, LogView, busy, Return
<1>5. CASE busy /\ Return("ok") /\ toHost # <<>> /\ Accepts(op, Head(toHost))
  <2>1. op.kind = "WRITE" => effects[calls] > 0
    BY <1>5, AcceptedIsOwn
  <2>2. calls \in 1..calls /\ LogView[calls].kind = op.kind
    BY <1>2, <1>5 DEF busy, op
  <2> QED
    BY <1>1, <1>2, <1>5, <2>1, <2>2
       DEF Machine!ReturnOk, Machine!Pending, Machine!last, LogView, busy, Return
<1> QED
  BY <1>0, <1>3, <1>4, <1>5, OutcomeShapes

LEMMA MachineWrites ==
    ASSUME OnceInv, Fifo, HandleWrite, [Next]_vars
    PROVE  \E k \in 1..Machine!last : Machine!PerformWrite(k)
<1>0. TypeOK /\ LogInv
  BY DEF OnceInv, LogInv
<1> DEFINE id == toTarget[1].id
<1>1. /\ id \in 1..calls /\ id \in CallId /\ toTarget[1] = issued[id]
      /\ Head(toTarget) = toTarget[1]
      /\ issued[id].kind = "WRITE" /\ issued' = issued /\ calls' = calls
  BY <1>0, HandledCall DEF HandleWrite, calls
<1>2. /\ Len(LogView) = calls /\ LogView' = LogView
      /\ LogView[id].kind = "WRITE" /\ LogView[id].addr = issued[id].addr
  BY <1>0, <1>1, LogViewFacts DEF LogView
<1>3. /\ mem' = [mem EXCEPT ![issued[id].addr] = id]
      /\ effects' = [effects EXCEPT ![id] = effects[id] + 1]
      /\ outcome' = outcome
  BY <1>1 DEF HandleWrite, TakeRequest, hostVars
<1>4. \A j \in id + 1..MaxCalls : effects[j] = 0
  <2>1. \A j \in CallId : j > id => effects[j] = 0
    BY OnceHandled
  <2> QED
    BY <1>1, <2>1, SessionConstants DEF CallId
<1> HIDE DEF id
<1>5. Machine!PerformWrite(id)
  BY <1>1, <1>2, <1>3, <1>4 DEF Machine!PerformWrite, Machine!InOrder, LogView
<1> QED
  BY <1>1, <1>2, <1>5 DEF Machine!last, LogView

LEMMA MachineExecutes ==
    ASSUME OnceInv, Fifo, HandleExec, [Next]_vars, effects' # effects
    PROVE  \E k \in 1..Machine!last : Machine!PerformExec(k)
<1>0. TypeOK /\ LogInv
  BY DEF OnceInv, LogInv
<1> DEFINE id == toTarget[1].id
<1>1. /\ id \in 1..calls /\ id \in CallId /\ toTarget[1] = issued[id]
      /\ Head(toTarget) = toTarget[1] /\ 1 \in 1..Len(toTarget)
      /\ issued[id].kind = "EXEC" /\ issued' = issued /\ calls' = calls
  BY <1>0, HandledCall DEF HandleExec, calls
<1>2. /\ Len(LogView) = calls /\ LogView' = LogView
      /\ LogView[id].kind = "EXEC"
  BY <1>0, <1>1, LogViewFacts DEF LogView
<1>3. /\ issued[id].seq # exec_last_seq
      /\ effects' = [effects EXCEPT ![id] = effects[id] + 1]
  BY <1>1 DEF HandleExec, Fifo, s_strtoul_hex
<1>4. outcome' = outcome /\ mem' = mem
  BY DEF HandleExec, TakeRequest, hostVars
<1>5. effects[id] = 0
  BY <1>0, <1>1, <1>3 DEF OnceInv, Guarded, TypeOK
<1>6. \A j \in id + 1..MaxCalls : effects[j] = 0
  <2>1. \A j \in CallId : j > id => effects[j] = 0
    BY OnceHandled
  <2> QED
    BY <1>1, <2>1, SessionConstants DEF CallId
<1> HIDE DEF id
<1>7. Machine!PerformExec(id)
  BY <1>1, <1>2, <1>3, <1>4, <1>5, <1>6
     DEF Machine!PerformExec, Machine!InOrder, LogView
<1> QED
  BY <1>1, <1>2, <1>7 DEF Machine!last, LogView

(* If the network does not reorder requests, the session, with its copies, *)
(* losses, timeouts and stale replies, behaves like a machine that carries *)
(* out each call directly: in order, an EXEC at most once, and a WRITE     *)
(* before it is reported done.                                             *)
THEOREM SessionImplementsMachine ==
    ASSUME Fifo PROVE Spec => ImplementsMachine
<1>1. Init => Machine!MachineInit
  <2> SUFFICES ASSUME Init PROVE Machine!MachineInit
    OBVIOUS
  <2>1. issued = <<>> /\ calls = 0
    BY DEF Init, calls
  <2>2. LogView = <<>>
    BY <2>1 DEF LogView
  <2> QED
    BY <2>2 DEF Init, Machine!MachineInit, LogView, CallId
<1>2. /\ OnceInv /\ AckInv /\ LogInv' /\ [Next]_vars
      => [Machine!MachineNext]_(Machine!machine)
  <2> SUFFICES ASSUME OnceInv, AckInv, LogInv', [Next]_vars
               PROVE  [Machine!MachineNext]_(Machine!machine)
    OBVIOUS
  <2>0. LogInv /\ TypeOK
    BY DEF AckInv, LogInv
  <2>1. CASE Call
    BY <2>0, <2>1, MachineIssues DEF Machine!MachineNext
  <2>2. CASE HandleWrite
    BY <2>2, MachineWrites DEF Machine!MachineNext
  <2>3. CASE HandleExec /\ effects' # effects
    BY <2>3, MachineExecutes DEF Machine!MachineNext
  <2>4. CASE HandleExec /\ effects' = effects /\ ~Call
    BY <2>4, MachineReturns DEF HandleExec, Machine!MachineNext
  <2>5. CASE ~Call /\ UNCHANGED <<effects, exec_last_seq, mem>>
    BY <2>5, MachineReturns DEF Machine!MachineNext
  <2> QED
    BY <2>1, <2>2, <2>3, <2>4, <2>5, EffectsStep
<1> QED
  BY <1>1, <1>2, OnceInvariant, AckInvariant, LogInvariant, PTL
     DEF Spec, ImplementsMachine, Machine!MachineSpec

-----------------------------------------------------------------------------
(***************************************************************************)
(* What the answers mean.  The first part is about any network that keeps  *)
(* the order of requests: how old the data of a READ may be.  The second   *)
(* is about a session whose round trips are shorter than the timeout of    *)
(* select(): the answer of every call is then true.                        *)
(***************************************************************************)

(* What a block holds is one of the things it was seen to hold since the   *)
(* last WRITE that returned 1, and so is the data of every READ reply.     *)
MemSeen == \A a \in Addr : mem[a] \in seen[a]

DataSeen ==
    \A i \in 1..Len(toHost) :
        toHost[i].kind = "READ" => toHost[i].data \in seen[toHost[i].addr]

(* Behind a reply to the running WRITE there is no READ reply: the READ    *)
(* would have been sent before the WRITE and handled after it.             *)
NoReadBehind ==
    busy /\ op.kind = "WRITE" =>
        \A i, j \in 1..Len(toHost) :
            /\ i < j
            /\ toHost[i].kind = "WRITE" /\ toHost[i].seq = op.seq
            => toHost[j].kind # "READ"

SinceInv == MemSeen /\ DataSeen /\ NoReadBehind /\ ReadSinceLastAck

(***************************************************************************)
(* A session in time: a timeout means that the datagram or its answer was  *)
(* lost, nothing is duplicated or reordered, EXEC calls are a second apart *)
(* and the time is less than the value exec_last_seq starts with.          *)
(***************************************************************************)
InTime ==
    /\ Timely = TRUE /\ MaxDups = 0 /\ Tails = {NoTail}
    /\ ExecSpacing > 0
    /\ MaxClock \in 1..SeqSpace - 2

(* A reply to the running call, true when it was sent and still true.      *)
TrueReply(p) ==
    /\ p.kind = op.kind /\ p.addr = op.addr /\ p.len = op.len
    /\ op.kind = "WRITE" => p.seq = op.seq
    /\ op.kind = "READ" => p.data = mem[op.addr]
    /\ op.kind = "EXEC" => effects[calls] > 0

(* One datagram is on the way, or none, and it belongs to the running call *)
OneAtATime ==
    /\ Len(toTarget) + Len(toHost) <= 1
    /\ ~busy => toTarget = <<>> /\ toHost = <<>>
    /\ \A i \in 1..Len(toTarget) : toTarget[i] = op
    /\ \A i \in 1..Len(toHost) : TrueReply(toHost[i])

(* The seqs of EXEC calls are past times and grow, and the one the target  *)
(* remembers belongs to a call it executed, so a new one is always new.    *)
ExecTimes ==
    /\ clock < SeqSpace - 1
    /\ \A k \in 1..calls : issued[k].kind = "EXEC" => issued[k].seq <= clock
    /\ \A j, k \in 1..calls :
          j < k /\ issued[j].kind = "EXEC" /\ issued[k].kind = "EXEC"
              => issued[j].seq < issued[k].seq

LastExec ==
    \/ exec_last_seq = SeqSpace - 1
    \/ \E k \in 1..calls :
          /\ issued[k].kind = "EXEC" /\ effects[k] > 0
          /\ issued[k].seq = exec_last_seq

InTimeInv ==
    OneAtATime /\ ExecTimes /\ LastExec /\ ExecOkMeansExecuted /\ ReadOkIsCurrent

-----------------------------------------------------------------------------
(* The oldest request and the reply the target sends for it.               *)

LEMMA HandleAnswers ==
    ASSUME LogInv, Handle
    PROVE  /\ 1 \in 1..Len(toTarget) /\ toTarget[1] \in Request
           /\ toTarget[1].id \in 1..calls /\ toTarget[1] = issued[toTarget[1].id]
           /\ toTarget # <<>> /\ toTarget' = Tail(toTarget)
           /\ UNCHANGED hostVars
           /\ \E p \in Reply :
                 /\ p.kind = toTarget[1].kind
                 /\ p.addr = toTarget[1].addr /\ p.len = toTarget[1].len
                 /\ toTarget[1].kind = "WRITE" => p.seq = toTarget[1].seq
                 /\ toTarget[1].kind = "READ" => p.data = mem[toTarget[1].addr]
                 /\ Answer(toTarget[1], p)
<1> DEFINE m == toTarget[1]
<1>0. TypeOK
  BY DEF LogInv
<1>1. PICK kind \in Kinds : TakeRequest(kind)
  BY DEF Handle, HandleTest, HandleRead, HandleWrite, HandleExec, Kinds
<1>2. /\ m = Head(toTarget) /\ m \in Request /\ m.id \in 1..calls
      /\ m = issued[m.id] /\ 1 \in 1..Len(toTarget)
  BY <1>1, HandledCall
<1>3. toTarget # <<>> /\ toTarget' = Tail(toTarget) /\ UNCHANGED hostVars
  BY <1>1 DEF TakeRequest
<1>4. mem[m.addr] \in Nat
  BY <1>0, <1>2 DEF TypeOK, Request
<1>5. ASSUME NEW d \in Nat
      PROVE  /\ ReplyTo(m, d) \in Reply /\ ReplyTo(m, d).kind = m.kind
             /\ ReplyTo(m, d).addr = m.addr /\ ReplyTo(m, d).seq = m.seq
             /\ ReplyTo(m, d).len = m.len /\ ReplyTo(m, d).data = d
  BY <1>2 DEF ReplyTo, Reply, Request
<1>6. CASE HandleTest
  BY <1>2, <1>3, <1>5, <1>6 DEF HandleTest, TakeRequest
<1>7. CASE HandleRead
  BY <1>2, <1>3, <1>4, <1>5, <1>7 DEF HandleRead, TakeRequest
<1>8. CASE HandleWrite
  BY <1>2, <1>3, <1>5, <1>8 DEF HandleWrite, TakeRequest
<1>9. CASE HandleExec
  <2>1. PICK tail \in Tails :
          Answer(m, [ReplyTo(m, 0) EXCEPT !.seq = s_strtoul_hex(m.seq, tail)])
    BY <1>2, <1>9 DEF HandleExec
  <2> DEFINE p == [ReplyTo(m, 0) EXCEPT !.seq = s_strtoul_hex(m.seq, tail)]
  <2>2. s_strtoul_hex(m.seq, tail) \in Nat
    BY <1>2, ParseType DEF Request
  <2>3. p \in Reply /\ p.kind = m.kind /\ p.addr = m.addr /\ p.len = m.len
    BY <1>2, <2>2 DEF ReplyTo, Reply, Request
  <2>4. m.kind = "EXEC"
    BY <1>2, <1>9 DEF HandleExec, TakeRequest
  <2>5. Answer(m, p)
    BY <2>1
  <2> HIDE DEF p
  <2> QED
    BY <1>2, <1>3, <2>3, <2>4, <2>5
<1> QED
  BY <1>6, <1>7, <1>8, <1>9 DEF Handle

(* The queue of replies after an answer.                                   *)
LEMMA AnswerQueue ==
    ASSUME TypeOK, NEW m, NEW p \in Reply, Answer(m, p)
    PROVE  /\ Len(toHost) \in Nat /\ Len(toHost') \in Nat
           /\ Len(toHost') <= Len(toHost) + 1
           /\ \A i \in 1..Len(toHost') :
                 \/ i \in 1..Len(toHost) /\ toHost'[i] = toHost[i]
                 \/ i = Len(toHost) + 1 /\ toHost'[i] = p /\ m.sock = sock
<1>1. toHost \in Seq(Reply) /\ Len(toHost) <= Cap
  BY DEF TypeOK
<1>2. CASE m.sock = sock
  <2>1. toHost' = Enqueue(toHost, p)
    BY <1>2 DEF Answer
  <2>2. toHost' = toHost \/ toHost' = Append(toHost, p)
    BY <2>1 DEF Enqueue
  <2> QED
    BY <1>1, <1>2, <2>2
<1>3. CASE m.sock # sock
  <2>1. toHost' = toHost
    BY <1>3 DEF Answer
  <2> QED
    BY <1>1, <2>1
<1> QED
  BY <1>2, <1>3

(* The queue of replies after the oldest is gone.                          *)
LEMMA ShorterQueue ==
    ASSUME TypeOK, toHost # <<>>, toHost' = Tail(toHost)
    PROVE  /\ Len(toHost) \in Nat /\ Len(toHost') = Len(toHost) - 1
           /\ 1 \in 1..Len(toHost) /\ Head(toHost) = toHost[1] /\ toHost[1] \in Reply
           /\ \A i \in 1..Len(toHost') :
                 /\ i + 1 \in 1..Len(toHost) /\ toHost'[i] = toHost[i + 1]
                 /\ 1 < i + 1
<1>1. toHost \in Seq(Reply)
  BY DEF TypeOK
<1>2. /\ Len(toHost') = Len(toHost) - 1 /\ Len(toHost) >= 1 /\ Len(toHost) \in Nat
      /\ Head(toHost) = toHost[1] /\ toHost[1] \in Reply
      /\ \A i \in 1..Len(toHost') :
            i + 1 \in 1..Len(toHost) /\ toHost'[i] = toHost[i + 1]
  BY <1>1, TailFacts
<1> QED
  BY <1>2

-----------------------------------------------------------------------------
(* How old the data of a READ may be.                                      *)

(* A reply with the seq of the running WRITE answers it.                   *)
LEMMA OwnSeqIsOwn ==
    ASSUME AckInv, busy, op.kind = "WRITE", NEW i \in 1..Len(toHost),
           toHost[i].kind = "WRITE", toHost[i].seq = op.seq
    PROVE  effects[calls] > 0
<1>0. TypeOK /\ LogInv
  BY DEF AckInv, LogInv
<1>1. calls \in Nat /\ calls \in 1..calls /\ op = issued[calls]
  BY <1>0, LogFacts DEF busy, op
<1>2. PICK k \in 1..calls :
        /\ issued[k].kind = "WRITE" /\ effects[k] > 0
        /\ issued[k].seq = toHost[i].seq /\ issued[k].sock = sock
  BY DEF AckInv, RepliesOwn
<1>3. issued[calls].sock = sock
  BY <1>1 DEF AckInv, OwnSocket
<1>4. issued[calls].seq \in Nat
  BY <1>0, <1>1, LogFacts DEF Request
<1>5. ~(k < calls)
  BY <1>1, <1>2, <1>3, <1>4 DEF AckInv, SeqsGrow
<1>6. k = calls
  BY <1>1, <1>5
<1> QED
  BY <1>2, <1>6

LEMMA SinceCall ==
    ASSUME SinceInv, AckInv, Call
    PROVE  SinceInv'
<1>0. TypeOK /\ LogInv
  BY DEF AckInv, LogInv
<1>1. PICK r \in Request : NewCall(r)
  BY <1>0, CallBegins
<1>2. /\ issued \in Seq(Request) /\ issued' = Append(issued, r)
      /\ outcome \in Seq({"busy", "ok", "fail"})
      /\ outcome' = Append(outcome, "busy") /\ Len(outcome) = calls
      /\ UNCHANGED <<mem, seen, toHost, sock, got>>
  BY <1>0, <1>1 DEF NewCall, Begin, TypeOK, targetVars, calls
<1>3. /\ calls' = calls + 1 /\ calls \in Nat
      /\ issued'[calls'] = r /\ outcome'[calls'] = "busy"
  BY <1>2 DEF calls
<1>4. op' = r /\ ~(Latest("READ", "ok")')
  BY <1>3 DEF op, Latest, CallsThat
<1>5. NoReadBehind'
  <2>1. ASSUME r.kind = "WRITE", NEW i \in 1..Len(toHost),
               toHost[i].kind = "WRITE", toHost[i].seq = r.seq
        PROVE  FALSE
    <3>1. PICK k \in 1..calls :
            /\ issued[k].kind = "WRITE"
            /\ issued[k].seq = toHost[i].seq /\ issued[k].sock = sock
      BY <2>1 DEF AckInv, RepliesOwn
    <3>2. wseq > 0 /\ issued[k].seq <= wseq
      BY <3>1 DEF AckInv, SeqsBelow
    <3>3. r.seq = NextWriteSeq
      BY <1>1, <2>1 DEF NewCall
    <3>4. wseq \in Nat /\ issued[k].seq \in Nat
      BY <1>0, LogFacts DEF TypeOK, Request
    <3>5. r.seq = wseq + 1
      BY <3>2, <3>3, <3>4 DEF NextWriteSeq
    <3> QED
      BY <2>1, <3>1, <3>2, <3>4, <3>5
  <2> QED
    BY <1>2, <1>4, <2>1 DEF NoReadBehind
<1>6. MemSeen' /\ DataSeen'
  BY <1>2 DEF SinceInv, MemSeen, DataSeen
<1>7. ReadSinceLastAck'
  BY <1>4 DEF ReadSinceLastAck
<1> QED
  BY <1>5, <1>6, <1>7 DEF SinceInv

(* A step that neither handles a request nor returns 1.                    *)
QuietStep ==
    /\ UNCHANGED <<mem, seen, issued, got>>
    /\ \/ toHost' = toHost
       \/ toHost' = <<>>
       \/ toHost # <<>> /\ toHost' = Tail(toHost)
    /\ \/ outcome' = outcome
       \/ busy /\ Return("fail")

LEMMA SinceQuiet ==
    ASSUME SinceInv, TypeOK, QuietStep
    PROVE  SinceInv'
<1> USE DEF QuietStep
<1>1. calls' = calls /\ op' = op
  BY DEF calls, op
<1>2. (busy' => busy) /\ (Latest("READ", "ok")' => Latest("READ", "ok"))
  <2>1. CASE outcome' = outcome
    BY <1>1, <2>1 DEF busy, Latest, CallsThat
  <2>2. CASE busy /\ Return("fail")
    <3>1. outcome'[calls] = "fail"
      BY <2>2, ReturnType
    <3> QED
      BY <1>1, <2>2, <3>1 DEF busy, Latest, CallsThat
  <2> QED
    BY <2>1, <2>2
<1>3. MemSeen' /\ ReadSinceLastAck'
  BY <1>1, <1>2 DEF SinceInv, MemSeen, ReadSinceLastAck
<1>4. DataSeen' /\ NoReadBehind'
  <2>1. CASE toHost' = toHost
    BY <1>1, <1>2, <2>1 DEF SinceInv, DataSeen, NoReadBehind
  <2>2. CASE toHost' = <<>>
    BY <2>2 DEF DataSeen, NoReadBehind
  <2>3. CASE toHost # <<>> /\ toHost' = Tail(toHost)
    <3>1. \A i \in 1..Len(toHost') :
             i + 1 \in 1..Len(toHost) /\ toHost'[i] = toHost[i + 1]
      BY <2>3, ShorterQueue
    <3>2. DataSeen'
      BY <3>1 DEF SinceInv, DataSeen
    <3>3. NoReadBehind'
      <4> SUFFICES ASSUME busy, op.kind = "WRITE",
                          NEW i \in 1..Len(toHost'), NEW j \in 1..Len(toHost'), i < j,
                          toHost'[i].kind = "WRITE", toHost'[i].seq = op.seq
                   PROVE  toHost'[j].kind # "READ"
        BY <1>1, <1>2 DEF NoReadBehind
      <4>1. i + 1 < j + 1
        OBVIOUS
      <4> QED
        BY <3>1, <4>1 DEF SinceInv, NoReadBehind
    <3> QED
      BY <3>2, <3>3
  <2> QED
    BY <2>1, <2>2, <2>3
<1> QED
  BY <1>3, <1>4 DEF SinceInv

LEMMA SinceSucceed ==
    ASSUME SinceInv, AckInv, busy, toHost # <<>>, toHost' = Tail(toHost),
           Succeed(Head(toHost)), UNCHANGED <<issued, mem>>
    PROVE  SinceInv'
<1>0. TypeOK /\ LogInv
  BY DEF AckInv, LogInv
<1>1. /\ 1 \in 1..Len(toHost) /\ Head(toHost) = toHost[1]
      /\ \A i \in 1..Len(toHost') :
            i + 1 \in 1..Len(toHost) /\ toHost'[i] = toHost[i + 1] /\ 1 < i + 1
  BY <1>0, ShorterQueue
<1>2. /\ Accepts(op, toHost[1]) /\ Return("ok")
      /\ got' = IF op.kind = "READ" THEN toHost[1].data ELSE got
      /\ seen' = IF op.kind = "WRITE" THEN [a \in Addr |-> {mem[a]}] ELSE seen
  BY <1>1 DEF Succeed
<1>3. calls' = calls /\ op' = op /\ outcome'[calls] = "ok" /\ ~busy'
  BY <1>0, <1>2, ReturnType DEF calls, op, busy
<1>4. NoReadBehind'
  BY <1>3 DEF NoReadBehind
<1>5. MemSeen'
  BY <1>2 DEF SinceInv, MemSeen
<1>6. DataSeen'
  <2>1. CASE op.kind = "WRITE"
    <3>1. toHost[1].kind = "WRITE" /\ toHost[1].seq = op.seq
      BY <1>2, <2>1 DEF Accepts
    <3>2. \A i \in 1..Len(toHost') : toHost'[i].kind # "READ"
      BY <1>1, <2>1, <3>1 DEF SinceInv, NoReadBehind
    <3> QED
      BY <3>2 DEF DataSeen
  <2>2. CASE op.kind # "WRITE"
    BY <1>1, <1>2, <2>2 DEF SinceInv, DataSeen
  <2> QED
    BY <2>1, <2>2
<1>7. ReadSinceLastAck'
  <2>1. CASE op.kind = "READ"
    <3>1. toHost[1].kind = "READ" /\ toHost[1].addr = op.addr
      BY <1>2, <2>1 DEF Accepts
    <3>2. toHost[1].data \in seen[op.addr]
      BY <1>1, <3>1 DEF SinceInv, DataSeen
    <3> QED
      BY <1>2, <1>3, <2>1, <3>2 DEF ReadSinceLastAck
  <2>2. CASE op.kind # "READ"
    BY <1>3, <2>2 DEF ReadSinceLastAck, Latest, CallsThat, op
  <2> QED
    BY <2>1, <2>2
<1> QED
  BY <1>4, <1>5, <1>6, <1>7 DEF SinceInv

LEMMA SinceRecv ==
    ASSUME SinceInv, AckInv, recvfrom
    PROVE  SinceInv'
<1>0. TypeOK
  BY DEF AckInv, LogInv
<1>1. /\ busy /\ toHost # <<>> /\ toHost' = Tail(toHost)
      /\ UNCHANGED <<issued, mem>>
      /\ Succeed(Head(toHost)) \/ Reject(Head(toHost)) \/ Ignore(Head(toHost))
  BY DEF recvfrom, targetVars
<1>2. CASE Succeed(Head(toHost))
  BY <1>1, <1>2, SinceSucceed
<1>3. CASE Reject(Head(toHost))
  <2>1. QuietStep
    BY <1>1, <1>3 DEF Reject, QuietStep
  <2> QED
    BY <1>0, <2>1, SinceQuiet
<1>4. CASE Ignore(Head(toHost))
  <2>1. QuietStep
    BY <1>1, <1>4 DEF Ignore, TryAgain, QuietStep
  <2> QED
    BY <1>0, <2>1, SinceQuiet
<1> QED
  BY <1>1, <1>2, <1>3, <1>4

(* A request is handled: what a block held stays in seen, and a READ of an *)
(* older call is not handled after the running WRITE.                      *)
LEMMA SinceHandle ==
    ASSUME SinceInv, AckInv, OnceInv, Handle
    PROVE  SinceInv'
<1>0. TypeOK /\ LogInv
  BY DEF AckInv, LogInv
<1> DEFINE m == toTarget[1]
<1>1. /\ 1 \in 1..Len(toTarget) /\ m \in Request
      /\ m.id \in 1..calls /\ m = issued[m.id] /\ UNCHANGED hostVars
  BY <1>0, HandleAnswers
<1>2. PICK p \in Reply :
        /\ p.kind = m.kind /\ p.addr = m.addr
        /\ m.kind = "READ" => p.data = mem[m.addr]
        /\ Answer(m, p)
  BY <1>0, HandleAnswers
<1>3. /\ Len(toHost) \in Nat /\ Len(toHost') <= Len(toHost) + 1
      /\ \A i \in 1..Len(toHost') :
            \/ i \in 1..Len(toHost) /\ toHost'[i] = toHost[i]
            \/ i = Len(toHost) + 1 /\ toHost'[i] = p
  BY <1>0, <1>2, AnswerQueue
<1>4. calls' = calls /\ op' = op /\ busy' = busy /\ got' = got
  BY <1>1 DEF hostVars, calls, op, busy
<1>5. m.addr \in Addr /\ m.id \in Nat
  BY <1>1 DEF Request, CallId
<1>6. /\ \A a \in Addr : seen[a] \subseteq seen'[a]
      /\ MemSeen'
  <2>1. CASE HandleWrite
    <3>1. /\ mem' = [mem EXCEPT ![m.addr] = m.id]
          /\ seen' = [seen EXCEPT ![m.addr] = seen[m.addr] \cup {m.id}]
      <4>1. Head(toTarget) = m
        BY <1>0, <2>1, TakeType DEF HandleWrite
      <4> QED
        BY <2>1, <4>1 DEF HandleWrite
    <3>2. mem \in [Addr -> Nat] /\ seen \in [Addr -> SUBSET Nat]
      BY <1>0 DEF TypeOK
    <3> HIDE DEF m
    <3> QED
      BY <1>5, <3>1, <3>2 DEF SinceInv, MemSeen
  <2>2. CASE HandleTest \/ HandleRead \/ HandleExec
    <3>1. mem' = mem /\ seen' = seen
      BY <2>2 DEF HandleTest, HandleRead, HandleExec, targetVars
    <3> QED
      BY <3>1 DEF SinceInv, MemSeen
  <2> QED
    BY <2>1, <2>2 DEF Handle
<1>7. toHost \in Seq(Reply)
  BY <1>0 DEF TypeOK
<1>8. DataSeen'
  <2> SUFFICES ASSUME NEW i \in 1..Len(toHost'), toHost'[i].kind = "READ"
               PROVE  toHost'[i].data \in seen'[toHost'[i].addr]
    BY DEF DataSeen
  <2>1. CASE i \in 1..Len(toHost) /\ toHost'[i] = toHost[i]
    <3>1. toHost[i].data \in seen[toHost[i].addr]
      BY <2>1 DEF SinceInv, DataSeen
    <3>2. toHost[i] \in Reply
      BY <1>7, <2>1
    <3>3. toHost[i].addr \in Addr
      BY <3>2 DEF Reply
    <3> QED
      BY <1>6, <2>1, <3>1, <3>3
  <2>2. CASE toHost'[i] = p
    <3>1. p.data = mem[m.addr] /\ p.addr = m.addr
      BY <1>2, <2>2
    <3>2. mem[m.addr] \in seen[m.addr]
      BY <1>5 DEF SinceInv, MemSeen
    <3> QED
      BY <1>5, <1>6, <2>2, <3>1, <3>2
  <2> QED
    BY <1>3, <2>1, <2>2
<1>9. NoReadBehind'
  <2> SUFFICES ASSUME busy, op.kind = "WRITE",
                      NEW i \in 1..Len(toHost'), NEW j \in 1..Len(toHost'), i < j,
                      toHost'[i].kind = "WRITE", toHost'[i].seq = op.seq,
                      toHost'[j].kind = "READ"
               PROVE  FALSE
    BY <1>4 DEF NoReadBehind
  <2>1. i \in 1..Len(toHost) /\ toHost'[i] = toHost[i]
    <3>1. i # Len(toHost) + 1
      BY <1>3
    <3> QED
      BY <1>3, <3>1
  <2>2. CASE j \in 1..Len(toHost) /\ toHost'[j] = toHost[j]
    BY <2>1, <2>2 DEF SinceInv, NoReadBehind
  <2>3. CASE toHost'[j] = p
    <3>1. m.kind = "READ"
      BY <1>2, <2>3
    <3>2. calls \in Nat /\ calls \in CallId /\ effects[calls] > 0
      <4>1. effects[calls] > 0
        BY <2>1, OwnSeqIsOwn
      <4>2. calls \in Nat /\ calls \in 1..calls
        BY <1>0, LogFacts DEF busy
      <4> QED
        BY <1>0, <4>1, <4>2, LogFacts
    <3>3. m.id # calls
      BY <1>1, <3>1 DEF op
    <3>4. calls > m.id
      BY <1>1, <3>2, <3>3
    <3>5. effects[calls] = 0
      BY <1>1, <3>2, <3>4 DEF OnceInv, NotYet
    <3> QED
      BY <3>2, <3>5
  <2> QED
    BY <1>3, <2>2, <2>3
<1>10. ReadSinceLastAck'
  <2> SUFFICES ASSUME Latest("READ", "ok")' PROVE got' \in seen'[op'.addr]
    BY DEF ReadSinceLastAck
  <2>1. Latest("READ", "ok")
    BY <1>1 DEF Latest, CallsThat, hostVars, calls
  <2>2. got \in seen[op.addr]
    BY <2>1 DEF SinceInv, ReadSinceLastAck
  <2>3. calls \in Nat /\ calls \in 1..calls
    BY <1>0, <2>1, LogFacts DEF Latest
  <2>4. op \in Request
    BY <1>0, <2>3, LogFacts DEF op
  <2>5. op.addr \in Addr
    BY <2>4 DEF Request
  <2> QED
    BY <1>4, <1>6, <2>2, <2>5
<1> QED
  BY <1>6, <1>8, <1>9, <1>10 DEF SinceInv

LEMMA SinceStep ==
    ASSUME SinceInv, AckInv, OnceInv, [Next]_vars
    PROVE  SinceInv'
<1>0. TypeOK
  BY DEF AckInv, LogInv
<1>1. CASE Call
  BY <1>1, SinceCall
<1>2. CASE recvfrom
  BY <1>2, SinceRecv
<1>3. CASE Handle
  BY <1>3, SinceHandle
<1>4. CASE Timeout
  <2>1. QuietStep
    BY <1>4 DEF Timeout, TryAgain, targetVars, QuietStep
  <2> QED
    BY <1>0, <2>1, SinceQuiet
<1>5. CASE Reopen \/ Tick \/ Network \/ UNCHANGED vars
  <2>1. QuietStep
    BY <1>5 DEF Reopen, Tick, Network, LoseRequest, LoseReply, DuplicateRequest,
       ReorderRequests, vars, hostVars, targetVars, QuietStep
  <2> QED
    BY <1>0, <2>1, SinceQuiet
<1> QED
  BY <1>1, <1>2, <1>3, <1>4, <1>5 DEF Next

(* If the network does not reorder requests, the data a READ returns, even *)
(* from a late reply to another READ, was in memory at some time since the *)
(* last WRITE that returned 1.                                             *)
THEOREM ReadIsRecent == ASSUME Fifo PROVE Spec => []ReadSinceLastAck
<1>1. Init => SinceInv
  <2> SUFFICES ASSUME Init PROVE SinceInv
    OBVIOUS
  <2>1. /\ toHost = <<>> /\ issued = <<>>
        /\ mem = [a \in Addr |-> 0] /\ seen = [a \in Addr |-> {0}]
    BY DEF Init
  <2>2. MemSeen
    BY <2>1 DEF MemSeen
  <2>3. calls = 0
    BY <2>1 DEF calls
  <2> QED
    BY <2>1, <2>2, <2>3 DEF SinceInv, DataSeen, NoReadBehind, ReadSinceLastAck, busy, Latest
<1>2. SinceInv /\ AckInv /\ OnceInv /\ [Next]_vars => SinceInv'
  BY SinceStep
<1>3. SinceInv => ReadSinceLastAck
  BY DEF SinceInv
<1> QED
  BY <1>1, <1>2, <1>3, OnceInvariant, AckInvariant, PTL DEF Spec

-----------------------------------------------------------------------------
(* A session in time.                                                      *)

(* What an EXEC call adds to the log.                                      *)
LEMMA ExecBegins ==
    ASSUME TypeOK, Call, issued'[calls + 1].kind = "EXEC"
    PROVE  /\ issued'[calls + 1].seq = clock
           /\ \A s \in ExecSeqs : clock >= s + ExecSpacing
<1>1. issued \in Seq(Request)
  BY DEF TypeOK
<1>2. ASSUME NEW kind, NEW a, NEW x, NEW n, Begin(NewRequest(kind, a, x, n))
      PROVE  issued'[calls + 1].kind = kind /\ issued'[calls + 1].seq = x
  <2>1. issued' = Append(issued, NewRequest(kind, a, x, n))
    BY <1>2 DEF Begin
  <2>2. issued'[calls + 1] = NewRequest(kind, a, x, n)
    BY <1>1, <2>1 DEF calls
  <2> QED
    BY <2>2 DEF NewRequest
<1>3. ~remote_eth_test
  BY <1>2 DEF remote_eth_test
<1>4. ASSUME NEW a \in Addr, NEW n \in Lens PROVE ~remote_eth_read_block(a, n)
  BY <1>2 DEF remote_eth_read_block
<1>5. ASSUME NEW a \in Addr PROVE ~remote_eth_write_block(a)
  BY <1>2 DEF remote_eth_write_block
<1>6. PICK a \in Addr : remote_eth_exec(a)
  BY <1>3, <1>4, <1>5 DEF Call
<1> QED
  BY <1>2, <1>6 DEF remote_eth_exec, NextExecSeq

LEMMA InTimeCall ==
    ASSUME InTime, InTimeInv, LogInv, Call
    PROVE  InTimeInv'
<1>0. TypeOK
  BY DEF LogInv
<1>1. PICK r \in Request : NewCall(r)
  BY <1>0, CallBegins
<1>2. /\ issued \in Seq(Request) /\ issued' = Append(issued, r)
      /\ outcome \in Seq({"busy", "ok", "fail"})
      /\ outcome' = Append(outcome, "busy") /\ Len(outcome) = calls
      /\ toTarget' = Enqueue(toTarget, r)
      /\ UNCHANGED <<toHost, clock, exec_last_seq, effects>>
      /\ ~busy
  BY <1>0, <1>1 DEF NewCall, Begin, TypeOK, targetVars, calls
<1>3. /\ calls' = calls + 1 /\ calls \in Nat
      /\ issued'[calls + 1] = r /\ outcome'[calls + 1] = "busy"
      /\ \A k \in 1..calls : issued'[k] = issued[k] /\ outcome'[k] = outcome[k]
      /\ \A k \in 1..calls' : k \in 1..calls \/ k = calls + 1
      /\ \A k \in 1..calls : k \in 1..calls'
  BY <1>2 DEF calls
<1>4. op' = r /\ busy'
  BY <1>3 DEF op, busy
<1>5. toTarget = <<>> /\ toHost = <<>>
  BY <1>2 DEF InTimeInv, OneAtATime
<1>6. toTarget' = <<r>>
  BY <1>2, <1>5, SessionConstants DEF Enqueue
<1>7. OneAtATime'
  <2>1. Len(toTarget') = 1 /\ toTarget'[1] = r /\ Len(toHost') = 0
    BY <1>2, <1>5, <1>6
  <2>2. \A i \in 1..Len(toTarget') : toTarget'[i] = op'
    BY <1>4, <2>1
  <2>3. 1..Len(toHost') = {} /\ Len(toTarget') + Len(toHost') <= 1
    BY <2>1
  <2> QED
    BY <1>4, <2>2, <2>3 DEF OneAtATime
<1>8. ExecTimes'
  <2>1. clock \in Nat /\ \A k \in 1..calls : issued[k].seq \in Nat
    BY <1>0, LogFacts DEF TypeOK, Request
  <2>2. r.kind = "EXEC" =>
           /\ r.seq = clock
           /\ \A k \in 1..calls : issued[k].kind = "EXEC" => issued[k].seq < clock
    <3> SUFFICES ASSUME r.kind = "EXEC"
                 PROVE  /\ r.seq = clock
                        /\ \A k \in 1..calls :
                              issued[k].kind = "EXEC" => issued[k].seq < clock
      OBVIOUS
    <3>1. r.seq = clock /\ \A s \in ExecSeqs : clock >= s + ExecSpacing
      BY <1>0, <1>3, ExecBegins
    <3>2. ASSUME NEW k \in 1..calls, issued[k].kind = "EXEC"
          PROVE  issued[k].seq < clock
      <4>1. issued[k].seq \in ExecSeqs
        BY <3>2 DEF ExecSeqs
      <4>2. clock >= issued[k].seq + ExecSpacing
        BY <3>1, <4>1
      <4> QED
        BY <2>1, <4>2, SessionConstants DEF InTime
    <3> QED
      BY <3>1, <3>2
  <2>3. clock' < SeqSpace - 1
    BY <1>2 DEF InTimeInv, ExecTimes
  <2>4. ASSUME NEW k \in 1..calls', issued'[k].kind = "EXEC"
        PROVE  issued'[k].seq <= clock'
    <3>1. CASE k \in 1..calls
      BY <1>2, <1>3, <2>4, <3>1 DEF InTimeInv, ExecTimes
    <3>2. CASE k = calls + 1
      <4>1. issued'[k] = r /\ clock' = clock
        BY <1>2, <1>3, <3>2
      <4>2. r.seq = clock
        BY <2>2, <2>4, <4>1
      <4> QED
        BY <2>1, <4>1, <4>2
    <3> QED
      BY <1>3, <3>1, <3>2
  <2>5. ASSUME NEW j \in 1..calls', NEW k \in 1..calls', j < k,
               issued'[j].kind = "EXEC", issued'[k].kind = "EXEC"
        PROVE  issued'[j].seq < issued'[k].seq
    <3>0. j \in 1..calls
      BY <1>3, <2>5
    <3>1. CASE k \in 1..calls
      BY <1>3, <2>5, <3>0, <3>1 DEF InTimeInv, ExecTimes
    <3>2. CASE k = calls + 1
      BY <1>3, <2>2, <2>5, <3>0, <3>2
    <3> QED
      BY <1>3, <3>1, <3>2
  <2> QED
    BY <2>3, <2>4, <2>5 DEF ExecTimes
<1>9. LastExec'
  BY <1>2, <1>3 DEF InTimeInv, LastExec
<1>10. ExecOkMeansExecuted'
  BY <1>2, <1>3 DEF InTimeInv, ExecOkMeansExecuted, CallsThat
<1>11. ReadOkIsCurrent'
  BY <1>3 DEF ReadOkIsCurrent, Latest, CallsThat
<1> QED
  BY <1>7, <1>8, <1>9, <1>10, <1>11 DEF InTimeInv

(* The running call, in a step that keeps the log.                         *)
LEMMA RunningCall ==
    ASSUME LogInv, issued' = issued
    PROVE  /\ calls' = calls /\ op' = op /\ calls \in Nat
           /\ busy => calls \in 1..calls /\ calls \in CallId /\ op = issued[calls]
<1>1. calls' = calls /\ op' = op /\ calls \in Nat
  BY LogFacts DEF calls, op
<1>2. busy => calls \in 1..calls
  BY <1>1 DEF busy
<1> QED
  BY <1>1, <1>2, LogFacts DEF op

(* Nothing of the target changes, and no time passes.                      *)
LEMMA SameTimes ==
    ASSUME InTimeInv, UNCHANGED <<issued, clock, exec_last_seq, effects>>
    PROVE  ExecTimes' /\ LastExec'
<1>1. calls' = calls
  BY DEF calls
<1> QED
  BY <1>1 DEF InTimeInv, ExecTimes, LastExec

LEMMA InTimeTimeout ==
    ASSUME InTime, InTimeInv, LogInv, Timeout
    PROVE  InTimeInv' /\ toTarget = <<>> /\ toHost = <<>>
<1>0. TypeOK
  BY DEF LogInv
<1>1. /\ busy /\ toTarget = <<>> /\ toHost = <<>> /\ TryAgain
      /\ UNCHANGED <<clock, issued, toHost, exec_last_seq, effects, mem, got>>
  BY DEF Timeout, InTime, targetVars
<1>2. /\ calls' = calls /\ op' = op
      /\ calls \in 1..calls /\ calls \in CallId /\ op = issued[calls]
  BY <1>1, RunningCall
<1>3. ExecTimes' /\ LastExec'
  BY <1>1, SameTimes
<1>4. CASE outcome' = outcome /\ toTarget' = Enqueue(toTarget, op)
  <2>1. toTarget' = <<op>>
    BY <1>1, <1>4, SessionConstants DEF Enqueue
  <2>2. Len(toTarget') = 1 /\ toTarget'[1] = op /\ Len(toHost') = 0
    BY <1>1, <2>1
  <2>3. busy'
    BY <1>1, <1>2, <1>4 DEF busy
  <2>4. /\ \A i \in 1..Len(toTarget') : toTarget'[i] = op'
        /\ 1..Len(toHost') = {} /\ Len(toTarget') + Len(toHost') <= 1
    BY <1>2, <2>2
  <2>5. OneAtATime'
    BY <2>3, <2>4 DEF OneAtATime
  <2>6. ExecOkMeansExecuted' /\ ReadOkIsCurrent'
    BY <1>1, <1>2, <1>4
       DEF InTimeInv, ExecOkMeansExecuted, ReadOkIsCurrent, Latest, CallsThat
  <2> QED
    BY <1>1, <1>3, <2>5, <2>6 DEF InTimeInv
<1>5. CASE Return("fail") /\ toTarget' = toTarget
  <2>1. /\ outcome'[calls] = "fail"
        /\ \A k \in 1..calls : k # calls => outcome'[k] = outcome[k]
    BY <1>0, <1>1, <1>5, ReturnType
  <2>2. Len(toTarget') = 0 /\ Len(toHost') = 0 /\ toTarget' = <<>> /\ toHost' = <<>>
    BY <1>1, <1>5
  <2>3. OneAtATime'
    BY <2>2 DEF OneAtATime
  <2>4. ExecOkMeansExecuted' /\ ReadOkIsCurrent'
    BY <1>1, <1>2, <2>1
       DEF InTimeInv, ExecOkMeansExecuted, ReadOkIsCurrent, Latest, CallsThat
  <2> QED
    BY <1>1, <1>3, <2>3, <2>4 DEF InTimeInv
<1> QED
  BY <1>1, <1>4, <1>5 DEF TryAgain

(* The reply a call reads is its own, and it accepts it.                   *)
LEMMA InTimeRecv ==
    ASSUME InTime, InTimeInv, LogInv, recvfrom
    PROVE  InTimeInv' /\ outcome'[calls] = "ok"
<1>0. TypeOK
  BY DEF LogInv
<1>1. /\ busy /\ toHost # <<>> /\ toHost' = Tail(toHost)
      /\ UNCHANGED <<clock, issued, exec_last_seq, effects, mem>>
      /\ Succeed(Head(toHost)) \/ Reject(Head(toHost)) \/ Ignore(Head(toHost))
  BY DEF recvfrom, targetVars
<1>2. /\ calls' = calls /\ op' = op
      /\ calls \in 1..calls /\ calls \in CallId /\ op = issued[calls]
  BY <1>1, RunningCall
<1>3. /\ Len(toHost) \in Nat /\ Len(toHost') = Len(toHost) - 1
      /\ 1 \in 1..Len(toHost) /\ Head(toHost) = toHost[1]
  BY <1>0, <1>1, ShorterQueue
<1>4. toTarget \in Seq(Request) /\ toHost' \in Seq(Reply)
  <2>1. toHost \in Seq(Reply)
    BY <1>0 DEF TypeOK
  <2> QED
    BY <1>0, <1>1, <2>1, TailFacts DEF TypeOK
<1>5. Len(toTarget) = 0 /\ Len(toHost') = 0
  <2>1. Len(toTarget) + Len(toHost) <= 1 /\ Len(toTarget) \in Nat
    BY <1>4 DEF InTimeInv, OneAtATime
  <2> QED
    BY <1>3, <2>1
<1>6. TrueReply(toHost[1])
  BY <1>3 DEF InTimeInv, OneAtATime
<1>7. op.len \in Nat /\ op.kind \in Kinds
  <2>1. op \in Request
    BY <1>2, LogFacts
  <2> QED
    BY <2>1, SessionConstants DEF Request
<1>8. Accepts(op, toHost[1]) /\ ~Ignores(op, toHost[1])
  BY <1>6, <1>7 DEF Accepts, Ignores, TrueReply, Kinds
<1>9. /\ Return("ok") /\ toTarget' = toTarget
      /\ op.kind = "READ" => got' = toHost[1].data
  BY <1>1, <1>3, <1>8 DEF Succeed, Reject, Ignore
<1>10. /\ outcome'[calls] = "ok"
       /\ \A k \in 1..calls : k # calls => outcome'[k] = outcome[k]
  BY <1>0, <1>1, <1>9, ReturnType
<1>11. OneAtATime'
  <2>1. toTarget' = <<>> /\ toHost' = <<>>
    BY <1>4, <1>5, <1>9
  <2>2. Len(toTarget') = 0 /\ Len(toHost') = 0
    BY <2>1
  <2> QED
    BY <2>1, <2>2 DEF OneAtATime
<1>12. ExecOkMeansExecuted'
  <2> SUFFICES ASSUME NEW k \in 1..calls, CallsThat(k, "EXEC", "ok")'
               PROVE  effects'[k] > 0
    BY <1>2 DEF ExecOkMeansExecuted
  <2>1. CASE k = calls
    BY <1>1, <1>2, <1>6, <2>1 DEF CallsThat, TrueReply
  <2>2. CASE k # calls
    BY <1>1, <1>10, <2>2 DEF InTimeInv, ExecOkMeansExecuted, CallsThat
  <2> QED
    BY <2>1, <2>2
<1>13. ReadOkIsCurrent'
  <2> SUFFICES ASSUME op.kind = "READ" PROVE got' = mem'[op'.addr]
    BY <1>1, <1>2 DEF ReadOkIsCurrent, Latest, CallsThat
  <2> QED
    BY <1>1, <1>2, <1>6, <1>9 DEF TrueReply
<1>14. ExecTimes' /\ LastExec'
  BY <1>1, SameTimes
<1> QED
  BY <1>10, <1>11, <1>12, <1>13, <1>14 DEF InTimeInv

(* An EXEC request is always executed: its seq is not the one remembered,  *)
(* or it is its own.                                                       *)
LEMMA InTimeExec ==
    ASSUME InTime, InTimeInv, LogInv, HandleExec, busy, toTarget[1] = op
    PROVE  effects'[calls] > 0 /\ LastExec'
<1>0. TypeOK
  BY DEF LogInv
<1>1. issued' = issued /\ Head(toTarget) = toTarget[1] /\ op.kind = "EXEC"
  BY HandledCall DEF HandleExec
<1>2. /\ calls' = calls /\ op' = op /\ calls \in Nat
      /\ calls \in 1..calls /\ calls \in CallId /\ op = issued[calls]
  BY <1>1, RunningCall
<1>3. op.id = calls
  BY <1>2 DEF LogInv, Numbered
<1>4. \/ /\ op.seq # exec_last_seq /\ exec_last_seq' = op.seq
         /\ effects' = [effects EXCEPT ![calls] = effects[calls] + 1]
      \/ /\ op.seq = exec_last_seq /\ UNCHANGED <<effects, exec_last_seq>>
  BY <1>1, <1>3 DEF HandleExec, s_strtoul_hex, InTime
<1>5. effects \in [CallId -> Nat]
  BY <1>0 DEF TypeOK
<1>6. CASE op.seq # exec_last_seq
  <2>1. effects'[calls] > 0 /\ exec_last_seq' = op.seq
    BY <1>2, <1>4, <1>5, <1>6
  <2> QED
    BY <1>1, <1>2, <2>1 DEF LastExec
<1>7. CASE op.seq = exec_last_seq
  <2>1. exec_last_seq # SeqSpace - 1
    <3>1. op.seq <= clock /\ clock < SeqSpace - 1
      BY <1>1, <1>2 DEF InTimeInv, ExecTimes
    <3>2. clock \in Nat /\ op.seq \in Nat /\ SeqSpace \in Nat
      BY <1>0, <1>2, LogFacts, SessionConstants DEF TypeOK, Request
    <3> QED
      BY <1>7, <3>1, <3>2
  <2>2. PICK k \in 1..calls :
          issued[k].kind = "EXEC" /\ effects[k] > 0 /\ issued[k].seq = exec_last_seq
    BY <2>1 DEF InTimeInv, LastExec
  <2>3. k = calls
    <3>1. k < calls => issued[k].seq < issued[calls].seq
      BY <1>1, <1>2, <2>2 DEF InTimeInv, ExecTimes
    <3>2. issued[k].seq \in Nat /\ issued[k].seq = issued[calls].seq
      BY <1>2, <1>7, <2>2, LogFacts DEF Request
    <3> QED
      BY <1>2, <3>1, <3>2
  <2>4. UNCHANGED <<effects, exec_last_seq>>
    BY <1>4, <1>7
  <2> QED
    BY <1>1, <1>2, <2>2, <2>3, <2>4 DEF LastExec
<1> QED
  BY <1>6, <1>7

LEMMA InTimeHandle ==
    ASSUME InTime, InTimeInv, LogInv, OwnSocket, Handle
    PROVE  InTimeInv'
<1>0. TypeOK
  BY DEF LogInv
<1> DEFINE m == toTarget[1]
<1>1. /\ 1 \in 1..Len(toTarget) /\ m \in Request
      /\ toTarget # <<>> /\ toTarget' = Tail(toTarget)
      /\ UNCHANGED <<clock, sock, issued, outcome, got>>
  BY HandleAnswers DEF hostVars
<1>2. PICK p \in Reply :
        /\ p.kind = m.kind /\ p.addr = m.addr /\ p.len = m.len
        /\ m.kind = "WRITE" => p.seq = m.seq
        /\ m.kind = "READ" => p.data = mem[m.addr]
        /\ Answer(m, p)
  BY HandleAnswers
<1>3. m = op /\ busy
  BY <1>1 DEF InTimeInv, OneAtATime
<1>4. /\ calls' = calls /\ op' = op
      /\ calls \in 1..calls /\ calls \in CallId /\ op = issued[calls]
  BY <1>1, <1>3, RunningCall
<1>5. busy'
  BY <1>1, <1>3, <1>4 DEF busy
<1>6. /\ Len(toTarget') = 0 /\ Len(toHost) = 0
      /\ Len(toHost') \in Nat /\ Len(toHost') <= 1
  <2>1. toTarget \in Seq(Request) /\ toHost \in Seq(Reply)
    BY <1>0 DEF TypeOK
  <2>2. Len(toTarget) + Len(toHost) <= 1
    BY DEF InTimeInv, OneAtATime
  <2>3. Len(toTarget') = Len(toTarget) - 1 /\ Len(toTarget) >= 1
    BY <1>1, <2>1, TailFacts
  <2>4. Len(toTarget) \in Nat /\ Len(toHost) \in Nat
    BY <2>1
  <2>6. Len(toTarget) = 1 /\ Len(toHost) = 0
    BY <2>2, <2>3, <2>4
  <2>5. Len(toHost') \in Nat /\ Len(toHost') <= Len(toHost) + 1
    BY <1>0, <1>2, AnswerQueue
  <2> QED
    BY <2>3, <2>5, <2>6
<1>7. \A i \in 1..Len(toHost') : toHost'[i] = p
  <2>1. 1..Len(toHost) = {}
    BY <1>6
  <2> QED
    BY <1>0, <1>2, <2>1, AnswerQueue
<1>8. /\ op.kind = "READ" => mem' = mem
      /\ op.kind = "EXEC" => effects'[calls] > 0
      /\ LastExec'
  <2>1. CASE HandleExec
    <3>1. op.kind = "EXEC"
      BY <1>3, <2>1, HandledCall DEF HandleExec
    <3> QED
      BY <1>3, <2>1, <3>1, InTimeExec
  <2>2. CASE HandleWrite
    <3>1. op.kind = "WRITE" /\ exec_last_seq' = exec_last_seq
      BY <1>3, <2>2, HandledCall DEF HandleWrite
    <3>2. \A k \in 1..calls : effects[k] > 0 => effects'[k] > 0
      BY <2>2, EffectsGrow, LogFacts DEF Next, Handle
    <3>3. LastExec'
      BY <1>1, <1>4, <3>1, <3>2 DEF InTimeInv, LastExec
    <3> QED
      BY <3>1, <3>3
  <2>3. CASE HandleTest \/ HandleRead
    <3>1. op.kind \in {"TEST", "READ"} /\ UNCHANGED <<mem, exec_last_seq, effects>>
      BY <1>3, <2>3, HandledCall DEF HandleTest, HandleRead, targetVars
    <3>2. LastExec'
      BY <1>1, <3>1, SameTimes
    <3> QED
      BY <3>1, <3>2
  <2> QED
    BY <2>1, <2>2, <2>3 DEF Handle
<1>9. TrueReply(p)'
  BY <1>2, <1>3, <1>4, <1>8 DEF TrueReply
<1>10. OneAtATime'
  <2>1. 1..Len(toTarget') = {} /\ Len(toTarget') + Len(toHost') <= 1
    BY <1>6
  <2>2. \A i \in 1..Len(toHost') : TrueReply(toHost[i])'
    BY <1>7, <1>9 DEF TrueReply
  <2> QED
    BY <1>5, <2>1, <2>2 DEF OneAtATime
<1>11. ExecTimes'
  BY <1>1, <1>4 DEF InTimeInv, ExecTimes
<1>12. ExecOkMeansExecuted'
  <2>1. \A k \in 1..calls : effects[k] > 0 => effects'[k] > 0
    BY EffectsGrow, LogFacts DEF Next
  <2> QED
    BY <1>1, <1>4, <2>1 DEF InTimeInv, ExecOkMeansExecuted, CallsThat
<1>13. ReadOkIsCurrent'
  BY <1>4, <1>5 DEF ReadOkIsCurrent, Latest, CallsThat, busy
<1> QED
  BY <1>8, <1>10, <1>11, <1>12, <1>13 DEF InTimeInv

(* The steps of the network, the clock and the host's restart.             *)
LEMMA InTimeOther ==
    ASSUME InTime, InTimeInv, LogInv, Reopen \/ Tick \/ Network \/ UNCHANGED vars
    PROVE  InTimeInv' /\ outcome' = outcome
<1>0. TypeOK
  BY DEF LogInv
<1>1. toTarget \in Seq(Request) /\ toHost \in Seq(Reply) /\ dups \in Nat
  BY <1>0 DEF TypeOK
<1>2. Len(toTarget) \in Nat /\ Len(toHost) \in Nat /\ Len(toTarget) + Len(toHost) <= 1
  BY <1>1 DEF InTimeInv, OneAtATime
<1>3. ~DuplicateRequest /\ ~ReorderRequests
  <2>1. ~DuplicateRequest
    BY <1>1 DEF DuplicateRequest, InTime
  <2>2. 1..Len(toTarget) - 1 = {}
    BY <1>2
  <2> QED
    BY <2>1, <2>2 DEF ReorderRequests
<1>4. UNCHANGED <<issued, outcome, got, exec_last_seq, effects, mem>>
  BY <1>3 DEF Reopen, Tick, Network, LoseRequest, LoseReply, vars, hostVars, targetVars
<1>5. calls' = calls /\ op' = op /\ busy' = busy
  BY <1>4 DEF calls, op, busy
<1>6. /\ \A i \in 1..Len(toTarget') : \E g \in 1..Len(toTarget) : toTarget'[i] = toTarget[g]
      /\ \A i \in 1..Len(toHost') : \E g \in 1..Len(toHost) : toHost'[i] = toHost[g]
      /\ Len(toTarget') + Len(toHost') <= 1
      /\ toTarget = <<>> => toTarget' = <<>>
      /\ toHost = <<>> => toHost' = <<>>
  <2>1. CASE LoseRequest
    <3>1. toTarget # <<>> /\ toTarget' = Tail(toTarget) /\ toHost' = toHost
      BY <2>1 DEF LoseRequest
    <3>2. /\ Len(toTarget') = Len(toTarget) - 1
          /\ \A i \in 1..Len(toTarget') :
                i + 1 \in 1..Len(toTarget) /\ toTarget'[i] = toTarget[i + 1]
      BY <1>1, <3>1, TailFacts
    <3>3. Len(toTarget') + Len(toHost') <= 1
      BY <1>2, <3>1, <3>2
    <3> QED
      BY <3>1, <3>2, <3>3
  <2>2. CASE LoseReply
    <3>1. toHost # <<>> /\ toHost' = Tail(toHost) /\ toTarget' = toTarget
      BY <2>2 DEF LoseReply
    <3>2. /\ Len(toHost') = Len(toHost) - 1
          /\ \A i \in 1..Len(toHost') :
                i + 1 \in 1..Len(toHost) /\ toHost'[i] = toHost[i + 1]
      BY <1>1, <3>1, TailFacts
    <3>3. Len(toTarget') + Len(toHost') <= 1
      BY <1>2, <3>1, <3>2
    <3> QED
      BY <3>1, <3>2, <3>3
  <2>3. CASE Reopen
    <3>1. toTarget' = toTarget /\ toHost' = <<>> /\ Len(toHost') = 0
      BY <2>3 DEF Reopen
    <3>2. Len(toTarget') + Len(toHost') <= 1 /\ 1..Len(toHost') = {}
      BY <1>2, <3>1
    <3> QED
      BY <3>1, <3>2
  <2>4. CASE Tick \/ UNCHANGED vars
    <3>1. toTarget' = toTarget /\ toHost' = toHost
      BY <2>4 DEF Tick, vars
    <3> QED
      BY <1>2, <3>1
  <2> QED
    BY <1>3, <2>1, <2>2, <2>3, <2>4 DEF Network
<1>7. OneAtATime'
  <2>1. \A i \in 1..Len(toHost') : TrueReply(toHost[i])'
    BY <1>4, <1>5, <1>6 DEF InTimeInv, OneAtATime, TrueReply
  <2> QED
    BY <1>5, <1>6, <2>1 DEF InTimeInv, OneAtATime
<1>8. LastExec' /\ ExecOkMeansExecuted' /\ ReadOkIsCurrent'
  BY <1>4, <1>5 DEF InTimeInv, LastExec, ExecOkMeansExecuted, ReadOkIsCurrent,
                    Latest, CallsThat
<1>9. clock' < SeqSpace - 1 /\ clock <= clock'
  <2>1. clock \in Nat /\ SeqSpace \in Nat /\ MaxClock \in Nat /\ clock < SeqSpace - 1
    BY <1>0, SessionConstants DEF TypeOK, InTimeInv, ExecTimes
  <2>2. CASE Tick
    BY <2>1, <2>2 DEF Tick, InTime
  <2>3. CASE ~Tick
    <3>1. clock' = clock
      BY <1>3, <2>3 DEF Reopen, Network, LoseRequest, LoseReply, vars, hostVars
    <3> QED
      BY <2>1, <3>1
  <2> QED
    BY <2>2, <2>3
<1>10. ExecTimes'
  <2>1. /\ clock \in Nat /\ clock' \in Int
        /\ \A k \in 1..calls : issued[k].seq \in Nat
    <3>1. clock' = clock \/ clock' = clock + 1
      BY <1>3 DEF Reopen, Tick, Network, LoseRequest, LoseReply, vars, hostVars
    <3> QED
      BY <1>0, <3>1, LogFacts DEF TypeOK, Request
  <2>2. \A k \in 1..calls : issued[k].kind = "EXEC" => issued[k].seq <= clock
    BY DEF InTimeInv, ExecTimes
  <2>3. \A k \in 1..calls : issued[k].kind = "EXEC" => issued[k].seq <= clock'
    BY <1>9, <2>1, <2>2
  <2> QED
    BY <1>4, <1>5, <1>9, <2>3 DEF InTimeInv, ExecTimes
<1> QED
  BY <1>4, <1>7, <1>8, <1>10 DEF InTimeInv

LEMMA InTimeInvariant == ASSUME InTime PROVE Spec => []InTimeInv
<1>1. Init => InTimeInv
  <2> SUFFICES ASSUME Init PROVE InTimeInv
    OBVIOUS
  <2>1. /\ toTarget = <<>> /\ toHost = <<>> /\ issued = <<>>
        /\ clock = 1 /\ exec_last_seq = SeqSpace - 1
    BY DEF Init
  <2>2. calls = 0 /\ Len(toTarget) = 0 /\ Len(toHost) = 0 /\ 1..calls = {}
    BY <2>1 DEF calls
  <2>3. clock < SeqSpace - 1
    BY <2>1, SessionConstants DEF InTime
  <2> QED
    BY <2>1, <2>2, <2>3 DEF InTimeInv, OneAtATime, ExecTimes, LastExec,
       ExecOkMeansExecuted, ReadOkIsCurrent, Latest
<1>2. InTimeInv /\ AckInv /\ [Next]_vars => InTimeInv'
  <2> SUFFICES ASSUME InTimeInv, AckInv, [Next]_vars PROVE InTimeInv'
    OBVIOUS
  <2>1. LogInv /\ OwnSocket
    BY DEF AckInv
  <2> QED
    BY <2>1, InTimeCall, InTimeTimeout, InTimeRecv, InTimeHandle, InTimeOther DEF Next
<1> QED
  BY <1>1, <1>2, AckInvariant, PTL DEF Spec

(* In a session in time remote_eth_exec returns 1 only if the code was     *)
(* run: its second-resolution seq never collides with the one remembered.  *)
THEOREM ExecOkIsTrue == ASSUME InTime PROVE Spec => []ExecOkMeansExecuted
<1>1. InTimeInv => ExecOkMeansExecuted
  BY DEF InTimeInv
<1> QED
  BY <1>1, InTimeInvariant, PTL

(* In a session in time the data of a READ is what the memory holds.       *)
THEOREM ReadIsCurrent == ASSUME InTime PROVE Spec => []ReadOkIsCurrent
<1>1. InTimeInv => ReadOkIsCurrent
  BY DEF InTimeInv
<1> QED
  BY <1>1, InTimeInvariant, PTL

(* In a session in time a call fails only when datagrams were lost: no     *)
(* reply is taken for a failure.                                           *)
THEOREM FailsInSilence == ASSUME InTime PROVE Spec => FailOnlyInSilence
<1>1. ASSUME InTimeInv, AckInv, [Next]_vars, busy, outcome' # outcome,
             outcome'[calls] = "fail"
      PROVE  toTarget = <<>> /\ toHost = <<>>
  <2>1. LogInv
    BY <1>1 DEF AckInv
  <2>2. CASE Call
    <3>1. \E r \in Request : NewCall(r)
      BY <2>1, <2>2, CallBegins DEF LogInv
    <3> QED
      BY <1>1, <3>1 DEF NewCall, Begin
  <2>3. CASE Timeout
    BY <1>1, <2>1, <2>3, InTimeTimeout
  <2>4. CASE recvfrom
    BY <1>1, <2>1, <2>4, InTimeRecv
  <2>5. CASE Handle
    BY <1>1, <2>1, <2>5, HandleAnswers DEF hostVars
  <2>6. CASE Reopen \/ Tick \/ Network \/ UNCHANGED vars
    BY <1>1, <2>1, <2>6, InTimeOther
  <2> QED
    BY <1>1, <2>2, <2>3, <2>4, <2>5, <2>6 DEF Next
<1>2. InTimeInv /\ AckInv /\ [Next]_vars =>
         [busy /\ outcome'[calls] = "fail" => toTarget = <<>> /\ toHost = <<>>]_outcome
  BY <1>1
<1> QED
  BY <1>2, InTimeInvariant, AckInvariant, PTL DEF Spec, FailOnlyInSilence

=============================================================================
