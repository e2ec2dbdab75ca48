--------------------------- MODULE SerialSession ---------------------------
(***************************************************************************)
(* The serial session: the host library (comm/s_lib.c) and the command     *)
(* loop of stage 2 (stage2-*.asm, one loop per CPU mode) joined by two     *)
(* streams of bytes.  Commands and answers are lines, but WRITEB is        *)
(* followed by data and an answer to READB contains data, and both may     *)
(* hold line ends.  Nothing in an answer says to which command it belongs, *)
(* and the host gives up on an answer after some seconds.                  *)
(*                                                                         *)
(* A stream is a sequence of symbols: one for each byte of data, of "OK "  *)
(* and of the line end, one for each word of text, and one for a whole     *)
(* command without its line end.                                           *)
(***************************************************************************)
EXTENDS Integers, Sequences, FiniteSets

CONSTANTS
    Calls,          \* the calls the host may make
    MaxCalls,       \* bound: how many calls it makes
    Cells,          \* memory has the addresses 0..Cells - 1
    Limit8086,      \* 1 MB
    Limit286,       \* 16 MB
    Word,           \* 2^16, the counts of 16 bit code are taken modulo this
    InBufSize,      \* IN_BUF_SIZE, in symbols
    X64Build,       \* "x64", or "8086" if stage2-x64-stub.asm is linked
    SlowExec,       \* may a program run longer than the host waits?
    Restarts        \* may the host's program be stopped and started again?

Modes == {"8086", "286", "386-16", "386-32", "x64"}
Bytes == {"x", "CR", "LF", "ESC"}
CallType == [cmd : {"TEST", "EXEC", "READB", "WRITEB"} \cup Modes,
             addr : Nat, count : Nat, data : Seq(Bytes)]

ASSUME SerialConstants ==
    /\ MaxCalls \in Nat
    /\ Cells \in Nat \ {0}
    /\ Limit8086 \in Nat
    /\ Limit286 \in Nat
    /\ Limit8086 <= Limit286
    /\ Word \in Nat \ {0}
    /\ InBufSize \in Nat \ {0, 1}
    /\ X64Build \in {"8086", "x64"}
    /\ SlowExec \in BOOLEAN
    /\ Restarts \in BOOLEAN
    /\ \A c \in Calls :
         /\ c \in CallType
         /\ c.addr + c.count <= Cells
         /\ c.cmd = "WRITEB" => c.count = Len(c.data)

VARIABLES
    hpc,            \* where the host's call is
    issued,         \* the calls made so far
    result,         \* what the last call returned, and the buffer it filled
    toTarget,       \* bytes on the way to the target
    toHost,         \* bytes the host has not read
    tpc,            \* where the target is
    in_buf,         \* the target's line buffer
    cur,            \* the call whose data or program the target works on
    left,           \* cx: bytes of data WRITEB still has to take
    bx,             \* where it puts the next one
    mode,           \* the CPU mode, that is, whose command loop runs
    mem,            \* memory
    done,           \* history: the calls the target has carried out
    oneLate         \* history: before the last call, one EXEC was unanswered

hostVars == <<hpc, issued, result, oneLate>>
targetVars == <<tpc, in_buf, cur, left, bx, mode, mem, done>>
vars == <<hostVars, toTarget, toHost, targetVars>>

-----------------------------------------------------------------------------
(* The answers.                                                            *)

Ok(text) == <<"O", "K", "SP">> \o text \o <<"CR", "LF">>
Err(text) == <<"E", "R", "R", "SP">> \o text \o <<"CR", "LF">>

TestText == <<"Test">>
ExecText == <<"Function", "complete">>

-----------------------------------------------------------------------------
(* The host library.                                                       *)

Call == issued[Len(issued)]

(* A command is one symbol; its line end and its data are bytes.           *)
Symbol(b, k) == [byte |-> b, call |-> k]

Wire(c, k) ==
    <<Symbol("cmd", k), Symbol("LF", k)>>
        \o (IF c.cmd = "WRITEB"
            THEN [i \in 1..c.count |-> Symbol(c.data[i], k)]
            ELSE <<>>)

(* remote_rs232_send_command, and for WRITEB the data right behind it.     *)
Send(c, where) ==
    /\ hpc = "idle"
    /\ Len(issued) < MaxCalls
    /\ issued' = Append(issued, c)
    /\ toTarget' = toTarget \o Wire(c, Len(issued) + 1)
    /\ hpc' = where
    /\ oneLate' = ( /\ toTarget = <<>>
                    /\ \/ tpc = "exec" /\ toHost = <<>>
                       \/ tpc = "line" /\ toHost = Ok(ExecText) )
    /\ UNCHANGED <<result, toHost, targetVars>>

remote_rs232_test(c) == c.cmd = "TEST" /\ Send(c, "response")
remote_rs232_switch(c) == c.cmd \in Modes /\ Send(c, "response")
remote_rs232_exec(c) == c.cmd = "EXEC" /\ Send(c, "response")
remote_rs232_write(c) == c.cmd = "WRITEB" /\ Send(c, "response")
remote_rs232_read(c) == c.cmd = "READB" /\ Send(c, "select")

Return(code, buf) ==
    /\ hpc' = "idle"
    /\ result' = [code |-> code, buf |-> buf]
    /\ UNCHANGED <<issued, oneLate, toTarget, targetVars>>

HasLine == \E i \in 1..Len(toHost) : toHost[i] = "LF"
EndOfFirst == CHOOSE i \in 1..Len(toHost) :
                  toHost[i] = "LF" /\ \A j \in 1..i - 1 : toHost[j] # "LF"

BehindLine == SubSeq(toHost, EndOfFirst + 1, Len(toHost))

(* Where the characters are that remote_rs232_get_response keeps of it.    *)
Printable(b) == b \notin {"CR", "LF", "ESC"}
Kept == {i \in 1..EndOfFirst : Printable(toHost[i])}

(* What it has kept begins with p: the n-th character kept is p[n].        *)
Begins(p) ==
    \A n \in 1..Len(p) :
        \E i \in Kept : Cardinality({j \in Kept : j <= i}) = n /\ toHost[i] = p[n]

(* Mutant: only the answer to TEST is good.                                *)
IsOkTest == Begins(<<"O", "K", "SP", "Test">>)

IsOk == Begins(<<"O", "K">>)

(* Mutant: TEST takes any good line for its answer.                        *)
get_response_no_whoops ==
    /\ hpc = "response"
    /\ HasLine
    /\ toHost' = BehindLine
    /\ Return(IF IsOk THEN "ok" ELSE "fail", <<>>)

(* TEST waits for a second line if the first one is of an EXEC.            *)
remote_rs232_get_response ==
    /\ hpc = "response"
    /\ HasLine
    /\ toHost' = BehindLine
    /\ \/ /\ Call.cmd = "TEST"
          /\ Begins(<<"O", "K", "SP", "Function">>)
          /\ hpc' = "second"
          /\ UNCHANGED <<issued, result, oneLate, toTarget, targetVars>>
       \/ /\ ~ ( /\ Call.cmd = "TEST"
                 /\ Begins(<<"O", "K", "SP", "Function">>) )
          /\ Return(IF IsOk THEN "ok" ELSE "fail", <<>>)

(* The second line of TEST, or what follows the head of a refused READB.   *)
get_last_response ==
    /\ hpc \in {"second", "rest"}
    /\ HasLine
    /\ toHost' = BehindLine
    /\ Return(IF IsOk THEN "ok" ELSE "fail", <<>>)

(* No answer will come, or the host has no patience for the one that will. *)
Silence ==
    \/ toTarget = <<>> /\ tpc # "exec"
    \/ SlowExec /\ tpc = "exec"

(* An incomplete line is read and lost.                                    *)
response_timeout ==
    /\ hpc \in {"response", "second", "rest"}
    /\ ~HasLine
    /\ Silence
    /\ toHost' = <<>>
    /\ Return(IF hpc = "rest" THEN "error" ELSE "fail", <<>>)

select_timeout ==
    /\ hpc = "select"
    /\ toHost = <<>>
    /\ Silence
    /\ UNCHANGED toHost
    /\ Return("error", <<>>)

(* select saw a byte; read_forced waits for the first three.               *)
read_head ==
    /\ hpc = "select"
    /\ Len(toHost) >= 3
    /\ hpc' = IF SubSeq(toHost, 1, 3) = <<"O", "K", "SP">> THEN "data" ELSE "rest"
    /\ toHost' = SubSeq(toHost, 4, Len(toHost))
    /\ UNCHANGED <<issued, result, oneLate, toTarget, targetVars>>

(* Mutant: the answer is read as a line.                                   *)
read_data_line ==
    /\ hpc = "data"
    /\ HasLine
    /\ toHost' = BehindLine
    /\ Return("ok", SubSeq(toHost, 1, EndOfFirst - 2))

(* As many bytes as asked for and two more, however long that takes.       *)
read_data ==
    LET n == Call.count
    IN  /\ hpc = "data"
        /\ Len(toHost) >= n + 2
        /\ toHost' = SubSeq(toHost, n + 3, Len(toHost))
        /\ Return(IF SubSeq(toHost, n + 1, n + 2) = <<"CR", "LF">>
                  THEN "ok" ELSE "error",
                  SubSeq(toHost, 1, n))

(* A new program on the host: what has arrived is thrown away.             *)
remote_rs232_configure ==
    /\ Restarts
    /\ hpc' = "idle"
    /\ toHost' = <<>>
    /\ result' = [code |-> "none", buf |-> <<>>]
    /\ UNCHANGED <<issued, oneLate, toTarget, targetVars>>

-----------------------------------------------------------------------------
(* Stage 2.  The five command loops differ in the addresses they refuse,   *)
(* the width of their counts and the mode switches they know.              *)

stage2_8086 == [limit |-> Limit8086, wrap |-> Word, switches |-> Modes]
stage2_286 == [limit |-> Limit286, wrap |-> Word, switches |-> {"8086"}]
stage2_386_16 == [limit |-> Cells, wrap |-> Word, switches |-> {"8086"}]
stage2_386_32 == [limit |-> Cells, wrap |-> Cells + 1, switches |-> {"8086"}]
stage2_x64 == [limit |-> Cells, wrap |-> Cells + 1, switches |-> {"8086"}]

Stage2 == CASE mode = "8086" -> stage2_8086
            [] mode = "286" -> stage2_286
            [] mode = "386-16" -> stage2_386_16
            [] mode = "386-32" -> stage2_386_32
            [] mode = "x64" -> stage2_x64

(* The mode a switch ends in.                                              *)
_jmp(m) == IF m = "x64" THEN X64Build ELSE m

(* Mutant: one character too many.                                         *)
StoredPastEnd(s) ==
    IF Len(in_buf) > InBufSize - 1 THEN in_buf ELSE Append(in_buf, s)

(* in_buf takes no more than IN_BUF_SIZE - 1 characters.                   *)
Stored(s) ==
    IF Len(in_buf) >= InBufSize - 1 THEN in_buf ELSE Append(in_buf, s)

read_char ==
    /\ tpc = "line"
    /\ toTarget # <<>>
    /\ Head(toTarget).byte \notin {"LF", "CR", "ESC"}
    /\ in_buf' = Stored(Head(toTarget))
    /\ toTarget' = Tail(toTarget)
    /\ UNCHANGED <<hostVars, toHost, tpc, cur, left, bx, mode, mem, done>>

(* ESC: the next byte is no line end, whatever it is.                      *)
read_escaped ==
    /\ tpc = "line"
    /\ Len(toTarget) >= 2
    /\ Head(toTarget).byte = "ESC"
    /\ in_buf' = Stored(toTarget[2])
    /\ toTarget' = Tail(Tail(toTarget))
    /\ UNCHANGED <<hostVars, toHost, tpc, cur, left, bx, mode, mem, done>>

AtLineEnd ==
    /\ tpc = "line"
    /\ toTarget # <<>>
    /\ Head(toTarget).byte \in {"LF", "CR"}
    /\ toTarget' = Tail(toTarget)
    /\ in_buf' = <<>>
    /\ UNCHANGED hostVars

(* The line is the command of call k.                                      *)
Is(k) == in_buf = <<Symbol("cmd", k)>>

Answer(text) == toHost' = toHost \o text

empty_line ==
    /\ AtLineEnd
    /\ in_buf = <<>>
    /\ UNCHANGED <<toHost, tpc, cur, left, bx, mode, mem, done>>

command_test(k) ==
    /\ AtLineEnd
    /\ Is(k)
    /\ issued[k].cmd = "TEST"
    /\ Answer(Ok(TestText))
    /\ done' = done \cup {k}
    /\ UNCHANGED <<tpc, cur, left, bx, mode, mem>>

command_switch(k) ==
    /\ AtLineEnd
    /\ Is(k)
    /\ issued[k].cmd \in Stage2.switches
    /\ mode' = _jmp(issued[k].cmd)
    /\ Answer(Ok(<<mode'>>))
    /\ done' = done \cup {k}
    /\ UNCHANGED <<tpc, cur, left, bx, mem>>

command_exec(k) ==
    /\ AtLineEnd
    /\ Is(k)
    /\ issued[k].cmd = "EXEC"
    /\ tpc' = "exec"
    /\ cur' = k
    /\ UNCHANGED <<toHost, left, bx, mode, mem, done>>

(* The program returns to the command loop.                                *)
exec_returns ==
    /\ tpc = "exec"
    /\ Answer(Ok(ExecText))
    /\ tpc' = "line"
    /\ done' = done \cup {cur}
    /\ UNCHANGED <<hostVars, toTarget, in_buf, cur, left, bx, mode, mem>>

Refused(k) == issued[k].addr >= Stage2.limit

Region(c) == [i \in 1..c.count |-> mem[c.addr + i - 1]]

(* Mutant: the answer has no line end.                                     *)
readb_no_crlf(k) ==
    LET c == issued[k]
    IN  /\ AtLineEnd
        /\ Is(k)
        /\ c.cmd = "READB"
        /\ Answer(<<"O", "K", "SP">> \o Region(c))
        /\ done' = done \cup {k}
        /\ UNCHANGED <<tpc, cur, left, bx, mode, mem>>

command_readb(k) ==
    LET c == issued[k]
    IN  /\ AtLineEnd
        /\ Is(k)
        /\ c.cmd = "READB"
        /\ \/ /\ Refused(k)
              /\ Answer(Err(<<"Invalid">>))
              /\ UNCHANGED done
           \/ /\ ~Refused(k)
              /\ Answer(Ok(SubSeq(Region(c), 1, c.count % Stage2.wrap)))
              /\ done' = done \cup {k}
        /\ UNCHANGED <<tpc, cur, left, bx, mode, mem>>

(* Mutant: the count is decremented before it is compared with zero.       *)
writeb_short(k) ==
    LET n == issued[k].count
    IN  /\ AtLineEnd
        /\ Is(k)
        /\ issued[k].cmd = "WRITEB"
        /\ ~Refused(k)
        /\ IF n <= 1
           THEN /\ Answer(Ok(<<"Accepted">>))
                /\ done' = done \cup {k}
                /\ UNCHANGED <<tpc, cur, left, bx>>
           ELSE /\ tpc' = "payload"
                /\ cur' = k
                /\ left' = n - 1
                /\ bx' = issued[k].addr
                /\ UNCHANGED <<toHost, done>>
        /\ UNCHANGED <<mode, mem>>

command_writeb(k) ==
    LET n == issued[k].count % Stage2.wrap
    IN  /\ AtLineEnd
        /\ Is(k)
        /\ issued[k].cmd = "WRITEB"
        /\ \/ /\ Refused(k)
              /\ Answer(Err(<<"Invalid">>))
              /\ UNCHANGED <<tpc, cur, left, bx, done>>
           \/ /\ ~Refused(k)
              /\ n = 0
              /\ Answer(Ok(<<"Accepted">>))
              /\ done' = done \cup {k}
              /\ UNCHANGED <<tpc, cur, left, bx>>
           \/ /\ ~Refused(k)
              /\ n > 0
              /\ tpc' = "payload"
              /\ cur' = k
              /\ left' = n
              /\ bx' = issued[k].addr
              /\ UNCHANGED <<toHost, done>>
        /\ UNCHANGED <<mode, mem>>

(* Mutant: the pointer stays.                                              *)
writeb_no_inc ==
    /\ tpc = "payload"
    /\ toTarget # <<>>
    /\ toTarget' = Tail(toTarget)
    /\ mem' = [mem EXCEPT ![bx] = Head(toTarget).byte]
    /\ left' = left - 1
    /\ \/ /\ left = 1
          /\ Answer(Ok(<<"Accepted">>))
          /\ tpc' = "line"
          /\ done' = done \cup {cur}
       \/ /\ left > 1
          /\ UNCHANGED <<toHost, tpc, done>>
    /\ UNCHANGED <<hostVars, in_buf, cur, bx, mode>>

(* The loop of WRITEB: whatever byte comes is data.                        *)
writeb_byte ==
    /\ tpc = "payload"
    /\ toTarget # <<>>
    /\ toTarget' = Tail(toTarget)
    /\ mem' = [mem EXCEPT ![bx] = Head(toTarget).byte]
    /\ bx' = bx + 1
    /\ left' = left - 1
    /\ \/ /\ left = 1
          /\ Answer(Ok(<<"Accepted">>))
          /\ tpc' = "line"
          /\ done' = done \cup {cur}
       \/ /\ left > 1
          /\ UNCHANGED <<toHost, tpc, done>>
    /\ UNCHANGED <<hostVars, in_buf, cur, mode>>

Understood(k) ==
    issued[k].cmd \in {"TEST", "EXEC", "READB", "WRITEB"} \cup Stage2.switches

unknown_command ==
    /\ AtLineEnd
    /\ in_buf # <<>>
    /\ ~ \E k \in 1..Len(issued) : Is(k) /\ Understood(k)
    /\ Answer(Err(<<"Unknown">>))
    /\ UNCHANGED <<tpc, cur, left, bx, mode, mem, done>>

-----------------------------------------------------------------------------
Init ==
    /\ hpc = "idle"
    /\ issued = <<>>
    /\ result = [code |-> "none", buf |-> <<>>]
    /\ toTarget = <<>>
    /\ toHost = <<>>
    /\ tpc = "line"
    /\ in_buf = <<>>
    /\ cur = 0
    /\ left = 0
    /\ bx = 0
    /\ mode = "8086"
    /\ mem = [a \in 0..Cells - 1 |-> "0"]
    /\ done = {}
    /\ oneLate = FALSE

HostCalls ==
    \E c \in Calls :
        \/ remote_rs232_test(c)
        \/ remote_rs232_switch(c)
        \/ remote_rs232_exec(c)
        \/ remote_rs232_write(c)
        \/ remote_rs232_read(c)

HostWaits ==
    \/ remote_rs232_get_response
    \/ get_last_response
    \/ response_timeout
    \/ select_timeout
    \/ read_head
    \/ read_data

Commands ==
    \E k \in 1..Len(issued) :
        \/ command_test(k)
        \/ command_switch(k)
        \/ command_exec(k)
        \/ command_readb(k)
        \/ command_writeb(k)

Target ==
    \/ read_char
    \/ read_escaped
    \/ empty_line
    \/ Commands
    \/ unknown_command
    \/ writeb_byte

Next ==
    \/ HostCalls
    \/ HostWaits
    \/ remote_rs232_configure
    \/ Target
    \/ exec_returns

Spec == Init /\ [][Next]_vars

(* The host's loops and stage 2's go on; a program that is run returns.    *)
FairSpec == Spec /\ WF_vars(HostWaits) /\ WF_vars(Target) /\ WF_vars(exec_returns)
-----------------------------------------------------------------------------
(* What every variable is.                                                 *)
TypeOK ==
    /\ hpc \in {"idle", "response", "second", "select", "data", "rest"}
    /\ issued \in Seq(Calls)
    /\ result.code \in {"none", "ok", "fail", "error"}
    /\ \A i \in 1..Len(toTarget) : toTarget[i].call \in 1..Len(issued)
    /\ tpc \in {"line", "payload", "exec"}
    /\ Len(in_buf) < InBufSize
    /\ cur \in 0..Len(issued)
    /\ left \in 0..Cells
    /\ bx \in 0..Cells
    /\ mode \in Modes
    /\ DOMAIN mem = 0..Cells - 1
    /\ done \subseteq 1..Len(issued)
    /\ oneLate \in BOOLEAN

Quiet == toTarget = <<>> /\ toHost = <<>> /\ tpc = "line" /\ in_buf = <<>>

(* After a call the two sides agree: nothing is on the way in either       *)
(* direction and the target waits for a new line.  So data that holds line *)
(* ends, refused reads and unknown commands never leave a byte that the    *)
(* next call would take for its own.                                       *)
InStep == hpc = "idle" => Quiet

(* A call that returns 1 has had its effect: the data is in memory, the    *)
(* buffer holds what memory holds, the program has run, the CPU is in the  *)
(* mode that was asked for.                                                *)
OkMeansDone ==
    hpc = "idle" /\ result.code = "ok" =>
        /\ Len(issued) \in done
        /\ Call.cmd = "WRITEB" => Region(Call) = Call.data
        /\ Call.cmd = "READB" => Region(Call) = result.buf
        /\ Call.cmd \in Modes => mode = Call.cmd

(* A call that returns 0 or -1 was not carried out by the target.          *)
FailMeansNotDone ==
    hpc = "idle" /\ result.code \in {"fail", "error"} => Len(issued) \notin done

(* Every call returns.                                                     *)
CallReturns == hpc # "idle" ~> hpc = "idle"

(* The data of a WRITEB is never read as a command line.                   *)
LineIsCommand == \A i \in 1..Len(in_buf) : in_buf[i].byte = "cmd"

(* As long as the host sends only writes that every mode accepts, a line   *)
(* is a command and nothing else, though the host sends on without the     *)
(* answers it has given up.                                                *)
AcceptedLines ==
    (\A k \in 1..Len(issued) :
        issued[k].cmd = "WRITEB" =>
            issued[k].addr < Limit8086 /\ issued[k].count < Word)
        => LineIsCommand

(* An accepted WRITEB takes its own data and nothing else: what it has     *)
(* written is the first part of the data of its call, what it is about to  *)
(* take is the next part, whatever went wrong in the session before.       *)
DataIsOwn ==
    LET c == issued[cur]
        n == bx - c.addr
    IN  tpc = "payload" =>
            /\ \A i \in 1..n : mem[c.addr + i - 1] = c.data[i]
            /\ \A i \in 1..left :
                  i <= Len(toTarget) /\ toTarget[i] = Symbol(c.data[n + i], cur)

(* A good TEST repairs the session after one EXEC the host did not wait    *)
(* for: whether its answer was waiting, or comes before that of TEST.      *)
TestRepairsOne ==
    hpc = "idle" /\ result.code = "ok" /\ Call.cmd = "TEST" /\ oneLate => Quiet
=============================================================================
