-------------------------- MODULE MCSerialSession --------------------------
(* Instances of SerialSession for model checking.                          *)
EXTENDS SerialSession

CallOf(cmd, addr, count, data) ==
    [cmd |-> cmd, addr |-> addr, count |-> count, data |-> data]

Plain(cmd) == CallOf(cmd, 0, 0, <<>>)
Read(addr, count) == CallOf("READB", addr, count, <<>>)
Write(addr, data) == CallOf("WRITEB", addr, Len(data), data)

Switches == {Plain(m) : m \in Modes}

(* Every mode, reads in and out of every range, data with line ends, and   *)
(* writes to addresses every mode accepts.                                 *)
TimelyCalls ==
    Switches \cup {Plain("TEST"), Plain("EXEC"), Read(0, 0), Read(0, 2),
                   Read(1, 2), Read(2, 1), Write(0, <<>>),
                   Write(0, <<"LF", "x">>), Write(0, <<"ESC", "CR">>)}

(* Writes every mode accepts and writes that are refused or too long.      *)
SlowCalls ==
    {Plain("TEST"), Plain("EXEC"), Plain("386-32"), Plain("x64"), Read(0, 2),
     Read(2, 1), Write(0, <<"LF">>), Write(0, <<"CR", "x">>),
     Write(0, <<"x", "CR", "x">>), Write(1, <<"x", "x">>), Write(1, <<"LF">>),
     Write(1, <<"ESC">>)}

RefusedCalls == {Plain("TEST"), Write(1, <<"x", "LF">>), Write(1, <<"ESC", "x">>)}
=============================================================================
