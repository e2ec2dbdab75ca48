----------------------------- MODULE MCStation -----------------------------
(***************************************************************************)
(* A few machines and frames for the station.                              *)
(***************************************************************************)
EXTENDS Station, TLC

Me == <<1, 1, 1, 1>>        \* the address at the start
Other == <<0, 0, 0, 0>>     \* what "9..." is, as 9 is the first number too large

NoBars == [i \in 1..6 |-> "none"]
IoAfterMem64 == [NoBars EXCEPT ![1] = "mem64", ![3] = "io"]
IoInUpperHalf == [NoBars EXCEPT ![1] = "mem64", ![2] = "io"]
Chip(c, k, b) == [chip |-> c, class |-> k, bars |-> b]
Host == Chip("host bridge", "bridge", NoBars)

Machine(buses, functions) ==
    [present |-> TRUE, isa |-> "none", buses |-> buses, functions |-> functions]

(* No PCI, and an ISA card; a card on the second of two buses, whose       *)
(* numbers wrap around; a card that no driver knows and one without an I/O *)
(* range; more functions than the table has room for, and then a card.     *)
SomeMachines == {
    [Machine(1, <<0, 0, 0>> :> Host) EXCEPT !.present = FALSE, !.isa = "stopped"],
    Machine(2, <<0, 0, 0>> :> Host @@ <<1, 0, 0>> :> Chip("other", "bridge", NoBars)
                 @@ <<1, 1, 0>> :> Chip("rtl8101", "network", IoAfterMem64)),
    Machine(4, <<0, 0, 0>> :> Host @@ <<0, 1, 0>> :> Chip("rtl8139", "network", IoAfterMem64)
                 @@ <<0, 1, 1>> :> Chip("pcnet32", "network", IoInUpperHalf)),
    Machine(2, <<0, 0, 0>> :> Host @@ <<0, 0, 1>> :> Host @@ <<0, 1, 0>> :> Host @@ <<0, 1, 1>> :> Host
                 @@ <<1, 0, 0>> :> Chip("pcnet32", "network", IoAfterMem64)) }

Ipv4(words) ==
    [type |-> "ipv4", dst |-> "me", src |-> "peer", from |-> "peer", ip |-> Me, version |-> 4,
     header |-> MinHeader, total |-> MinHeader + Len(words), sz |-> MinHeader + Len(words),
     sum |-> "good", more |-> FALSE, offset |-> 0, proto |-> "icmp", words |-> words, odd |-> 0]

Ping == Ipv4(<<Echo, 1, 0>>)

Arp == [type |-> "arp", form |-> "ethernet and IPv4", op |-> "request", dst |-> "all",
        src |-> "peer", from |-> "peer", ip |-> Me]

(* Echo requests with all checksums and data, shorter datagrams and other  *)
(* types, and requests with one field that is not as it has to be.         *)
SomeFrames ==
    {Ipv4(<<Echo, sum, wd>>) : sum, wd \in 0..Word - 1}
    \cup {Ipv4(words) : words \in {<<>>, <<Echo>>, <<Echo, 1>>, <<0, Word - 1>>, <<0, 3, 0>>}}
    \cup {[Ping EXCEPT !.odd = 1], [Ping EXCEPT !.ip = Other], [Ping EXCEPT !.dst = "all"],
          [Ping EXCEPT !.dst = "another"], [Ping EXCEPT !.version = 6], [Ping EXCEPT !.sum = "bad"],
          [Ping EXCEPT !.header = 0], [Ping EXCEPT !.more = TRUE], [Ping EXCEPT !.offset = 1],
          [Ping EXCEPT !.sz = 0], [Ping EXCEPT !.sz = @ + 1], [Ping EXCEPT !.sz = @ - 1],
          [Ping EXCEPT !.header = @ + 5], [Ping EXCEPT !.proto = "udp"],
          [Ping EXCEPT !.proto = "tcp"], [Ping EXCEPT !.type = "other"]}
    \cup {Arp, [Arp EXCEPT !.ip = Other], [Arp EXCEPT !.dst = "another"],
          [Arp EXCEPT !.op = "reply"], [Arp EXCEPT !.form = "other"]}
=============================================================================
