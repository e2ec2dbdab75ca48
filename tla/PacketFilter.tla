---------------------------- MODULE PacketFilter ----------------------------
(***************************************************************************)
(* What the station makes of a received frame (net_idle and the handlers   *)
(* it calls, eth/c-main.c): the tests a frame has to pass, and the answer. *)
(* The commands behind UDP are the subject of EthSession.                  *)
(*                                                                         *)
(* Lengths are counted in 16 bit words; a datagram of an odd number of     *)
(* bytes has its last byte in the field odd, as a word, or 0.              *)
(***************************************************************************)
EXTENDS Integers, Sequences

CONSTANTS
    Word,           \* 16 bit words are 0..Word - 1
    Echo,           \* the word of type 8, code 0
    MinHeader,      \* 10: words of an IPv4 header without options
    MinIcmp         \* 4: words of an ICMP header

ASSUME FilterConstants ==
    /\ Word \in Nat /\ Echo \in 1..Word - 1
    /\ MinHeader \in Nat /\ MinIcmp \in Nat \ {0, 1}

None == [type |-> "none"]

-----------------------------------------------------------------------------
(* Mutant: the carry is dropped.                                           *)
AddWithoutCarry(sum, wd) == (sum + wd) % Word

(* One turn of the loops over words: the carry is added at the low end.    *)
AddWord(sum, wd) == LET s == sum + wd IN (s + s \div Word) % Word

(* The sum after every word; the one that holds the checksum is left out.  *)
Sums(words, at) ==
    LET sum[i \in 0..Len(words)] ==
            IF i = 0 THEN 0
            ELSE IF i = at THEN sum[i - 1] ELSE AddWord(sum[i - 1], words[i])
    IN  sum

Checksum(words, at) == Word - 1 - Sums(words, at)[Len(words)]

(* An answer to a request for my address, sent to who asked.               *)
net_on_arp(f, ip) ==
    IF f.form = "ethernet and IPv4" /\ f.op = "request" /\ f.ip = ip
    THEN [type |-> "arp reply", to |-> f.src, ip |-> ip, asked |-> f.from]
    ELSE None

(* An echo request is sent back as a reply with a checksum of its own.  A  *)
(* last odd byte is copied and is not part of either checksum.             *)
net_on_ipv4_icmp(f, data) ==
    IF Len(data) >= MinIcmp /\ Checksum(data, 2) = data[2] /\ data[1] = Echo
    THEN LET reply == [data EXCEPT ![1] = 0]
         IN  [type |-> "echo reply", to |-> f.src, ip |-> f.from, odd |-> f.odd,
              words |-> [reply EXCEPT ![2] = Checksum(reply, 2)]]
    ELSE None

(* The tests of an IPv4 header, and the protocols behind it.               *)
net_on_ipv4(f, ip) ==
    IF /\ f.sz >= MinHeader
       /\ f.version = 4
       /\ f.header >= MinHeader
       /\ f.sum = "good"
       /\ f.ip = ip
       /\ ~f.more /\ f.offset = 0
       /\ f.header <= f.sz
       /\ f.header <= f.total
       /\ f.total <= f.sz
    THEN LET data == SubSeq(f.words, 1, f.total - f.header)
         IN  CASE f.proto = "icmp" -> net_on_ipv4_icmp(f, data)
               [] f.proto = "udp"  -> [type |-> "command", to |-> f.src, ip |-> f.from]
               [] OTHER -> None
    ELSE None

(* Mutant: frames to any station are looked at.                            *)
net_idle_promiscuous(f, ip) ==
    CASE f.type = "arp"  -> net_on_arp(f, ip)
      [] f.type = "ipv4" -> net_on_ipv4(f, ip)
      [] OTHER -> None

(* The part of net_idle between get_packet and put_packet.                 *)
net_idle_handle(f, ip) ==
    CASE f.dst \notin {"all", "me"} -> None
      [] f.dst \in {"all", "me"} /\ f.type = "arp"  -> net_on_arp(f, ip)
      [] f.dst \in {"all", "me"} /\ f.type = "ipv4" -> net_on_ipv4(f, ip)
      [] OTHER -> None

-----------------------------------------------------------------------------
(* A reference for both: the sum of words in one's complement, and the     *)
(* echo requests that have to be answered.  A sender never writes the      *)
(* negative zero: what it writes is the complement of a sum that is not 0. *)
Totals(words) ==
    LET total[i \in 0..Len(words)] == IF i = 0 THEN 0 ELSE total[i - 1] + words[i]
    IN  total

Total(words) == Totals(words)[Len(words)]
OnesSum(words) == IF Total(words) = 0 THEN 0 ELSE 1 + ((Total(words) - 1) % (Word - 1))
Valid(words) == OnesSum(words) = Word - 1

ForMe(f, ip) ==
    /\ f.dst \in {"all", "me"} /\ f.ip = ip
    /\ f.version = 4 /\ f.sum = "good" /\ ~f.more /\ f.offset = 0
    /\ MinHeader <= f.header /\ f.header <= f.total /\ f.total <= f.sz

Data(f) == SubSeq(f.words, 1, f.total - f.header)

EchoForMe(f, ip) ==
    /\ ForMe(f, ip)
    /\ Len(Data(f)) >= MinIcmp /\ Data(f)[1] = Echo
    /\ Valid(Data(f)) /\ Data(f)[2] # Word - 1
=============================================================================
