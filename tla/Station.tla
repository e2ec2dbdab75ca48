------------------------------ MODULE Station ------------------------------
(***************************************************************************)
(* The program of the Ethernet station from keyboard_init on (c_start and  *)
(* main_menu, eth/c-main.c): it sets up the keyboard, scans the PCI buses, *)
(* chooses and starts a card, and then polls the keyboard and the card.    *)
(* Keys are pressed, bytes arrive from the keyboard and interrupts are     *)
(* taken meanwhile.  The cards themselves are in PcnetRing, Rtl8101Ring    *)
(* and Ne2000Ring; here a frame is simply there or not.                    *)
(***************************************************************************)
EXTENDS Keyb8042, Interrupts, PacketFilter, PciScan

CONSTANTS
    Machines,       \* what can be found on the PCI buses and the ISA bus
    Frames,         \* what can arrive
    DefaultIp,      \* my_ipv4_address at the start
    Byte,           \* numbers of an address are 0..Byte - 1; 256
    MaxInput,       \* 63: what can be typed of an address
    Lines,          \* rows of the screen in pci_bus_menu
    MaxSelect       \* bound on the selected line of pci_bus_menu

ASSUME StationConstants ==
    /\ {Byte, MaxInput, MaxSelect} \subseteq Nat /\ Lines \in Nat \ {0}
    /\ DefaultIp \in [1..4 -> 0..Byte - 1]

(* Of a machine: there is a bus.  Of a frame with a datagram: what follows *)
(* its header are words, as many as the header says if that many arrived.  *)
ASSUME MachinesAssumption == \A m \in Machines : m.buses \in Nat \ {0}

ASSUME FramesAssumption ==
    \A f \in Frames : f.type = "ipv4" =>
        /\ {f.sz, f.header, f.total} \subseteq Nat
        /\ f.words \in Seq(0..Word - 1)
        /\ MinHeader <= f.header /\ f.total <= f.sz => f.total - f.header <= Len(f.words)

VARIABLES
    machine,        \* the hardware
    isa,            \* the ISA card: "none", "stopped" or "started"
    phase,          \* what the program is doing
    back,           \* what it does after autoprobe_network_card
    table,          \* pci_device
    chosen,         \* chosen_net_drv and chosen_net_dev
    open,           \* chosen_net_drv_open: "yes" or "no"
    started,        \* history: the driver whose card has been started
    reprobed,       \* history: probed again after the card was opened
    ip,             \* my_ipv4_address
    input,          \* what is typed of an address
    select, scroll, \* the cursor of pci_bus_menu
    reply           \* what net_idle has just sent

cardVars == <<isa, chosen, open, started, reprobed>>
menuVars == <<input, select, scroll>>
mainVars == <<machine, table, phase, back, cardVars, ip, menuVars, reply>>
vars == <<keybVars, irqVars, mainVars>>

NoCard == [drv |-> "none", dev |-> 0]

(* A wait for a byte, and the byte.                                        *)
Key(b) == read_buffer(b) /\ UNCHANGED <<kpc, coming, scanning, irqVars>>

-----------------------------------------------------------------------------
(* c_start.                                                                *)

keyboard_init ==
    /\ phase = "keyboard"
    /\ IF kpc = Done THEN phase' = "scan" /\ UNCHANGED keybVars
       ELSE keyb8042_init /\ UNCHANGED phase
    /\ UNCHANGED <<irqVars, machine, table, back, cardVars, ip, menuVars, reply>>

(* pci_init and sti.                                                       *)
Scan ==
    /\ phase = "scan"
    /\ table' = IF machine.present THEN pci_init(machine) ELSE <<>>
    /\ flag' = "on"
    /\ phase' = "probe"
    /\ UNCHANGED <<keybVars, irr, isr, imr, icw4, timer, machine, back, cardVars, ip, menuVars, reply>>

(* autoprobe_network_card: without a PCI card it asks for ISA cards.       *)
autoprobe_network_card ==
    /\ phase = "probe"
    /\ chosen' = autoprobe(table)
    /\ reprobed' = IF open = "yes" THEN "yes" ELSE reprobed
    /\ phase' = IF chosen' = NoCard THEN "ask" ELSE back
    /\ UNCHANGED <<keybVars, irqVars, machine, table, back, isa, open, started, ip, menuVars, reply>>

(* ne2000_probe leaves the card it finds stopped.                          *)
ne2000_probe == isa' = IF isa = "none" THEN "none" ELSE "stopped"

(* The driver of the NE2000 is the only one that looks for an ISA card.    *)
autoprobe_network_card_isa ==
    /\ ne2000_probe
    /\ chosen' = [drv |-> IF isa = "none" THEN "none" ELSE "ne2000", dev |-> 0]
    /\ UNCHANGED <<open, started, reprobed>>

(* The answer to the question.                                             *)
Ask ==
    /\ phase = "ask"
    /\ \E b \in Keys \cup Answers :
          /\ Key(b)
          /\ \/ to_ascii(b) = "none" /\ UNCHANGED <<phase, cardVars>>
             \/ to_ascii(b) = "y" /\ autoprobe_network_card_isa /\ phase' = back
             \/ /\ to_ascii(b) \notin {"none", "y"}
                /\ phase' = back
                /\ UNCHANGED cardVars
    /\ UNCHANGED <<machine, table, back, ip, menuVars, reply>>

(* The init functions of the drivers.  That of the RTL8101 fails if the    *)
(* card is still being reset when it is first looked at.                   *)
CanStart(d) ==
    \/ d.drv = "ne2000" /\ isa # "none"
    \/ d.drv \in {"pcnet32", "rtl8101"} /\ HasIo(table[d.dev].bars)

Start(d) ==
    /\ CanStart(d)
    /\ open' = "yes"
    /\ started' = d.drv
    /\ isa' = IF d.drv = "ne2000" THEN "started" ELSE isa
    /\ UNCHANGED <<chosen, reprobed>>

(* Mutant: what init returns is not looked at.                             *)
start_fails_opens(d) ==
    /\ ~CanStart(d) \/ d.drv = "rtl8101"
    /\ open' = "yes"
    /\ UNCHANGED <<isa, chosen, started, reprobed>>

StartFails(d) == (~CanStart(d) \/ d.drv = "rtl8101") /\ UNCHANGED cardVars

OpenFirst ==
    /\ phase = "start"
    /\ IF open = "no" /\ chosen # NoCard
       THEN Start(chosen) \/ StartFails(chosen)
       ELSE UNCHANGED cardVars
    /\ phase' = "menu"
    /\ UNCHANGED <<keybVars, irqVars, machine, table, back, ip, menuVars, reply>>

-----------------------------------------------------------------------------
(* main_menu.  Every turn ends with net_idle.                              *)

MenuKey ==
    /\ phase = "menu"
    /\ \E b \in Keys \cup Answers :
          /\ Key(b)
          /\ \/ to_ascii(b) = "p" /\ machine.present /\ phase' = "pci menu"
                /\ select' = 0 /\ scroll' = 0 /\ UNCHANGED <<cardVars, back, input>>
             \/ to_ascii(b) = "i" /\ phase' = "entry"
                /\ input' = <<>> /\ UNCHANGED <<cardVars, back, select, scroll>>
             \/ to_ascii(b) = "x" /\ phase' = "probe" /\ back' = "net" /\ UNCHANGED <<cardVars, menuVars>>
             \/ /\ to_ascii(b) = "o"
                /\ IF open = "yes" \/ chosen.drv = "none" THEN phase' = "net" /\ UNCHANGED cardVars
                   ELSE \/ Start(chosen) /\ phase' = "net"
                        \/ StartFails(chosen) /\ phase' = "failed"
                /\ UNCHANGED <<back, menuVars>>
             \/ /\ to_ascii(b) \notin {"i", "x", "o"} /\ (to_ascii(b) # "p" \/ ~machine.present)
                /\ phase' = "net" /\ UNCHANGED <<cardVars, back, menuVars>>
    /\ reply' = None
    /\ UNCHANGED <<machine, table, ip>>

MenuNoKey ==
    /\ phase = "menu"
    /\ out = "none"
    /\ phase' = "net"
    /\ reply' = None
    /\ UNCHANGED <<keybVars, irqVars, machine, table, back, cardVars, ip, menuVars>>

(* After "Open failed" any byte will do.                                   *)
OpenFailed ==
    /\ phase = "failed"
    /\ \E b \in Keys \cup Answers : Key(b)
    /\ phase' = "net"
    /\ UNCHANGED <<machine, table, back, cardVars, ip, menuVars, reply>>

(* The chosen card is there and has been set to work.                      *)
Running ==
    /\ chosen.drv # "none" /\ started = chosen.drv
    /\ chosen.drv = "ne2000" => isa = "started"

(* A call through chosen_net_drv when there is none is the end.            *)
net_idle ==
    /\ phase = "net"
    /\ \/ /\ open = "no" \/ chosen.drv # "none"
          /\ phase' = "menu"
          /\ UNCHANGED reply
       \/ /\ open = "yes" /\ Running
          /\ \E f \in Frames : reply' = net_idle_handle(f, ip)
          /\ phase' = "menu"
       \/ /\ open = "yes" /\ chosen.drv = "none"
          /\ phase' = "crashed"
          /\ UNCHANGED reply
    /\ UNCHANGED <<keybVars, irqVars, machine, table, back, cardVars, ip, menuVars>>

-----------------------------------------------------------------------------
(* change_ip_addr_ui.                                                      *)

Digit == [c \in {"1", "9"} |-> IF c = "1" THEN 1 ELSE 9]

(* What is behind the digits from position p on: a dot, or the end.        *)
BehindDigits(s, p) == Min({i \in p..Len(s) : s[i] = "."} \cup {Len(s) + 1})

(* The number at position p, digit by digit.                               *)
s_strtoul_dec(s, p) ==
    LET n == BehindDigits(s, p) - p
        val[i \in 0..n] == IF i = 0 THEN 0 ELSE val[i - 1] * 10 + Digit[s[p + i - 1]]
    IN  val[n]

(* Four numbers with a dot behind each of the first three, or nothing.     *)
Numbers(s) ==
    LET b == BehindDigits(s, 1) + 1
        c == BehindDigits(s, b) + 1
        d == BehindDigits(s, c) + 1
    IN  IF d > Len(s) + 1 THEN <<>>
        ELSE [k \in 1..4 |-> s_strtoul_dec(s, <<1, b, c, d>>[k]) % Byte]

Type(b) ==
    /\ input' = IF Len(input) < MaxInput THEN Append(input, b) ELSE input
    /\ UNCHANGED <<ip, phase>>

Erase ==
    /\ input' = IF input = <<>> THEN <<>> ELSE SubSeq(input, 1, Len(input) - 1)
    /\ UNCHANGED <<ip, phase>>

EntryKey ==
    /\ phase = "entry"
    /\ \E b \in Keys \cup Answers :
          /\ Key(b)
          /\ CASE to_ascii(b) \in {"1", "9", "."} -> Type(b)
               [] to_ascii(b) = "backspace" -> Erase
               [] to_ascii(b) = "enter" ->
                     /\ ip' = IF Numbers(input) = <<>> THEN ip ELSE Numbers(input)
                     /\ phase' = "net"
                     /\ input' = <<>>
               [] OTHER -> UNCHANGED <<input, ip, phase>>
    /\ UNCHANGED <<machine, table, back, cardVars, select, scroll, reply>>

-----------------------------------------------------------------------------
(* pci_bus_menu.                                                           *)

Up ==
    /\ select' = IF select > 0 THEN select - 1 ELSE 0
    /\ scroll' = IF select > 0 /\ select - 1 < scroll THEN select - 1 ELSE scroll

Down ==
    /\ select' = select + 1
    /\ scroll' = IF select + 1 > scroll + Lines - 1 THEN scroll + 1 ELSE scroll

PciMenuKey ==
    /\ phase = "pci menu"
    /\ \E b \in Keys \cup Answers :
          /\ Key(b)
          /\ b = "down" => select < MaxSelect
          /\ CASE b = "esc" -> phase' = "net" /\ select' = 0 /\ scroll' = 0
               [] b = "up" -> Up /\ UNCHANGED phase
               [] b = "down" -> Down /\ UNCHANGED phase
               [] b = "enter" -> phase' = "pci bars" /\ UNCHANGED <<select, scroll>>
               [] OTHER -> UNCHANGED <<phase, select, scroll>>
    /\ UNCHANGED <<machine, table, back, cardVars, ip, input, reply>>

PciBarsKey ==
    /\ phase = "pci bars"
    /\ \E b \in Keys \cup Answers :
          Key(b) /\ phase' = IF b \in {"esc", "enter"} THEN "pci menu" ELSE phase
    /\ UNCHANGED <<machine, table, back, cardVars, ip, menuVars, reply>>

-----------------------------------------------------------------------------
Init ==
    /\ kpc = 1 /\ coming = <<>>
    /\ out \in {"none"} \cup Keys
    /\ scanning \in {"on", "absent"}
    /\ pic_8259_init
    /\ timer = "running"
    /\ machine \in Machines
    /\ isa = machine.isa
    /\ phase = "keyboard" /\ back = "start"
    /\ table = <<>>
    /\ chosen = NoCard /\ open = "no"
    /\ started = "none" /\ reprobed = "no"
    /\ ip = DefaultIp
    /\ input = <<>> /\ select = 0 /\ scroll = 0
    /\ reply = None

Main ==
    \/ keyboard_init \/ Scan \/ autoprobe_network_card \/ Ask \/ OpenFirst
    \/ MenuKey \/ MenuNoKey \/ OpenFailed \/ net_idle
    \/ EntryKey \/ PciMenuKey \/ PciBarsKey

(* A byte in the buffer raises the keyboard's line.                        *)
Keyboard == Deliver /\ Raise(1) /\ UNCHANGED <<isr, imr, icw4, flag, timer, mainVars>>
Typist == \E k \in Keys : Press(k) /\ UNCHANGED <<irqVars, mainVars>>
Interrupt == \E n \in Line : do_irq(n) /\ UNCHANGED <<keybVars, mainVars>>
Timer == TimerEnds /\ UNCHANGED <<keybVars, mainVars>>

Next == Main \/ Keyboard \/ Typist \/ Interrupt \/ Timer

Spec == Init /\ [][Next]_vars

(* The program runs, what the keyboard has to say arrives and the          *)
(* processor takes interrupts; nobody need press a key.                    *)
FairSpec == Spec /\ WF_vars(Main) /\ WF_vars(Keyboard) /\ WF_vars(Interrupt)

-----------------------------------------------------------------------------
(* What every variable is.                                                 *)
TypeOK ==
    /\ kpc \in 1..Done
    /\ out \in {"none"} \cup Keys \cup Answers
    /\ scanning \in {"on", "off", "absent"}
    /\ irr \subseteq Line /\ isr \subseteq Line /\ imr \subseteq Line
    /\ phase \in {"keyboard", "scan", "probe", "ask", "start", "menu", "net", "failed",
                  "entry", "pci menu", "pci bars", "crashed"}
    /\ Len(table) <= MaxDevice
    /\ chosen \in [drv : {"none", "pcnet32", "rtl8101", "ne2000"}, dev : 0..MaxDevice]
    /\ open \in {"yes", "no"}
    /\ ip \in [1..4 -> 0..Byte - 1]
    /\ Len(input) <= MaxInput
    /\ select \in 0..MaxSelect
    /\ phase = "pci menu" => select \in scroll..scroll + Lines - 1

(* "To avoid duplicate phantom PCI devices" (pci.c): no function is in the *)
(* table twice, under its own bus number and under one that wraps to it.   *)
NoPhantoms ==
    \A i, j \in DOMAIN table :
        /\ table[i].bus % machine.buses = table[j].bus % machine.buses
        /\ table[i].device = table[j].device
        /\ table[i].function = table[j].function
        => i = j

(* Until the user probes again, net_idle uses a card only once its init    *)
(* has succeeded, and the one it was called for.                           *)
CallsOnlyStarted == phase = "net" /\ open = "yes" /\ reprobed = "no" => Running

(* Whatever arrives, the echo requests that have to be answered are the    *)
(* ones that are, to their senders, with their data and a valid checksum,  *)
(* and the ARP requests for the address the user has set, likewise.  (Not  *)
(* so where an odd number of bytes ends in one that is not zero.)          *)
RightAnswers ==
    /\ reply.type = "echo reply" => Valid(reply.words)
    /\ phase = "net" /\ open = "yes" =>
        \A f \in Frames :
            LET a == net_idle_handle(f, ip)
            IN  /\ f.type = "other" => a = None
                /\ f.type = "arp" =>
                      (a # None <=> f.dst \in {"all", "me"} /\ f.form = "ethernet and IPv4"
                                      /\ f.op = "request" /\ f.ip = ip)
                /\ f.type = "ipv4" /\ f.proto # "icmp" =>
                      (a # None <=> ForMe(f, ip) /\ f.proto = "udp")
                /\ f.type = "ipv4" /\ f.proto = "icmp" /\ f.odd = 0 =>
                      IF EchoForMe(f, ip)
                      THEN /\ a.type = "echo reply" /\ a.to = f.src /\ a.ip = f.from
                           /\ Valid(a.words) /\ a.words[1] = 0
                           /\ SubSeq(a.words, 3, Len(a.words)) = SubSeq(Data(f), 3, Len(Data(f)))
                      ELSE a = None

(* A request for an interrupt is served, each time, for as long as the     *)
(* station runs: nothing is left in service that would hold up the next.   *)
IrqServed == \A n \in Line : n \in irr ~> n \notin irr

(* The station gets past the setup of the keyboard, whatever is pressed    *)
(* meanwhile and however many of the answers go unread.                    *)
BootDone == <>(phase \notin {"keyboard", "scan", "probe"})
=============================================================================
