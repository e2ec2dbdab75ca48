------------------------------ MODULE PciScan ------------------------------
(***************************************************************************)
(* The scan of the PCI buses (eth/pci.c) and the choice of a card among    *)
(* what it finds (eth/network.c).  A machine is a record: on how many      *)
(* buses its bridges answer, after which the bus numbers wrap around, and  *)
(* which functions are there.                                              *)
(***************************************************************************)
EXTENDS Integers, Sequences, FiniteSets, FiniteSetsExt

CONSTANTS
    Buses, Devices, Functions,      \* 256, 32, 8
    MaxDevice                       \* MAX_PCI_DEVICE, 64

ASSUME PciConstants == {Buses, Devices, Functions, MaxDevice} \subseteq Nat \ {0}

(* What answers at an address.                                             *)
pci_config_read_imm(m, bus, dev, func) ==
    IF <<bus % m.buses, dev, func>> \in DOMAIN m.functions
    THEN m.functions[<<bus % m.buses, dev, func>>].chip
    ELSE "none"

SameAsBus0(m) == {bus \in 1..Buses - 1 :
                    pci_config_read_imm(m, bus, 0, 0) = pci_config_read_imm(m, 0, 0, 0)}

(* Mutant: the bus that ends the search is counted.                        *)
pci_max_bus_plus_one(m) == IF SameAsBus0(m) = {} THEN Buses ELSE Min(SameAsBus0(m)) + 1

(* The first bus that begins like bus 0 is taken for bus 0 again.          *)
pci_max_bus(m) == IF SameAsBus0(m) = {} THEN Buses ELSE Min(SameAsBus0(m))

(* The functions of a device are read up to the first that is not there.   *)
Answering(m) ==
    {a \in (0..pci_max_bus(m) - 1) \X (0..Devices - 1) \X (0..Functions - 1) :
        \A func \in 0..a[3] : pci_config_read_imm(m, a[1], a[2], func) # "none"}

(* The registers of the loop over BARs: the upper half of a 64 bit BAR is  *)
(* stepped over.  What the drivers look for is an I/O range.               *)
HasIo(bars) ==
    LET seen[i \in 1..8] ==
            IF i > 6 THEN FALSE
            ELSE CASE bars[i] = "io" -> TRUE
                   [] bars[i] = "mem64" /\ i < 6 -> seen[i + 2]
                   [] OTHER -> seen[i + 1]
    IN  seen[1]

Before(a, b) ==
    \/ a[1] < b[1]
    \/ a[1] = b[1] /\ a[2] < b[2]
    \/ a[1] = b[1] /\ a[2] = b[2] /\ a[3] < b[3]

(* The address that i - 1 others come before.                              *)
Nth(answering, i) ==
    CHOOSE a \in answering : Cardinality({b \in answering : Before(b, a)}) = i - 1

(* What the scan writes down of the function at an address.                *)
Entry(m, a) ==
    LET f == m.functions[<<a[1] % m.buses, a[2], a[3]>>]
    IN  [bus |-> a[1], device |-> a[2], function |-> a[3],
         chip |-> f.chip, class |-> f.class, bars |-> f.bars]

(* What is found, in the order of the scan.                                *)
Found(m) ==
    LET answering == Answering(m)
    IN  [i \in 1..Cardinality(answering) |-> Entry(m, Nth(answering, i))]

(* Mutant: the end of the table is not looked for.                         *)
pci_init_unbounded(m) == Found(m)

(* The table of devices: as much of it as there is room for.               *)
pci_init(m) == SubSeq(Found(m), 1, Min({Len(Found(m)), MaxDevice}))

-----------------------------------------------------------------------------
(* The chips the probe functions of the PCI drivers know; that of the      *)
(* RTL8139 is compiled to know none.                                       *)
known_pci_id == [chip \in {"pcnet32", "rtl8101"} |-> chip]

KnownCards(table) == {i \in DOMAIN table : /\ table[i].class = "network"
                                        /\ table[i].chip \in DOMAIN known_pci_id}

(* The PCI part of autoprobe_network_card: driver and entry of the table.  *)
autoprobe(table) ==
    IF KnownCards(table) = {} THEN [drv |-> "none", dev |-> 0]
    ELSE LET i == Min(KnownCards(table)) IN [drv |-> known_pci_id[table[i].chip], dev |-> i]
=============================================================================
