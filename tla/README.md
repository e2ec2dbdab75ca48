# Remote x86: TLA+ models, checks and proofs

Remote x86 is a debugger that runs on a bare PC and lets a host peek and poke
its memory and run code on it. There are two builds. The serial build
(`stage1-floppy.asm`, `stage2-*.asm`) obeys text commands over RS-232 and
switches between CPU modes; its host side is `comm/s_lib.c`. The Ethernet build
(`eth/*.c`) obeys similar commands in UDP datagrams to port 777; its host side
is `comm/e_lib.c`. This directory holds models of both, TLC configurations that
check them on small instances and TLAPS proofs of their main properties.

## The system

| component | state | operations | interacts with |
|---|---|---|---|
| Ethernet host library, `comm/e_lib.c` | socket, static `seq` of WRITE, `retry` | TEST, READ, WRITE, EXEC calls, open, close | target handler, by datagrams |
| Target command handler, `eth/c-main.c` | memory, `exec_last_seq` | one branch per command | driver, by `prepare_send_packet`, `send_packet` |
| ARP, ICMP, IPv4, `eth/c-main.c` | own addresses | filters, replies | driver |
| Card choice and menu, `eth/network.c`, `main_menu` | `chosen_net_drv`, `chosen_net_drv_open` | probe, open, IP address entry, `net_idle` | driver, keyboard |
| PCnet driver, `eth/net-pcnet32.c` | two rings of 16 descriptors, two offsets | init, get, put, prepare, send | card, by DMA |
| RTL8101 driver, `eth/net-rtl8101.c` | two rings of 4 descriptors | the same | card, by DMA |
| NE2000 driver, `eth/net-ne2000.c` | page ring in the card | the same | card, by ports |
| Interrupt controller and handlers, `eth/pic-8259.c`, `eth/interrupt.c` | requests, service, masks, IDT | init, IRQ | timer, keyboard |
| PCI scan, `eth/pci.c` | table of 64 devices | init, find | drivers |
| Keyboard, `eth/keyb8042.c` | one byte of buffer | init, read | menu, card choice |
| Screen, timer, allocator | cursor, countdown, bump pointer | init, write, alloc | everything |
| Serial host library, `comm/s_lib.c` | the tty's unread bytes | commands, responses, timeouts | stage 2, by bytes |
| Stage 2, `stage2-*.asm` | CPU mode, line buffer, memory | line editor, dispatch, ten commands, mode switches | host library |
| Stage 1 and the other loaders | load pointer | read sectors, jump | BIOS |
| CPU tests, `comm/tests/*` | none of their own | upload, execute, compare | serial host library |

What is hard in it: the host gives up on an answer that still comes and then
reads it as the answer to the next command; datagrams are lost, doubled and
late; the driver shares rings with a card that works at the same time; keys,
answers of the keyboard and interrupts arrive in the middle of the set-up; sizes,
offsets and counts are 16 bits wide in places where larger ones are meant; a
command that is refused leaves its payload in the line to be read as commands.

What makes each part correct, in short: a command takes effect as often and in
the order the host was told; an answer belongs to the question; a frame is
neither lost in the ring nor overwritten while it is used; a mode switch
arrives in the mode it answers for; memory is changed where the host meant.

## The Ethernet session

`EthSession` models the host library, the target's handler and the network
between them.

* The host is sequential: `issued` and `outcome` record its calls, `retry` is
  the local variable of the running one. `remote_eth_test`,
  `remote_eth_read_block`, `remote_eth_write_block` and `remote_eth_exec` are
  the calls; each stores its request and sends it. A waiting call then either
  sees `Timeout` (`remote_eth_wait_for_data` returned 0) or `recvfrom`, whose
  three cases are the three ways out of the loop body: `Succeed` (return 1),
  `Reject` (return 0), `Ignore` (`continue`). `TryAgain` is
  `while (--retry != 0)`.
* `Accepts` says which replies each call takes for its own. This is where the
  calls differ: TEST and EXEC look for `OK ` only, READ compares the address
  and needs enough data, WRITE compares address and `seq`.
* `wseq` is the static `seq` of `remote_eth_write_block`. `NextExecSeq` is the
  time of the call, because the `seq` of `remote_eth_exec` is not static.
* `Reopen` is a new run of a host program: another port, fresh statics, while
  the target keeps its state and datagrams are still on the way.
* The target handles the oldest datagram and answers at once. `HandleExec`
  compares the number with `exec_last_seq`. `s_strtoul_hex` may read on into
  the byte behind the datagram, one of `Tails`.
* The network delays, loses and duplicates; with `Reordering` it reorders too.
  A full queue drops what comes.

A cell of memory stands for one block, the data of a WRITE is the number of
its call. `effects` and `seen` are history variables: how often a call took
effect, and what a cell held since the last acknowledged WRITE.

Left out: the wording of the messages; LOW and the answer to an unknown
command; addresses above 4 GB; the wrap of a 32 bit time; a failed `sendto`,
which is the same as a lost datagram (the test `sendto(...) < cmd_len` compares
-1 as an unsigned number and never fires); a READ reply whose data happens to
spell the `seq` a WRITE waits for.

`RemoteMachine` is the abstract specification: calls in a log, effects on
memory in the order of the log, EXEC at most once, a WRITE reported good only
after it happened. `EthSession!Machine` is the refinement mapping: the log is
`issued` without numbers, lengths and sockets.

### What is checked

| run | what it allows | what it shows |
|---|---|---|
| `eth_slow` | delay, loss, duplication, two tries, three calls | `ExecAtMostOnce`, `AckedWriteHolds`, `ReadSinceLastAck`, and `ImplementsMachine` |
| `eth_timely` | loss, reopened sockets, no delay beyond the timeout, EXECs a second apart | `ExecOkMeansExecuted`, `ReadOkIsCurrent`, `FailOnlyInSilence` |
| `eth_reorder` | reordering, loss, delay, fairness | `WriteAckIsOwn`, `CallReturns` |
| `eth_tail` | a hexadecimal digit behind the datagram | one EXEC call can run twice |
| `eth_same_second` | two EXECs in one second | the second is answered OK and never run |

One more disagreement needs no run of its own: with late replies
`ExecOkMeansExecuted` fails too, because `remote_eth_exec` takes any reply that
starts with `OK ` and does not look at the number the target echoes.

`remote_eth_read` and `remote_eth_write` call the block operations one after
the other and stop at the first that fails: a sequence of the calls above. When
one fails, `AckedWriteHolds` says what is left: the blocks before it hold their
data.

Bounds. Three calls are enough for every pair of calls to meet the leftovers of
a third. Two tries give one repeated datagram; three (as in the code) are used
where time allows and prove nothing different. Queues of two or three datagrams
hold one copy of each try. Sequence numbers are taken from a clock of one or
two values, so that numbers of different calls do coincide.

Fairness. `CallReturns` assumes that `select` returns when its time is over,
that a reply in the socket is read, and that the target's main loop goes on
polling (`main_menu` calls `net_idle` for ever). Nothing is assumed of the
network.

### What is proved

`EthSessionProofs`, for every value of the constants that `SessionConstants`
admits:

* `TypeCorrect`: the type invariant. `retry \in 0..Retries` is not inductive
  by itself; it needs that a busy call has a try left (`TriesLeft`).
* `ExecOnce`: no EXEC is carried out twice, if datagrams arrive in order and
  the parser stops at their end (`Fifo`). The invariant `OnceInv` adds to the
  log's invariant that the requests on their way are in the order of their
  calls (`Ordered`), that a call behind the oldest one on its way has not taken
  effect (`NotYet`), and that as long as a copy of a carried out EXEC is the
  next to come, `exec_last_seq` is its number (`Guarded`).
* `WriteAck`: a good WRITE was carried out, on every network. The invariant
  `AckInv` says that the numbers of the WRITEs on one socket grow (`SeqsGrow`),
  so that a reply that carries the number of a call is a reply to that call
  (`RepliesOwn`).
* `AckedWrite`: an acknowledged block keeps its data, on a network that keeps
  the order. It needs `MemLatest`: a cell holds the latest of the WRITEs to it
  that took effect.
* `SessionImplementsMachine`: initial states map to initial states and each
  step to a step of `RemoteMachine` or to a stutter.

Its last part is about what the answers are worth:

* `ReadIsRecent`: on a network that keeps the order, a good READ returned what
  its block held at some moment since the last acknowledged WRITE, however late
  the reply it took. The invariant `SinceInv` says that memory and the data of
  every READ reply on its way are among what was seen since (`MemSeen`,
  `DataSeen`). That is not inductive by itself: when a WRITE takes its answer,
  `seen` shrinks to what memory holds, so no READ reply may be left behind that
  answer (`NoReadBehind`, from the order of the calls in `OnceInv`).
* `ExecOkIsTrue`, `ReadIsCurrent`, `FailsInSilence`: under `InTime` (no answer
  later than the timeout, no duplicates, EXECs at least a second apart, a clock
  that does not go round) the answers are those of the running call. The
  invariant `InTimeInv` says that only one datagram is under way, and that it
  belongs to the running call (`OneAtATime`), that the numbers of EXECs are
  past times and grow (`ExecTimes`), and that `exec_last_seq` is its first value
  or the number of an EXEC that was carried out (`LastExec`).

Only model checked: `CallReturns` (liveness under fairness is outside the
prover's reach).

## The PCnet driver

`PcnetRing` models `eth/net-pcnet32.c`, the part of `net_idle` that calls it
and, as external actions, the card.

* `rx` and `tx` are the rings; a descriptor is its OWN bit, what its status and
  length say (`kind`), and the frame in its buffer. `rx_offset` and `tx_offset`
  are the driver's offsets, `rxCard` and `txCard` the card's. Neither side sees
  the offset of the other; only OWN tells them apart.
* `pc` is where `net_idle` is: `pcnet32_get_packet` from "idle" to "handling",
  `pcnet32_prepare_send_packet` on to "building", `pcnet32_send_packet` to
  "handled" and `pcnet32_put_packet` back. The card acts between any two.
* The card stores whole frames, frames with errors, pieces of frames longer
  than a buffer, and frames shorter than a header. It misses a frame when its
  next descriptor belongs to the driver.

A frame is the number of its arrival, an answer carries the number of the frame
it answers. The addresses of the buffers, the length of an answer beyond "fits"
and "does not fit", and the card's registers are left out.

| run | what it allows | what it shows |
|---|---|---|
| `pcnet_ring` | ring of 3, six arrivals of every kind, fairness | `HeldIntact`, `HandledInOrder`, `NoneLost`, `WireIsAnswers`, `MissOnlyWhenFull`, `RingDrains`, `AnswersGoOut` |

Six arrivals go twice round a ring of three, so both offsets wrap and the ring
is full with the offsets anywhere. `RingDrains` has an exception for runts: get_packet
neither returns nor gives back a frame of fewer than 14 bytes, and polling stays
there. The card discards such frames unless it is told otherwise.
Fairness is that of the main loop, which polls for ever, and of a card that
sends what it is given.

`PcnetRingProofs` proves the type invariant and all five safety properties for
rings of every size and any number of frames, and that the ring implements
`FrameQueue` (below). A run of the ring is a segment
that starts at one offset and ends before the other (`IsRun`), and two lemmas
say what taking its first slot and adding one behind its last do to it
(`RunShrinks`, `RunGrows`); they are in `RingRuns`, which the proofs about the
RTL8101 use too. `RxInv` says that the descriptors of the driver are
the run from `rx_offset` to `rxCard`, with growing frame numbers; `TxInv` says
that those of the card are the run from `txCard` to `tx_offset` and hold the
answers not yet on the wire. The two liveness properties are
only model checked.

## The other cards

`Rtl8101Ring` models `eth/net-rtl8101.c` in the way of `PcnetRing`. What differs:

* A descriptor has an end bit (`eor`), by which the card finds the end of the
  ring, and which the card may clear when it stores a frame. `GiveBack` sets it
  again at the last one.
* The transmit offset stays 0: `|| 1` in two places of `rtl8101_send_packet`.
* Both waits for the transmitter give up after a number of turns and go on as
  if they had succeeded, which `rtl8101_prepare_send_packet` and
  `rtl8101_send_wait` may do at any time. The card reads a buffer in two steps
  (`CardFetch`, `CardSent`), so that an answer can be overwritten while it is
  read (`Torn`).

`Ne2000Ring` models `eth/net-ne2000.c`. Frames lie in pages of the card; `bnry`
and `curr` are the boundary and CURR, `prx` the receive bit. `get_packet` is
two steps, between which the card may store frames: `ne2000_get_packet` reads
PRX, CURR and the frame, `ne2000_acknowledge` moves the boundary and clears
PRX. Page numbers are bytes; a page that does not start with a header is taken
for one with any content (`Headers`).

| run | what it allows | what it shows |
|---|---|---|
| `rtl8101_ring` | ring of 2, five arrivals of every kind, waits that give up, fairness | `TypeOK` (the end bit survives the card), `ImplementsQueue`, `WireIsAnswers`, `TransmitterReturns` |
| `ne2000_ring` | ring of 4 pages, five frames of one or two pages, fairness | `AllButTheFirst`, `LappedOnlyBeforeRing`, `AnnouncedIsTaken` |

`FrameQueue` is what `net_idle` asks of the receiving half of a driver: frames
come out in the order they came, each once, and the one that is held does not
change. Frames are numbered as they come, so the queue is a set of numbers and
`get_packet` takes the least of them. `ImplementsQueue` maps a ring to it: the
queue is the whole frames in the driver's descriptors without the one `pc` says
is held.

`Rtl8101RingProofs` proves, for rings of every size, the type invariant,
`WireIsAnswers` and `ImplementsQueue`. The type invariant (the card never runs
off the ring) needs that a descriptor of the card has the end bit if it is the
last one, and only then (`RxMarks`; those of the driver may have lost it). For
the queue, the descriptors of the driver are a run from its offset to
the card's, with growing frame numbers, as for the PCnet; so the frame at the
offset is the least. `WireIsAnswers` needs that the card's transmit offset stays
0 as well (`TxOne`), and that at most one answer is not on the wire yet, which
is in that descriptor as it was built (`TxLast`).

`Ne2000RingProofs` proves, for rings of any number of pages, the type invariant,
`AllButTheFirst` and `LappedOnlyBeforeRing`. The invariant gives every frame
that is stored and not returned an offset from the page the driver reads next
(`Layout`): the offsets grow with the frames, each frame begins where the one
before it ends, the last ends at CURR, and all of them together fit between the
boundary and CURR (`InPlace`); what `get_packet` has copied is the first of them
(`Copied`). Before the first frame is stored, nothing has happened (`Fresh`);
where it ends, the driver begins.

Five arrivals go round either ring more than once; four pages are a small
ring in which a frame of two pages can end at, or cross, its end.

The properties of the NE2000 say how far its driver goes. `ne2000_init` puts
boundary and CURR at the same page while `get_packet` reads behind the
boundary, so the first frame is never returned, and if it has two pages the
driver reads a header from its middle. When the next frame is at the first page
the boundary is set in front of the ring, where a card that compares CURR with
the boundary never meets it: it stores over frames that have not been read.
PRX is cleared with every frame, so the rest of a burst waits for the next one
to arrive. (Cards that count the free pages instead, as emulators do, are not
lapped.)

## The station

`Station` is the program of the Ethernet build from the set-up of the keyboard
on (`c_start`, `main_menu`). It composes

* `Keyb8042`: `keyb8042_init` is a `Script` of writes and reads of a buffer of
  one byte. The keyboard acknowledges each byte it is sent, the controller
  answers its tests, and keys go into the same buffer.
* `Interrupts`: the requests of timer and keyboard, the controller as
  `pic_8259_init` leaves it, and `do_irq`, which calls nothing. Interrupts end
  by themselves, because ICW4 is 0x03. (The comment beside it speaks of buffered
  mode, and the one beside the masks, 0x00, of masking all lines.)
* `PciScan`: what answers at an address of a machine whose bus numbers may wrap
  around; `pci_max_bus`, the table of `pci_init`, and the drivers' probes.
* `PacketFilter`: the tests and answers of `net_idle`, `net_on_arp`,
  `net_on_ipv4` and `net_on_ipv4_icmp`, with the checksum loop, and a reference:
  the sum of words in one's complement, and the frames that have to be answered.

`phase` is what the program is doing. Every wait for a key is an action that
takes the byte in the buffer; `MenuNoKey` is the turn of `main_menu` without
one. `net_idle` finds a frame only if the chosen card is `Running`, and calls
through a null pointer ("crashed") if a card was opened and none is chosen any
more.

| run | what it allows | what it shows |
|---|---|---|
| `station` | four machines, keys at any moment, 42 frames, fairness | `NoPhantoms`, `CallsOnlyStarted`, `RightAnswers`, `IrqServed`, `BootDone` |

Bounds. A key is pressed only when no byte waits: one key is enough to take the
place of an answer, since nothing in the set-up looks at which key it is. The
machines are: no PCI and an ISA card; a card behind a bridge on numbers that
wrap around; an unknown card and one without I/O; more functions than the table
holds. Words are 0..3, so that three words carry, reach zero and reach the
negative zero. An address has room for four characters ("9..."), and 9 is the
first number that does not fit a byte. Fairness: the program runs, the keyboard
delivers and the processor takes interrupts. Nobody need press a key.

What the properties leave out, because the code does not do it:

* `CallsOnlyStarted` ends when the user probes again with a card open:
  `autoprobe_network_card` clears `chosen_net_drv` and not
  `chosen_net_drv_open`. Without a PCI card, answering no leads to the null
  pointer, answering yes to a card that the probe has stopped and the menu
  shows as active.
* `RightAnswers` is about datagrams whose last odd byte is 0: the checksum
  leaves it out, and other pings of odd size are not answered.
* The menu offers `r` and `c`; both do nothing.

### What is proved of it

`StationProofs` proves the four invariants of the run, and one that `BootDone`
rests on, for every value of the constants. It assumes what `StationConstants`, `FilterConstants` and
`PciConstants` say of sizes, that a machine has a bus (`MachinesAssumption`),
that no key is the mark of an empty buffer (`KeysAssumption`), and that behind
an IPv4 header there are words, as many as the header says if that many arrived
(`FramesAssumption`).

* `StationTypeCorrect`, by `StationInv`. It adds what is on its way from the
  keyboard (`KeybInv`), that the table is empty or that of the machine
  (`CardInv`), that the input consists of digits and dots, and that the cursor
  is on the screen while the BARs are shown too (`MenuInv`).
* `KeyboardAnswersEveryRead` is the safe half of `BootDone`: no read of the
  set-up waits for a byte that does not come (`NoReadInVain`). The invariant
  `ReadInv` says that the bytes the reads up to the next write will take are in
  the buffer or on their way (`Need`). A count is not enough after the first
  reset, whose answer is looked for by value: either the answer comes next, or
  one more byte waits, the one that was in the buffer before the reset.
* `NoPhantomFunctions`: addresses of the scan are below `pci_max_bus`, which is
  not above the number of buses, since bus number `buses` begins like bus 0
  (`ScanEndsBeforeWrap`); so two that are the same function are the same
  address, and the table holds every address once (`RanksAreDistinct`,
  `NthFacts`).
* `OnlyStartedCards`, by `OpenInv`: a card that is open and has not been probed
  for again is running, and the question about ISA cards is asked with a card
  open only after such a probe.
* `AnswersAreRight`. The sum with the carry folded in after every word, of all
  words but the checksum, differs from their plain sum by a multiple of
  `Word - 1` and is zero only if that is (`SumsAndTotals`, `SumsPositive`). From
  this the test of the request is the reference's (`ValidIsChecksum`), and the
  checksum of the reply is valid by it (`ChecksumIsValid`).

The sums, the decimal numbers and the ranks are defined by recursion or by
cardinality. The theorems of the library about recursive functions take an
operator as a parameter and cannot be used; `RecursionExists` proves what is
needed for functions on 0..n, and `UptoInduction` is induction over a set of
numbers, from the least element outside it.

Only model checked: `IrqServed` and `BootDone`, under fairness.

## The serial session

`SerialSession` models the host library `comm/s_lib.c` and the command loops of
the five `stage2-*.asm`, joined by two streams that keep every byte and their
order.

* A stream is a sequence of symbols: a byte of data, of a head or of a line end
  each, a word of text each, a command each. Data may contain CR, LF and ESC.
* `hpc` is where the host's call is. Every call sends its line (`Send`), WRITEB
  its data too. `remote_rs232_get_response` takes a line, `response_timeout`
  gives up and loses what it has read. READB goes through `select`, a head of
  three bytes, and then waits without a timeout for its data.
* `remote_rs232_configure` is a new program on the host, at any moment, that
  drops what has arrived.
* `tpc` is where the target is: reading a line, taking data, running a program.
  One action per command; a line that is no command of the current mode is
  answered with ERR. `stage2_8086` ... `stage2_x64` hold what the five loops do
  differently: the addresses they refuse, the width of a count, the switches
  they know.
* `Silence` says when the host may give up: when nothing is on the way, or,
  with `SlowExec`, while a program runs. All other commands are answered in
  milliseconds and the host waits two seconds at least.

| run | what it allows | what it shows |
|---|---|---|
| `serial_timely` | all modes, refused reads, unknown commands, data with line ends, programs that return in time | `InStep`, `OkMeansDone`, `FailMeansNotDone`, `CallReturns` |
| `serial_slow` | programs that outlast the host, restarts, refused writes, counts beyond a word | `TypeOK`, `DataIsOwn`, `AcceptedLines`, `TestRepairsOne` |
| `serial_refused` | a refused WRITEB | its data is read as commands |

Three more disagreements have no run. A READB of 65536 bytes in a 16 bit mode is
answered with no data, and the host waits for it. A second TEST while a program
runs reads the answer to the first, returns 1, and leaves the session one answer
behind (`TestRepairsOne` is about one unanswered command). In a build without the 64 bit part the
switch to x64 is answered `OK 8086`, as `PROTOCOL.TXT` says, and
`remote_rs232_x64` returns 1 for it as for every line that starts with OK.

Bounds. Four calls (three in `serial_slow`) let a late answer meet two later
calls and a restart.
Memory has three cells, one below every limit, one between the two, one above
both; a word is 2 or 3, so that counts below and at it occur. `CallReturns` assumes that host and target
go on and that a program that is run returns, as `comm/tests/RULES` asks of it.

Left out: READ, WRITE and LOW, which the library never sends; the arguments of
EXEC; segments (planned); lost bytes (the UART has no flow control); a host
that is stopped in the middle of the data of a WRITEB.

`SerialSessionProofs` proves, for every set of calls, memory, limit and size of
the line buffer that `SerialConstants` admits (the buffer holds one character
at least, and the limit of the 8086 is not above that of the 286):

* `SerialTypeCorrect` and `OwnData`, by the invariant `SerialInv`. What makes it
  inductive is that the stream to the target is made of whole commands: every
  command in it, and one that is at the end of the line buffer, is followed by
  its line end and all of its data (`Streams`, `Ahead`). Garbage, the data of
  refused writes, may be anywhere between them. So the data that a WRITEB is
  about to take is its own (`DataIsOwn`, with `Work`).
* `OnlyCommandLines`: if only writes are sent that every mode accepts, there is
  no garbage: every byte in the stream is a command, its line end or its data,
  the first of which may have been taken already (`Covered`, `Lines`).

`SerialInStepProofs` is about the answers:

* `StaysInStep`, `OkIsTrue` and `FailIsTrue`, under `Timely`: the host waits for
  every program, is not stopped within a call and writes only what every mode
  accepts. The invariant `Phase` says for each place the host can wait at how
  far the target has come with the call (`OnTheWay`: asked, heard, taking data,
  running) or what of its answer is in the line (`Answered`, `ReadAnswered`).
  `Begins` speaks of positions of kept characters, and `KeptCount` says that in a
  line that begins with printable characters these are the first ones.
* `TestRepairs`, without any condition: `Repair` says that as long as TEST has
  not returned, the answer to EXEC comes first and that to TEST right behind it,
  be it OK or, if there is garbage in the line buffer, ERR.

Only model checked: `CallReturns`.

## Plan

There are models of both sessions, the three cards and the station. What is
left, in order of importance:

1. `SerialSession`: READ, WRITE, LOW, overrun of the UART, a host stopped within
   the data of a WRITEB.
2. `Stage2Memory`: from an address and a count to the cells a loop touches, in
   each mode, with 16 bit offsets, the two limits, 32 bit parsing and the page
   tables, against the cells the host meant.
3. `BlockTransfer`: `upload_code` and the transfers over several blocks, with
   addresses above 4 GB; `Stage1Floppy`: the loader's walk over sectors.

Every invariant and every action property of a passing run is proved. Liveness
under fairness stays with TLC, as it is outside the prover's reach:
`CallReturns` of both sessions, `AnnouncedIsTaken`, `RingDrains`,
`AnswersGoOut`, `TransmitterReturns`, `IrqServed` and `BootDone`.

## Not modelled

All functions of the RTL8139 driver are disabled in the source; that it accepts
no card is part of `PciScan`. Screen, allocator and port access decide nothing
(the countdown of the timer is in `Interrupts`). The loaders other than the floppy's move a block of memory and
jump. The programs uploaded to the target leave no state behind that the
debugger depends on. Build scripts are not part of the running system.
