----------------------------- MODULE Interrupts -----------------------------
(***************************************************************************)
(* The interrupt controllers as pic_8259_init leaves them (eth/pic-8259.c) *)
(* and the handlers (eth/interrupt.c), for the two lines this program sets *)
(* devices up for: the timer's and the keyboard's.  Nothing in the program *)
(* ends an interrupt at the controller: it works because ICW4 selects the  *)
(* automatic end.                                                          *)
(***************************************************************************)
EXTENDS Integers

Line == 0..1        \* the timer and the keyboard; the lower has priority

VARIABLES
    irr,            \* requests
    isr,            \* interrupts in service
    imr,            \* masked lines
    icw4,           \* the end of interrupt: "automatic" or "commanded"
    flag,           \* the processor's interrupt flag: "off" or "on"
    timer           \* the countdown of pit_8253_init: "running" or "over"

irqVars == <<irr, isr, imr, icw4, flag, timer>>

(* Mutant: 0x01 in place of 0x03.                                          *)
init_normal_end ==
    /\ irr = {} /\ isr = {} /\ imr = {}
    /\ icw4 = "commanded"
    /\ flag = "off"

(* interrupt_init.  Zero is written to the masks: no line is masked.       *)
pic_8259_init ==
    /\ irr = {} /\ isr = {} /\ imr = {}
    /\ icw4 = "automatic"
    /\ flag = "off"

Raise(n) == irr' = irr \cup {n}

(* The countdown ends once: its mode is not periodic.                      *)
TimerEnds ==
    /\ timer = "running"
    /\ timer' = "over"
    /\ Raise(0)
    /\ UNCHANGED <<isr, imr, icw4, flag>>

(* The most urgent request that is not masked or held up by one in service *)
(* is taken.  do_irq counts it on the screen and finds no function to      *)
(* call; the gate keeps the flag off until it returns.                     *)
do_irq(n) ==
    /\ flag = "on"
    /\ n \in irr \ imr
    /\ \A m \in (irr \ imr) \ {n} : n < m
    /\ \A m \in isr : n < m
    /\ irr' = irr \ {n}
    /\ isr' = IF icw4 = "automatic" THEN isr ELSE isr \cup {n}
    /\ UNCHANGED <<imr, icw4, flag, timer>>
=============================================================================
