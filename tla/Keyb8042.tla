------------------------------ MODULE Keyb8042 ------------------------------
(***************************************************************************)
(* The keyboard (eth/keyb8042.c): keyb8042_init talks to the controller    *)
(* and the keyboard through a buffer of one byte, into which the keys that *)
(* are pressed meanwhile go as well.  A byte is a key or one of the        *)
(* answers below; key releases, which the program ignores, are left out.   *)
(***************************************************************************)
EXTENDS Integers, Sequences

CONSTANTS
    Keys,           \* the keys that are pressed
    MaxTyped        \* bound: no key is pressed while this many bytes wait

ASSUME KeysAssumption == "none" \notin Keys

VARIABLES
    kpc,            \* the next step of keyb8042_init
    out,            \* the byte in the buffer, or "none"
    coming,         \* what follows it
    scanning        \* the keyboard sends keys: "on" or "off", or is "absent"

keybVars == <<kpc, out, coming, scanning>>

Ack == "FA"
Answers == {Ack, "AA", "55", "00"}

-----------------------------------------------------------------------------
(* What the controller answers, and the keyboard; a reset and the command  *)
(* F5 drop the keys that wait.  (Not part of the program.)                 *)
Command(c) ==
    /\ coming' = (CASE c = "AA" -> <<"55">>
                    [] c = "AB" -> <<"00">>
                    [] OTHER -> <<>>) \o coming
    /\ UNCHANGED scanning

ToKeyboard(c) ==
    /\ coming' = CASE c = "FF" -> <<Ack, "AA">>
                   [] c = "F5" -> <<Ack>>
                   [] OTHER -> Append(coming, Ack)
    /\ scanning' = CASE c = "F5" -> "off"
                     [] c \in {"F4", "FF"} -> "on"
                     [] OTHER -> scanning

(* A byte comes into the buffer.                                           *)
Deliver ==
    /\ out = "none"
    /\ coming # <<>>
    /\ out' = Head(coming)
    /\ coming' = Tail(coming)
    /\ UNCHANGED <<kpc, scanning>>

Waiting == Len(coming) + IF out = "none" THEN 0 ELSE 1

Press(k) ==
    /\ scanning = "on"
    /\ Waiting < MaxTyped
    /\ coming' = Append(coming, k)
    /\ UNCHANGED <<kpc, out, scanning>>

-----------------------------------------------------------------------------
(* keyb8042_read_buffer waits for a byte.                                  *)
read_buffer(b) == out # "none" /\ b = out /\ out' = "none"

(* keyb8042_write_leds sends two bytes; both are answered.                 *)
write_leds(c) == <<<<"out", "ED">>, <<"out", c>>>>

Head1 == <<
    <<"probe">>, <<"cmd", "AA">>, <<"self test">>, <<"cmd", "60">>, <<"cmd", "AB">>, <<"read">>,
    <<"out", "FF">>, <<"ack">>, <<"look">>, <<"drop">>, <<"out", "FF">>, <<"read">>, <<"read">>,
    <<"out", "F5">>, <<"read">>>> \o write_leds("00") \o <<<<"read">>>>
Scancodes1 == <<<<"out", "F0">>, <<"read">>, <<"out", "01">>, <<"read">>>>

(* Mutant: both answers to the LEDs are read, and one to AE, which has none. *)
ScriptReadsMore ==
    Head1 \o <<<<"read">>>> \o Scancodes1 \o <<<<"cmd", "AE">>, <<"read">>, <<"out", "F4">>, <<"read">>>>
        \o Scancodes1 \o write_leds("07")

(* keyb8042_init, step by step.  An answer that is not the one expected is *)
(* reported and changes nothing, except for the self-test and the answer   *)
(* to the reset.  Of the answers to the LEDs one is read the first time    *)
(* and none the second time.                                               *)
Script ==
    Head1 \o Scancodes1 \o <<<<"cmd", "AE">>, <<"out", "F4">>, <<"read">>>>
        \o Scancodes1 \o write_leds("07")

Done == Len(Script) + 1
Step(op) == kpc < Done /\ Script[kpc][1] = op

(* What has come before is thrown away.                                    *)
Probe ==
    /\ Step("probe")
    /\ out' = "none"
    /\ kpc' = IF scanning = "absent" THEN Done ELSE kpc + 1
    /\ UNCHANGED <<coming, scanning>>

Write ==
    /\ \/ Step("cmd") /\ Command(Script[kpc][2])
       \/ Step("out") /\ ToKeyboard(Script[kpc][2])
    /\ kpc' = kpc + 1
    /\ UNCHANGED out

Read ==
    /\ Step("read")
    /\ \E b \in Keys \cup Answers : read_buffer(b)
    /\ kpc' = kpc + 1
    /\ UNCHANGED <<coming, scanning>>

(* The first byte after a self-test, and after a reset.                    *)
ReadAndTest ==
    /\ \E b \in Keys \cup Answers :
          /\ read_buffer(b)
          /\ \/ Step("self test") /\ kpc' = IF b = "55" THEN kpc + 1 ELSE Done
             \/ Step("ack") /\ kpc' = IF b = Ack THEN kpc + 5 ELSE kpc + 1
    /\ UNCHANGED <<coming, scanning>>

(* Looks at the buffer that do not wait: is this the answer to the reset?  *)
(* If not, another byte is thrown away and the reset is repeated.          *)
Look ==
    /\ \/ Step("look") /\ kpc' = IF out = Ack THEN kpc + 4 ELSE kpc + 1
       \/ Step("drop") /\ kpc' = kpc + 1
    /\ out' = "none"
    /\ UNCHANGED <<coming, scanning>>

keyb8042_init == Probe \/ Write \/ Read \/ ReadAndTest \/ Look

(* keyb8042_to_ascii: the answers and the arrows have no character.        *)
to_ascii(b) == IF b \in Keys \ {"up", "down"} THEN b ELSE "none"
=============================================================================
