----------------------------- MODULE LedModule -----------------------------
(***************************************************************************)
(* GPIO_Prj: a kernel module whose timer toggles the LED on a GPIO pin, at *)
(* a period set through sysfs (led_toggle_module/main.c, mygpio.c), and a  *)
(* program that toggles the same pin through /dev/mem (led_toggle_user,    *)
(* bcm2837_gpio.c).  They share the registers of the pin: its function, a  *)
(* field that both change with a load and a store, and its output latch.   *)
(*                                                                         *)
(* The timer handler runs on any core, also while the module is unloaded.  *)
(***************************************************************************)
EXTENDS Integers

CONSTANTS
  Written,      \* the numbers written to the attribute period
  Rounds        \* rounds of the program, 10 in the code

VARIABLES
  module,       \* where the init and exit functions of the module are
  handler,      \* where the timer handler is
  user,         \* where main() of the program is
  round,        \* rounds it has done
  armed,        \* the timer is armed
  gs32Period,   \* milliseconds
  gs32isoff,    \* the level the module last gave the pin
  GPFSEL,       \* the function of the pin
  latch,        \* its output level
  call,         \* where each party is in set_gpio_mode()
  s32mode,      \* the function it sets there
  loaded,       \* what it has loaded from GPFSEL
  s32temp,      \* what the program has read back, for each level it set
  raced,        \* history: the handler ran when the timer was deleted
  overlap       \* history: both parties were in set_gpio_mode() at once

setmode == <<call, s32mode>>
pin     == <<GPFSEL, latch, loaded, overlap>>
program == <<user, round, s32temp>>
timer   == <<handler, armed, gs32isoff>>
vars == <<module, raced, gs32Period, timer, program, pin, setmode>>

INPUT   == 0
OUTPUT  == 1
Levels  == {0, 1}
Parties == {"module", "user"}

\* An output pin has the level of its latch, an input pin any.
get_gpio == IF GPFSEL = OUTPUT THEN {latch} ELSE Levels

Init ==
  /\ module = "none" /\ handler = "none" /\ user = "none"
  /\ round = 0 /\ s32temp = <<0, 1>>
  /\ armed = FALSE /\ gs32Period = 1000 /\ gs32isoff = 1
  /\ GPFSEL = INPUT /\ latch = 0
  /\ call = [p \in Parties |-> "idle"]
  /\ s32mode = [p \in Parties |-> INPUT]
  /\ loaded = [p \in Parties |-> INPUT]
  /\ raced = FALSE /\ overlap = FALSE

-----------------------------------------------------------------------------
(* set_gpio_mode() *)

set_gpio_mode(p, mode) ==
  /\ call' = [call EXCEPT ![p] = "clear"]
  /\ s32mode' = [s32mode EXCEPT ![p] = mode]
  /\ overlap' = (overlap \/ \E q \in Parties : call[q] # "idle")

\* Mutant: the field is not cleared.
ClearMode_Not(p) ==
  /\ call[p] = "clear" /\ call' = [call EXCEPT ![p] = "load"]
  /\ UNCHANGED <<module, raced, gs32Period, timer, program, pin, s32mode>>

\* "&=" clears the field, whatever it loads from it.
ClearMode(p) ==
  /\ call[p] = "clear" /\ call' = [call EXCEPT ![p] = "load"]
  /\ GPFSEL' = INPUT
  /\ UNCHANGED <<module, raced, gs32Period, timer, program, latch, loaded, overlap, s32mode>>

\* "|=" loads the field ...
LoadMode(p) ==
  /\ call[p] = "load" /\ call' = [call EXCEPT ![p] = "store"]
  /\ loaded' = [loaded EXCEPT ![p] = GPFSEL]
  /\ UNCHANGED <<module, raced, gs32Period, timer, program, GPFSEL, latch, overlap, s32mode>>

\* ... and stores it with the bits of the new function added.
StoreMode(p) ==
  /\ call[p] = "store" /\ call' = [call EXCEPT ![p] = "idle"]
  /\ GPFSEL' = IF s32mode[p] = OUTPUT THEN OUTPUT ELSE loaded[p]
  /\ UNCHANGED <<module, raced, gs32Period, timer, program, latch, loaded, overlap, s32mode>>

-----------------------------------------------------------------------------
(* The module *)

ModuleStep(from, to) ==
  /\ module = from /\ call["module"] = "idle"
  /\ module' = to
  /\ UNCHANGED <<gs32Period, program, GPFSEL, latch, loaded, handler>>

InitPin ==
  /\ ModuleStep("none", "mapped")
  /\ gs32isoff' \in get_gpio
  /\ set_gpio_mode("module", OUTPUT)
  /\ UNCHANGED <<armed, raced>>

InitTimer ==
  /\ ModuleStep("mapped", "armed")
  /\ armed' = TRUE
  /\ UNCHANGED <<gs32isoff, raced, setmode, overlap>>

InitSysfs ==
  /\ ModuleStep("armed", "loaded")
  /\ UNCHANGED <<armed, gs32isoff, raced, setmode, overlap>>

set_period ==
  /\ module = "loaded"
  /\ \E s32val \in Written :
       /\ s32val >= 10
       /\ gs32Period' = s32val
  /\ UNCHANGED <<module, raced, timer, program, pin, setmode>>

\* device_remove_file() waits for writers and lets no new ones in.
RemoveSysfs ==
  /\ ModuleStep("loaded", "removed")
  /\ UNCHANGED <<armed, gs32isoff, raced, setmode, overlap>>

\* Mutant: the timer is not deleted.
DelTimer_Not ==
  /\ ModuleStep("removed", "deleted")
  /\ raced' = (handler # "none")
  /\ UNCHANGED <<armed, gs32isoff, setmode, overlap>>

\* del_timer() does not wait for a handler that runs.
DelTimer ==
  /\ ModuleStep("removed", "deleted")
  /\ armed' = FALSE
  /\ raced' = (handler # "none")
  /\ UNCHANGED <<gs32isoff, setmode, overlap>>

ExitPin ==
  /\ ModuleStep("deleted", "leaving")
  /\ set_gpio_mode("module", INPUT)
  /\ UNCHANGED <<armed, gs32isoff, raced>>

\* The kernel frees the memory of the module.
FreeModule ==
  /\ ModuleStep("leaving", "freed")
  /\ UNCHANGED <<armed, gs32isoff, raced, setmode, overlap>>

\* The timer calls the handler, which faults when its code has been freed.
Expire ==
  /\ handler = "none" /\ armed
  /\ armed' = FALSE
  /\ handler' = IF module = "freed" THEN "fault" ELSE "toggle"
  /\ UNCHANGED <<module, raced, gs32Period, gs32isoff, program, pin, setmode>>

Toggle ==
  /\ handler = "toggle"
  /\ IF module = "freed"
     THEN handler' = "fault" /\ UNCHANGED <<gs32isoff, latch>>
     ELSE /\ handler' = "rearm"
          /\ gs32isoff' = 1 - gs32isoff
          /\ latch' = gs32isoff'
  /\ UNCHANGED <<module, raced, gs32Period, armed, program, GPFSEL, loaded, overlap, setmode>>

Rearm ==
  /\ handler = "rearm"
  /\ IF module = "freed"
     THEN handler' = "fault" /\ UNCHANGED armed
     ELSE handler' = "none" /\ armed' = TRUE
  /\ UNCHANGED <<module, raced, gs32Period, gs32isoff, program, pin, setmode>>

-----------------------------------------------------------------------------
(* The program *)

UserStep(from, to) ==
  /\ user = from /\ call["user"] = "idle"
  /\ user' = to
  /\ UNCHANGED <<module, raced, gs32Period, timer, GPFSEL, loaded>>

\* /dev/mem may not be opened or mapped without privileges.
MapFails ==
  /\ UserStep("none", "failed")
  /\ UNCHANGED <<round, s32temp, latch, setmode, overlap>>

Map ==
  /\ UserStep("none", "set 1")
  /\ set_gpio_mode("user", OUTPUT)
  /\ UNCHANGED <<round, s32temp, latch>>

\* The loop sets and reads back each level.
SetLevel(from, val, to) ==
  /\ round < Rounds
  /\ UserStep(from, to)
  /\ latch' = val
  /\ UNCHANGED <<round, s32temp, setmode, overlap>>

ReadLevel(from, val, to) ==
  /\ UserStep(from, to)
  /\ \E level \in get_gpio : s32temp' = [s32temp EXCEPT ![val + 1] = level]
  /\ round' = IF val = 0 THEN round + 1 ELSE round
  /\ UNCHANGED <<latch, setmode, overlap>>

\* The pin is made an input and the registers are unmapped.
Unmap ==
  /\ round = Rounds
  /\ UserStep("set 1", "unmapping")
  /\ set_gpio_mode("user", INPUT)
  /\ UNCHANGED <<round, s32temp, latch>>

Exit ==
  /\ UserStep("unmapping", "exited")
  /\ UNCHANGED <<round, s32temp, latch, setmode, overlap>>

Next ==
  \/ \E p \in Parties : ClearMode(p) \/ LoadMode(p) \/ StoreMode(p)
  \/ InitPin \/ InitTimer \/ InitSysfs \/ set_period
  \/ RemoveSysfs \/ DelTimer \/ ExitPin \/ FreeModule
  \/ Expire \/ Toggle \/ Rearm
  \/ MapFails \/ Map
  \/ SetLevel("set 1", 1, "get 1") \/ ReadLevel("get 1", 1, "set 0")
  \/ SetLevel("set 0", 0, "get 0") \/ ReadLevel("get 0", 0, "set 1")
  \/ Unmap \/ Exit
  \/ (module = "freed" /\ user \in {"failed", "exited"} /\ UNCHANGED vars)

Spec == Init /\ [][Next]_vars

-----------------------------------------------------------------------------
(* Properties *)

(***************************************************************************)
(* The timer survives the module, and its handler runs into freed memory,  *)
(* only if the handler was running when del_timer() was called (line 102); *)
(* the timer is never armed for less than 10 ms.                           *)
(***************************************************************************)
NoStrayTimer ==
  /\ handler = "fault" => raced
  /\ module \in {"deleted", "leaving", "freed"} /\ ~raced =>
       ~armed /\ handler = "none"
  /\ gs32Period >= 10

(***************************************************************************)
(* Unless the program and the module were in set_gpio_mode() at the same   *)
(* time, the pin is an input once both have ended, and an output while one *)
(* of them works alone; the program alone reads back the levels it sets.   *)
(***************************************************************************)
Away == module \in {"none", "freed"}
Closed == user \in {"none", "failed", "exited"}
PinMode ==
  ~overlap /\ (\A p \in Parties : call[p] = "idle") =>
    /\ Away /\ Closed => GPFSEL = INPUT
    /\ module = "none" /\ ~Closed /\ user # "unmapping" => GPFSEL = OUTPUT
    /\ module = "none" => s32temp = <<0, 1>>
    /\ user \in {"none", "failed"} /\ ~Away /\ module # "leaving" => GPFSEL = OUTPUT
=============================================================================
