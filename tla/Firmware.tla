------------------------------ MODULE Firmware ------------------------------
(***************************************************************************)
(* The light firmware examples of tosca-esp32c3 (examples/light and       *)
(* examples/light-with-events, src/main.rs) on the embassy executor: the  *)
(* HTTP handler tasks of the server (one per client connection), the      *)
(* press_button task and the change_led task share NOTIFY_LED, a          *)
(* single-slot Signal that a later signal overwrites, and the             *)
(* TOGGLE_CONTROLLER flag that keeps the toggle loop of change_led going. *)
(* Tasks interleave at their awaits (timers, Signal::wait).  The light    *)
(* example adds TOGGLE_SECONDS, the period of the toggle loop, and the     *)
(* toggle_with_parameters route that sets it (ParamToggleRoute); its      *)
(* toggle stores 1, the fixed period of light-with-events.                 *)
(*                                                                         *)
(* lastDone is a history variable: the command of the handler or button   *)
(* press that finished last, i.e. the one a user sees as the latest.      *)
(***************************************************************************)
EXTENDS Naturals

CONSTANTS
    Clients,        \* handler tasks serving concurrent connections
    MaxRequests,    \* bound: requests served, all clients together
    MaxPresses,     \* bound: button presses
    ToggleRoute,    \* the device registers the /toggle route
    ParamToggleRoute, \* the device registers /toggle/with-parameters
    SecondsInputs,  \* the u32 "seconds" values clients send
    SecondsMax      \* the max of the route's rangeu32 "seconds" parameter

Inputs == {"On", "Off", "Toggle", "Button"}     \* enum LedInput
NoInput == "none"

VARIABLES
    led,                \* the GPIO8 output level: "on" (low) or "off" (high)
    ledPc,              \* change_led: "wait", "toggling", "pause"
    notifyLed,          \* NOTIFY_LED: the signalled input, or NoInput
    toggleController,   \* TOGGLE_CONTROLLER
    client,             \* per handler task: [pc, input]
    button,             \* press_button: "idle", "before", "after"
    requests,           \* requests served so far
    presses,            \* button presses so far
    lastDone,           \* history: the input of the last finished command
    toggleSeconds,      \* TOGGLE_SECONDS
    ledSeconds,         \* change_led: the seconds of the current loop pass
    lastSeconds         \* history: the period the last toggle request set

vars == <<led, ledPc, notifyLed, toggleController, client, button,
          requests, presses, lastDone, toggleSeconds, ledSeconds, lastSeconds>>

TOGGLE_SECONDS_INIT == 1        \* AtomicU32::new(1)

DEFAULT_TOGGLE_SECONDS == 1     \* toggle: TOGGLE_SECONDS.store(1, ..)

(* seconds.value.min(seconds.max)                                          *)
ClampSeconds(v) == IF v < SecondsMax THEN v ELSE SecondsMax

Flip(l) == IF l = "on" THEN "off" ELSE "on"     \* toggle_led

Request == requests < MaxRequests /\ requests' = requests + 1

-----------------------------------------------------------------------------
(* The handler tasks (run_function of the server calls the route's fn)    *)

(* Mutation: a handler passes LedInput::Toggle to notify_led.              *)
NotifyLedBeginAnyInput(c) ==
    /\ client[c].pc = "idle"
    /\ Request
    /\ \E input \in {"On", "Off", "Toggle"} :
          client' = [client EXCEPT ![c] = [pc |-> "sleep", input |-> input]]
    /\ toggleController' = FALSE
    /\ UNCHANGED <<toggleSeconds, ledSeconds, lastSeconds,
                   led, ledPc, notifyLed, button, presses, lastDone>>

(* Mutation: notify_led does not clear TOGGLE_CONTROLLER.                  *)
NotifyLedBeginKeepFlag(c) ==
    /\ client[c].pc = "idle"
    /\ Request
    /\ \E input \in {"On", "Off"} :
          client' = [client EXCEPT ![c] = [pc |-> "sleep", input |-> input]]
    /\ UNCHANGED <<toggleSeconds, ledSeconds, lastSeconds,
                   toggleController, led, ledPc, notifyLed, button, presses,
                   lastDone>>

(* turn_light_on / turn_light_off: notify_led first clears the flag, then *)
(* sleeps MILLISECONDS_TO_WAIT.                                            *)
NotifyLedBegin(c) ==
    /\ client[c].pc = "idle"
    /\ Request
    /\ \E input \in {"On", "Off"} :
          client' = [client EXCEPT ![c] = [pc |-> "sleep", input |-> input]]
    /\ toggleController' = FALSE
    /\ UNCHANGED <<toggleSeconds, ledSeconds, lastSeconds,
                   led, ledPc, notifyLed, button, presses, lastDone>>

(* turn_light_off: parameters.u8("test-value")? fails before notify_led.  *)
TurnLightOffBadParameter(c) ==
    /\ client[c].pc = "idle"
    /\ Request
    /\ UNCHANGED <<toggleSeconds, ledSeconds, lastSeconds,
                   led, ledPc, notifyLed, toggleController, client, button,
                   presses, lastDone>>

(* Mutation: a queue-like signal that keeps the first pending input.     *)
NotifyLedEndKeepFirst(c) ==
    /\ client[c].pc = "sleep"
    /\ notifyLed' = IF notifyLed = NoInput THEN client[c].input ELSE notifyLed
    /\ lastDone' = client[c].input
    /\ client' = [client EXCEPT ![c] = [pc |-> "idle", input |-> NoInput]]
    /\ UNCHANGED <<toggleSeconds, ledSeconds, lastSeconds,
                   led, ledPc, toggleController, button, requests, presses>>

(* notify_led after its timer: NOTIFY_LED.signal(input), then respond.     *)
NotifyLedEnd(c) ==
    /\ client[c].pc = "sleep"
    /\ notifyLed' = client[c].input
    /\ lastDone' = client[c].input
    /\ client' = [client EXCEPT ![c] = [pc |-> "idle", input |-> NoInput]]
    /\ UNCHANGED <<toggleSeconds, ledSeconds, lastSeconds,
                   led, ledPc, toggleController, button, requests, presses>>

(* toggle: set the flag and signal Toggle, with no await in between.       *)
Toggle(c) ==
    /\ ToggleRoute
    /\ client[c].pc = "idle"
    /\ Request
    /\ toggleSeconds' = DEFAULT_TOGGLE_SECONDS
    /\ toggleController' = TRUE
    /\ notifyLed' = "Toggle"
    /\ lastDone' = "Toggle"
    /\ lastSeconds' = DEFAULT_TOGGLE_SECONDS
    /\ UNCHANGED <<ledSeconds, led, ledPc, client, button, presses>>

(* toggle_with_parameters: parameters.bool("test-value")? or             *)
(* parameters.u32("seconds")? fails, and the handler returns the error.   *)
ToggleWithParametersBadParameter(c) ==
    /\ ParamToggleRoute
    /\ client[c].pc = "idle"
    /\ Request
    /\ UNCHANGED <<toggleSeconds, ledSeconds, lastSeconds, led, ledPc,
                   notifyLed, toggleController, client, button, presses,
                   lastDone>>

(* toggle_with_parameters: the seconds, limited to the range's max, are   *)
(* stored, then the flag is set and Toggle signalled, with no await.       *)
ToggleWithParameters(c) ==
    /\ ParamToggleRoute
    /\ client[c].pc = "idle"
    /\ Request
    /\ \E v \in SecondsInputs :
          /\ toggleSeconds' = ClampSeconds(v)
          /\ lastSeconds' = ClampSeconds(v)
    /\ toggleController' = TRUE
    /\ notifyLed' = "Toggle"
    /\ lastDone' = "Toggle"
    /\ UNCHANGED <<ledSeconds, led, ledPc, client, button, presses>>

-----------------------------------------------------------------------------
(* press_button                                                            *)

(* A rising edge: clear the flag, then sleep.                               *)
PressButton ==
    /\ button = "idle"
    /\ presses < MaxPresses
    /\ presses' = presses + 1
    /\ toggleController' = FALSE
    /\ button' = "before"
    /\ UNCHANGED <<toggleSeconds, ledSeconds, lastSeconds,
                   led, ledPc, notifyLed, client, requests, lastDone>>

ButtonSignal ==
    /\ button = "before"
    /\ notifyLed' = "Button"
    /\ lastDone' = "Button"
    /\ button' = "after"
    /\ UNCHANGED <<toggleSeconds, ledSeconds, lastSeconds,
                   led, ledPc, toggleController, client, requests, presses>>

ButtonRearm ==
    /\ button = "after"
    /\ button' = "idle"
    /\ UNCHANGED <<toggleSeconds, ledSeconds, lastSeconds,
                   led, ledPc, notifyLed, toggleController, client,
                   requests, presses, lastDone>>

-----------------------------------------------------------------------------
(* change_led                                                              *)

(* NOTIFY_LED.wait() takes the signalled input and resets the slot.        *)
LedReceive ==
    /\ ledPc = "wait"
    /\ notifyLed # NoInput
    /\ notifyLed' = NoInput
    /\ led' = CASE notifyLed = "On"     -> "on"
                [] notifyLed = "Off"    -> "off"
                [] notifyLed = "Button" -> Flip(led)
                [] notifyLed = "Toggle" -> led
    /\ ledPc' = IF notifyLed = "Toggle" THEN "toggling" ELSE "pause"
    /\ UNCHANGED <<toggleSeconds, ledSeconds, lastSeconds,
                   toggleController, client, button, requests, presses,
                   lastDone>>

(* Mutation: the loop keeps the seconds of its previous pass.              *)
LoadToggleSecondsStale == ledSeconds

(* let seconds = TOGGLE_SECONDS.load(..), at every pass of the loop.       *)
LoadToggleSeconds == toggleSeconds

(* One pass of `while TOGGLE_CONTROLLER.load(..)`: load the seconds,     *)
(* toggle, update_event, a timer of that many seconds.                     *)
LedToggleStep ==
    /\ ledPc = "toggling"
    /\ toggleController
    /\ led' = Flip(led)
    /\ ledSeconds' = LoadToggleSeconds
    /\ UNCHANGED <<toggleSeconds, lastSeconds,
                   ledPc, notifyLed, toggleController, client, button,
                   requests, presses, lastDone>>

LedToggleExit ==
    /\ ledPc = "toggling"
    /\ ~toggleController
    /\ ledPc' = "pause"
    /\ UNCHANGED <<toggleSeconds, ledSeconds, lastSeconds,
                   led, notifyLed, toggleController, client, button,
                   requests, presses, lastDone>>

(* update_event at the end of the input, then the MILLISECONDS_TO_WAIT    *)
(* timer before waiting again.                                             *)
LedPause ==
    /\ ledPc = "pause"
    /\ ledPc' = "wait"
    /\ UNCHANGED <<toggleSeconds, ledSeconds, lastSeconds,
                   led, notifyLed, toggleController, client, button,
                   requests, presses, lastDone>>

-----------------------------------------------------------------------------

(* The LED output starts at Level::High (off); change_led reports it and  *)
(* waits; the flag is false and nothing is signalled.                      *)
Init ==
    /\ led = "off"
    /\ ledPc = "wait"
    /\ notifyLed = NoInput
    /\ toggleController = FALSE
    /\ client = [c \in Clients |-> [pc |-> "idle", input |-> NoInput]]
    /\ button = "idle"
    /\ requests = 0
    /\ presses = 0
    /\ lastDone = NoInput
    /\ toggleSeconds = TOGGLE_SECONDS_INIT
    /\ ledSeconds = TOGGLE_SECONDS_INIT
    /\ lastSeconds = TOGGLE_SECONDS_INIT

Handler(c) ==
    \/ NotifyLedBegin(c) \/ TurnLightOffBadParameter(c) \/ NotifyLedEnd(c)
    \/ Toggle(c) \/ ToggleWithParameters(c) \/ ToggleWithParametersBadParameter(c)

Next ==
    \/ \E c \in Clients : Handler(c)
    \/ PressButton \/ ButtonSignal \/ ButtonRearm
    \/ LedReceive \/ LedToggleStep \/ LedToggleExit \/ LedPause

(* Timers expire and a signalled task is woken: the steps after an await  *)
(* are weakly fair.  New requests and presses are never forced.            *)
Fairness ==
    /\ \A c \in Clients : WF_vars(NotifyLedEnd(c))
    /\ WF_vars(ButtonSignal) /\ WF_vars(ButtonRearm)
    /\ WF_vars(LedReceive) /\ WF_vars(LedToggleStep)
    /\ WF_vars(LedToggleExit) /\ WF_vars(LedPause)

Spec == Init /\ [][Next]_vars /\ Fairness

-----------------------------------------------------------------------------
(* Properties                                                              *)

TypeOK ==
    /\ led \in {"on", "off"}
    /\ ledPc \in {"wait", "toggling", "pause"}
    /\ notifyLed \in Inputs \cup {NoInput}
    /\ toggleController \in BOOLEAN
    /\ client \in [Clients -> [pc : {"idle", "sleep"},
                               input : {"On", "Off", NoInput}]]
    /\ button \in {"idle", "before", "after"}
    /\ requests \in 0..MaxRequests /\ presses \in 0..MaxPresses
    /\ lastDone \in Inputs \cup {NoInput}
    /\ {toggleSeconds, ledSeconds, lastSeconds} \subseteq 0..SecondsMax

Quiet ==
    /\ \A c \in Clients : client[c].pc = "idle"
    /\ button = "idle"

(* The LED does what the last finished command asked: On and Off leave it *)
(* lit or dark and the toggle loop stopped, Toggle leaves the loop going.  *)
Follows ==
    CASE lastDone = "On"     -> ledPc # "toggling" /\ led = "on"
      [] lastDone = "Off"    -> ledPc # "toggling" /\ led = "off"
      [] lastDone = "Button" -> ledPc # "toggling"
      [] lastDone = "Toggle" -> ledPc = "toggling"
      [] OTHER               -> ledPc # "toggling"

(* Whenever every handler and the button are idle, the LED eventually     *)
(* follows the last command that finished, unless a new command starts:  *)
(* notify_led's "Disable the toggle task" and the signal it sends take    *)
(* effect in change_led.                                                   *)
LastCommandWins ==
    [](Quiet => <>(Follows \/ ~Quiet))

(* The toggle loop settles on the period the last toggle request set:     *)
(* whenever every handler and the button are idle after a toggle or       *)
(* toggle_with_parameters, change_led eventually toggles with that many   *)
(* seconds, unless a new command starts, even when the request arrived    *)
(* while the loop was already running (TOGGLE_SECONDS is read at every    *)
(* pass, NOTIFY_LED only between inputs).                                  *)
TogglePeriodFollows ==
    [](Quiet /\ lastDone = "Toggle" =>
         <>(~Quiet \/ (ledPc = "toggling" /\ ledSeconds = lastSeconds)))

=============================================================================
