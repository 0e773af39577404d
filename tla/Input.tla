-------------------------------- MODULE Input -------------------------------
(***************************************************************************)
(* common/gl/input.c: the input state that GLFW callbacks and two calls of *)
(* the frame loop keep.  The hardware is what GLFW reports: which keys and *)
(* buttons are down and what the gamepads do.  A flag of input_internal is *)
(* in `input` exactly when it is set.                                      *)
(***************************************************************************)
EXTENDS Integers, FiniteSets

CONSTANTS
  Keys,         (* Keys of the keyboard.                                    *)
  Mods,         (* The modifiers of key events.                             *)
  Buttons,      (* Buttons of the mouse.                                    *)
  Joysticks,    (* The joysticks that can be plugged in.                    *)
  PadButtons,   (* Buttons of a gamepad.                                    *)
  Axes,         (* Axes of its sticks, from -1 to 1; triggers rest at -1.   *)
  PadStates,    (* What a gamepad does: its buttons and axes.               *)
  JOYSTICK_LAST (* GLFW_JOYSTICK_LAST, the number of the last joystick.     *)

ASSUME InputAssumption ==
  /\ JOYSTICK_LAST \in Nat /\ Joysticks \subseteq 0 .. JOYSTICK_LAST
  /\ PadStates \subseteq [buttons : SUBSET PadButtons, axes : [Axes -> -1 .. 1]]

VARIABLES
  keys,         (* The keys that are down.                                  *)
  buttons,      (* The mouse buttons that are down.                         *)
  pads,         (* [some Joysticks -> what that gamepad did when it was read] *)
  input,        (* The flags that are set.                                  *)
  gp,           (* input.gp: the gamepad buttons that are set.              *)
  axes,         (* [Axes -> input.LS, RS, LT and RT]                        *)
  polled,       (* Whether no key event came since update_mods.             *)
  shifted,      (* Whether the last key event reported shift.               *)
  clicked       (* The button of the last mouse event.                      *)

inputVars == <<keys, buttons, pads, input, gp, axes, polled, shifted, clicked>>

(* The keys with a case of their own, from space to world_2.               *)
PrintableKeys ==
  {"space", "apostrophe", "comma", "minus", "period", "slash",
   "num_0", "num_1", "num_2", "num_3", "num_4", "num_5", "num_6", "num_7", "num_8", "num_9",
   "semicolon", "equal", "a", "b", "c", "d", "e", "f", "g", "h", "i", "j", "k", "l", "m",
   "n", "o", "p", "q", "r", "s", "t", "u", "v", "w", "x", "y", "z", "left_bracket",
   "backslash", "right_bracket", "grave_accent", "world_1", "world_2"}

(* And from escape to f25.                                                 *)
FunctionKeys ==
  {"escape", "enter", "tab", "backspace", "insert", "delete", "right", "left", "down", "up",
   "page_up", "page_down", "home", "end", "caps_lock", "scroll_lock", "num_lock",
   "print_screen", "pause", "f1", "f2", "f3", "f4", "f5", "f6", "f7", "f8", "f9", "f10",
   "f11", "f12", "f13", "f14", "f15", "f16", "f17", "f18", "f19", "f20", "f21", "f22",
   "f23", "f24", "f25"}

(* The bits of GLFW's modifiers.                                           *)
MOD == [shift |-> 1, control |-> 2, alt |-> 4, super |-> 8, caps_lock |-> 16, num_lock |-> 32]

ASSUME ModsAssumption == Mods \subseteq DOMAIN MOD

Shifts == {"left_shift", "right_shift"}
Controls == {"left_control", "right_control"}
Alts == {"left_alt", "right_alt"}

InputInit ==
  /\ keys = {} /\ buttons = {} /\ pads = <<>>
  /\ input = {} /\ gp = {} /\ axes = [a \in Axes |-> 0]
  /\ polled = FALSE /\ shifted = FALSE /\ clicked = "none"

Assigned(flags, name, value) == IF value THEN flags \cup {name} ELSE flags \ {name}

(* Mutant: only a press has a case in the switch. *)
PressedOnly(flags, key, state) ==
  IF key \in PrintableKeys \cup FunctionKeys /\ state THEN flags \cup {key} ELSE flags

(* The switch; no key of the keypad and no modifier has a case.            *)
Switched(flags, key, state) ==
  IF key \in PrintableKeys \cup FunctionKeys THEN Assigned(flags, key, state) ELSE flags

(* !flag & (mods & bit) is a bitwise and of 0 or 1 with the bit: only the  *)
(* lowest one can be left.                                                 *)
Toggled(flags, mods) ==
  (flags \ DOMAIN MOD) \cup {m \in mods \ flags : MOD[m] % 2 = 1}

set_input_by_glfw_code(key, state, mods) ==
  input' = Toggled(Switched(input, key, state), mods)

(* A key is pressed (1), repeats (2) or is released (0).  The modifiers    *)
(* that are reported are the ones held before or after, and any locks.     *)
input_update(key, action, mods) ==
  LET down == IF action = 0 THEN keys \ {key} ELSE keys \cup {key}
      held == keys \cup down
  IN  /\ CASE action = 0 -> key \in keys [] action = 1 -> key \notin keys [] OTHER -> key \in keys
      /\ "shift" \in mods => held \cap Shifts # {}
      /\ "control" \in mods => held \cap Controls # {}
      /\ "alt" \in mods => held \cap Alts # {}
      /\ keys' = down
      /\ set_input_by_glfw_code(key, action # 0, mods)
      /\ polled' = FALSE /\ shifted' = ("shift" \in mods)
      /\ UNCHANGED <<buttons, pads, gp, axes, clicked>>

MouseFlag ==
  [left |-> "click_left", right |-> "click_right", middle |-> "click_middle",
   four |-> "mouse_button_4", five |-> "mouse_button_5"]

(* Each of the five flags is assigned action * (button == its button): a   *)
(* button that has none clears them all.                                   *)
mouse_button_update(button, action) ==
  /\ (button \in buttons) = (action = 0)
  /\ buttons' = Assigned(buttons, button, action = 1)
  /\ input' = (input \ {MouseFlag[b] : b \in DOMAIN MouseFlag})
                 \cup {MouseFlag[b] : b \in {b \in DOMAIN MouseFlag : action = 1 /\ b = button}}
  /\ clicked' = button
  /\ UNCHANGED <<keys, pads, gp, axes, polled, shifted>>

(* The halves of alt have no flags of their own here, super is not asked.  *)
update_mods ==
  LET held(halves) == keys \cap halves # {} IN
    /\ input' = (input \ (Shifts \cup Controls \cup {"shift", "control", "alt"}))
                   \cup (keys \cap (Shifts \cup Controls))
                   \cup {m \in {"shift", "control", "alt"} :
                           held(CASE m = "shift" -> Shifts [] m = "control" -> Controls [] OTHER -> Alts)}
    /\ polled' = TRUE
    /\ UNCHANGED <<keys, buttons, pads, gp, axes, shifted, clicked>>

(* The gamepads that the loop reads: not the last joystick.                *)
Polled(state) == {i \in DOMAIN state : i < JOYSTICK_LAST}

Clamped(n) == CASE n < -1 -> -1 [] n > 1 -> 1 [] OTHER -> n

(* Everything is wiped, then summed up over the gamepads, and clamped.     *)
gamepad_update(state) ==
  LET count(a, v) == Cardinality({i \in Polled(state) : state[i].axes[a] = v}) IN
    /\ pads' = state
    /\ gp' = UNION {state[i].buttons : i \in Polled(state)}
    /\ axes' = [a \in Axes |-> Clamped(count(a, 1) - count(a, -1))]
    /\ UNCHANGED <<keys, buttons, input, polled, shifted, clicked>>

InputNext ==
  \/ \E key \in Keys, action \in 0 .. 2, mods \in SUBSET Mods : input_update(key, action, mods)
  \/ \E button \in Buttons, action \in {0, 1} : mouse_button_update(button, action)
  \/ update_mods
  \/ \E plugged \in SUBSET Joysticks : \E state \in [plugged -> PadStates] : gamepad_update(state)

InputSpec == InputInit /\ [][InputNext]_inputVars

-----------------------------------------------------------------------------
(* Of the mouse buttons that are down and have a flag, only the one of the *)
(* last mouse event is flagged: a later event hides the others.            *)
MouseAgrees ==
  {b \in DOMAIN MouseFlag : MouseFlag[b] \in input} = buttons \cap {clicked} \cap DOMAIN MouseFlag

(* The modifiers are right between update_mods and the next key event.     *)
(* That event can set shift alone, and only when it reports it; no flag of *)
(* super or of a lock is ever set.                                         *)
ModsAgree ==
  /\ polled => /\ "shift" \in input <=> Shifts \cap keys # {}
               /\ "control" \in input <=> Controls \cap keys # {}
               /\ "alt" \in input <=> Alts \cap keys # {}
  /\ ~polled => input \cap DOMAIN MOD \subseteq (IF shifted THEN {"shift"} ELSE {})
  /\ input \cap {"super", "caps_lock", "num_lock"} = {}

(* "Set a button on if any of the controllers have it pressed", and one    *)
(* gamepad that moves a stick has it where it is: this is so of "up to 16  *)
(* connected controllers" except for what the last joystick does alone.    *)
PadsAgree ==
  LET pressing(b) == {i \in DOMAIN pads : b \in pads[i].buttons}
      moving(a) == {i \in DOMAIN pads : pads[i].axes[a] # 0}
  IN  /\ \A b \in PadButtons :
           (b \in gp <=> pressing(b) # {}) <=> pressing(b) # {JOYSTICK_LAST}
      /\ \A a \in Axes, i \in DOMAIN pads :
           /\ moving(a) \ {JOYSTICK_LAST} = {i} => axes[a] = pads[i].axes[a]
           /\ moving(a) = {JOYSTICK_LAST} => axes[a] = 0

(* After any sequence of events: a key that has a case in the switch is    *)
(* flagged while it is down, the locks apart, and the mouse buttons, the   *)
(* modifiers and the gamepads are as above.                                *)
InputAgrees ==
  LET plain == (PrintableKeys \cup FunctionKeys) \ {"caps_lock", "num_lock"}
  IN  keys \cap plain = input \cap plain /\ MouseAgrees /\ ModsAgree /\ PadsAgree

=============================================================================
