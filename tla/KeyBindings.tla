---------------------------- MODULE KeyBindings -----------------------------
(***************************************************************************)
(* The table of key bindings as it is filled: be_handle_key(), called by   *)
(* add_bindings() of bindings.c before the backend runs.                   *)
(***************************************************************************)
EXTENDS Keymap

CONSTANTS
  Func,    \* the handlers
  Chords   \* what add_bindings() binds: modifiers and keysym

(* Everything there is bound with CTRL, or with CTRL and SHIFT, to a legacy *)
(* keysym: those lie below bit 16.                                          *)
ASSUME ChordsArePlain ==
  Chords \subseteq (SUBSET {"CTRL", "SHIFT"}) \X SUBSET (0..15)

ASSUME NullIsNoHandler == NULL \notin Func

VARIABLES
  keymap,   \* be->keymap_top->bindings
  asked     \* history: which handler was last asked for on which chord

bindings == <<keymap, asked>>

NoBindings ==
  /\ keymap = << >>
  /\ asked = [chord \in Chords |-> NULL]

(* be_handle_key(): the chord may have a handler already. *)
be_handle_key(chord, func) ==
  /\ keymap' = keymap_add_keybinding(keymap, modded_keysym(chord[1], chord[2]), func)
  /\ asked' = [asked EXCEPT ![chord] = func]

(* Nothing is left of add_bindings(). *)
AllBound == \A chord \in Chords : asked[chord] # NULL

-----------------------------------------------------------------------------
(* What was asked for on one of these keysyms with exactly the modifiers    *)
(* that count among those held.                                             *)
AskedOn(held, keysyms) ==
  {asked[chord] : chord \in {<<Capture(held), keysyms[i]>> : i \in DOMAIN keysyms}
                              \cap Chords} \ {NULL}

(* A press calls a handler that was asked for on the translated chord, or,  *)
(* if there is none, one that was asked for on the keys as they are held,   *)
(* or none at all.                                                          *)
CallsWhatWasAsked(held, key) ==
  LET called == keymap_filter_keycode(keymap, held, key)
      translated == AskedOn(held \ Consumed[key], Translated(held, key))
      raw == AskedOn(held, Raw(key))
  IN  IF translated # {} THEN called \in translated
      ELSE IF raw # {} THEN called \in raw
      ELSE called = NULL

(* Whatever was bound in whatever order, a press calls what was asked for,  *)
(* on keys with any keysyms and with any modifiers held; with ALT or MOD3   *)
(* down there is nothing to call, since nothing is bound with them.  The    *)
(* code: modifiers and keysym are packed into one integer                   *)
(* (backend.c:79-98), whose bits they share for ALT, SUPER and the higher   *)
(* keysyms, and a press is looked up without and then with the modifiers    *)
(* that xkb consumed (backend.c:424-458).  LOGO, the Super key, is not one  *)
(* of the modifiers that are looked for: of a press with SUPER and SHIFT    *)
(* (backend.c:431) only SHIFT counts, here and in the code.                 *)
PressCallsItsHandler ==
  \A key \in Key, held \in SUBSET Modifier : CallsWhatWasAsked(held, key)
=============================================================================
