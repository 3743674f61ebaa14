------------------------------- MODULE Keymap -------------------------------
(***************************************************************************)
(* How backend.c finds the handler of a key press: a keysym and its        *)
(* modifiers are packed into one word, the key of a hash table, and a      *)
(* press is looked up twice, as the keysym that xkb translates it to and   *)
(* as the keysym that is printed on the key.  Operators only.              *)
(***************************************************************************)
EXTENDS Naturals, Sequences

CONSTANTS
  Key,        \* the keys of a keyboard
  Syms,       \* the keysyms of a key: a sequence for each of its levels
  Consumed,   \* xkb: the modifiers that the type of a key consumes
  LevelOf,    \* xkb: the level that the consumed ones among those held select
  NULL

(* The modifiers of a keyboard (enum wlr_keyboard_modifier), and the ones   *)
(* that be_handle_key() takes (backend.h).                                  *)
Modifier == {"SHIFT", "CAPS", "CTRL", "ALT", "MOD2", "MOD3", "LOGO", "MOD5"}
Mod      == {"CTRL", "SHIFT", "ALT", "SUPER"}

(* A word is the set of its bits that are 1, so that | is \cup.  Keysyms    *)
(* reach up to bit 28: those of Unicode characters have bit 24, those of    *)
(* multimedia keys bit 28.                                                  *)
Keysym == SUBSET (0..28)

(* Level 1 is the one of the raw lookup; xkb consumes the modifiers of the  *)
(* type of a key whether they are down or not.                              *)
ASSUME SymsAreKeysyms ==
  \A key \in Key :
    /\ 1 \in DOMAIN Syms[key]
    /\ \A level \in DOMAIN Syms[key] : Syms[key][level] \in Seq(Keysym)
ASSUME LevelsOfKeys ==
  \A key \in Key :
    /\ Consumed[key] \subseteq Modifier
    /\ LevelOf[key] \in [SUBSET Consumed[key] -> DOMAIN Syms[key]]

(* BE_MOD_CTRL, BE_MOD_SHIFT, BE_MOD_ALT and BE_MOD_SUPER. *)
be_modifier_t == [ CTRL |-> {30}, SHIFT |-> {29},
                   ALT |-> {24, 25, 26, 27}, SUPER |-> {26} ]

(* A mutation: shift is not packed. *)
modded_keysym_unshifted(mods, sym) ==
  sym \cup UNION {be_modifier_t[m] : m \in mods \ {"SHIFT"}}

modded_keysym(mods, sym) == sym \cup UNION {be_modifier_t[m] : m \in mods}

(* The held modifiers that a lookup cares about, and what it takes them     *)
(* for: SUPER is looked for as MOD3, and the Super key is LOGO.             *)
captured == [ SHIFT |-> "SHIFT", CTRL |-> "CTRL", ALT |-> "ALT", MOD3 |-> "SUPER" ]

Capture(held) == {captured[m] : m \in held \cap DOMAIN captured}

(* The hash table is a function on the words that are bound. *)
keymap_get_keybinding(table, word) ==
  IF word \in DOMAIN table THEN table[word] ELSE NULL

keymap_add_keybinding(table, word, func) ==
  [w \in DOMAIN table \cup {word} |-> IF w = word THEN func ELSE table[w]]

Translated(held, key) == Syms[key][LevelOf[key][held \cap Consumed[key]]]

Raw(key) == Syms[key][1]

(* The handler of the first keysym that has one. *)
keymap_filter_keysyms(table, held, keysyms) ==
  LET handler(i) ==
        keymap_get_keybinding(table, modded_keysym(Capture(held), keysyms[i]))
      bound == {i \in DOMAIN keysyms : handler(i) # NULL}
  IN  IF bound = {} THEN NULL
      ELSE handler(CHOOSE i \in bound : \A j \in bound : i <= j)

(* A mutation: the raw lookup forgets to read the modifiers again. *)
keymap_filter_keycode_consumed(table, held, key) ==
  LET rest == held \ Consumed[key]
      translated == keymap_filter_keysyms(table, rest, Translated(held, key))
  IN  IF translated # NULL THEN translated
      ELSE keymap_filter_keysyms(table, rest, Raw(key))

(* The handler that a press calls, NULL if there is none.  Every handler of *)
(* bindings.c returns true, so the press is consumed if one is called.      *)
keymap_filter_keycode(table, held, key) ==
  LET translated == keymap_filter_keysyms(table, held \ Consumed[key],
                                          Translated(held, key))
  IN  IF translated # NULL THEN translated
      ELSE keymap_filter_keysyms(table, held, Raw(key))
=============================================================================
