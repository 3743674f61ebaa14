------------------------------ MODULE MCInput -------------------------------
(* Three keys: a letter that is bound with and without shift, the modifier  *)
(* of its bindings, so that this can change between the press and the       *)
(* release, and a key with a Unicode character on its second level, which   *)
(* has the low bits of the letter and a bit of BE_MOD_ALT.                  *)
EXTENDS Input, TLC

MCKey == {"h", "ctrl", "other"}

(* XKB_KEY_h = 0x68, XKB_KEY_H = 0x48, XKB_KEY_Control_L = 0xffe3, and      *)
(* U+0468 is the keysym 0x1000468.                                          *)
h == {3, 5, 6}
MCSyms == [ h     |-> << <<h>>, <<{3, 6}>> >>,
            ctrl  |-> << <<{0, 1} \cup (5..15)>> >>,
            other |-> << <<{5}>>, <<{3, 5, 6, 10, 24}, h>> >> ]

(* A letter goes by shift and caps lock, together they cancel; the other    *)
(* key goes by the third level.                                             *)
MCConsumed == [ h |-> {"SHIFT", "CAPS"}, ctrl |-> {}, other |-> {"MOD5"} ]
MCLevelOf ==
  [ h |-> [mods \in SUBSET {"SHIFT", "CAPS"} |->
             IF mods \in {{"SHIFT"}, {"CAPS"}} THEN 2 ELSE 1],
    ctrl |-> [mods \in SUBSET {} |-> 1],
    other |-> [mods \in SUBSET {"MOD5"} |-> IF mods = {} THEN 1 ELSE 2] ]

MCModOf == [ h |-> NULL, ctrl |-> "CTRL", other |-> NULL ]
MCChords == { <<{"CTRL"}, h>>, <<{"CTRL", "SHIFT"}, h>> }

Symmetry == UNION {Permutations(S) : S \in {Keyboard, Pointer, Window, Func}}
=============================================================================
