------------------------------- MODULE Input --------------------------------
(***************************************************************************)
(* The input half of backend.c: bindings are added, and then, while the    *)
(* backend runs, keyboards and pointers come and go, keys go to a binding  *)
(* or through the seat to a client, and the front end moves the focus.     *)
(* The seat belongs to wlroots; what it remembers, and what the focused    *)
(* client is told, is modelled from how backend.c uses it.                 *)
(***************************************************************************)
EXTENDS KeyBindings, FiniteSets

CONSTANTS
  Keyboard, Pointer,   \* input devices
  Window,              \* be_window_t objects
  ModOf                \* the modifier that a key stands for, or NULL

ASSUME NullIsNoDevice == NULL \notin Keyboard \cup Pointer \cup Window
ASSUME ModOfKeys == ModOf \in [Key -> Modifier \cup {NULL}]

VARIABLES
  running,              \* whether backend_run() has started the backend
  keyboards, pointers,  \* be->keyboards and be->pointers
  seat_caps,            \* be->seat_caps, as the clients were told of it
  be_focus,             \* be->focus
  windows,              \* the windows that are mapped
  down,                 \* the keys that are held on every keyboard
  seat_keyboard,        \* external: the keyboard of the seat
  seat_focus,           \* external: the window whose surface the seat has entered
  held                  \* external: the keys that window takes to be held

inputs == <<keyboards, pointers, seat_caps, be_focus, windows, down,
            seat_keyboard, seat_focus, held>>
vars == <<bindings, running, inputs>>

(* What a change of focus acts on. *)
Focus == [ be_focus : Window \cup {NULL}, seat_focus : Window \cup {NULL},
           held : SUBSET Key ]

ThisFocus == [be_focus |-> be_focus, seat_focus |-> seat_focus, held |-> held]

BecomeFocus(s) ==
  /\ be_focus' = s.be_focus /\ seat_focus' = s.seat_focus /\ held' = s.held

-----------------------------------------------------------------------------
(* The seat.  A surface that is entered is told which keys are held; the    *)
(* one that is left forgets all of them.                                    *)

seat_clear(s) == [s EXCEPT !.seat_focus = NULL, !.held = {}]

seat_enter(s, w, keys) ==
  IF s.seat_focus = w THEN s ELSE [s EXCEPT !.seat_focus = w, !.held = keys]

(* Mutations: the seat is not told, or backend.c does not remember. *)
be_unfocus_all_silently(s) == [s EXCEPT !.be_focus = NULL]

be_unfocus_all(s) ==
  IF s.be_focus = NULL THEN s ELSE [seat_clear(s) EXCEPT !.be_focus = NULL]

be_window_focus(s, w, keys) ==
  LET entered == IF seat_keyboard = NULL THEN s ELSE seat_enter(s, w, keys)
  IN  [entered EXCEPT !.be_focus = w]

(* Everything the front end may do with the focus in one handler: nothing,  *)
(* give it to a window, with or without hiding the one that had it before,  *)
(* or take it away.  keys are the ones held on the seat's keyboard.         *)
FrontEnd(s, ws, keys) ==
  LET hid == be_unfocus_all(s)
  IN  {s, hid} \cup {be_window_focus(t, w, keys) : t \in {s, hid}, w \in ws}

(* The keys held on the keyboard of the seat. *)
SeatKeys(keys) == IF seat_keyboard = NULL THEN {} ELSE keys[seat_keyboard]

-----------------------------------------------------------------------------
Init ==
  /\ NoBindings /\ running = FALSE
  /\ keyboards = {} /\ pointers = {} /\ seat_caps = {}
  /\ be_focus = NULL /\ windows = {}
  /\ down = [k \in Keyboard |-> {}]
  /\ seat_keyboard = NULL /\ seat_focus = NULL /\ held = {}

(* add_bindings() makes one of its calls, *)
add_binding(chord, func) ==
  /\ be_handle_key(chord, func)
  /\ UNCHANGED <<running, inputs>>

(* and after all of them backend_run() starts the backend. *)
backend_run ==
  /\ AllBound
  /\ running' = TRUE
  /\ UNCHANGED <<bindings, inputs>>

(* A mutation: the keyboard of the seat is not on the list of keyboards. *)
keyboard_new_unlisted(k) ==
  /\ k \notin keyboards
  /\ seat_caps' = seat_caps \cup {"keyboard"}
  /\ seat_keyboard' = k
  /\ UNCHANGED <<keyboards, pointers, be_focus, windows, down, seat_focus, held>>

(* A new keyboard joins the list and becomes the keyboard of the seat. *)
keyboard_new(k) ==
  /\ k \notin keyboards
  /\ keyboards' = keyboards \cup {k}
  /\ seat_caps' = seat_caps \cup {"keyboard"}
  /\ seat_keyboard' = k
  /\ UNCHANGED <<pointers, be_focus, windows, down, seat_focus, held>>

(* A mutation: the list is tested before the keyboard has left it. *)
keyboard_destroyed_early(k) ==
  /\ k \in keyboards /\ down[k] = {}
  /\ keyboards' = keyboards \ {k}
  /\ seat_caps' = IF keyboards = {} THEN seat_caps \ {"keyboard"} ELSE seat_caps
  /\ seat_keyboard' = IF seat_keyboard = k THEN NULL ELSE seat_keyboard
  /\ UNCHANGED <<pointers, be_focus, windows, down, seat_focus, held>>

(* A keyboard goes.  Its keys were released before (libinput sees to it),   *)
(* and the seat drops it.                                                   *)
keyboard_destroyed(k) ==
  /\ k \in keyboards /\ down[k] = {}
  /\ keyboards' = keyboards \ {k}
  /\ seat_caps' = IF keyboards' = {} THEN seat_caps \ {"keyboard"} ELSE seat_caps
  /\ seat_keyboard' = IF seat_keyboard = k THEN NULL ELSE seat_keyboard
  /\ UNCHANGED <<pointers, be_focus, windows, down, seat_focus, held>>

pointer_new(p) ==
  /\ p \notin pointers
  /\ pointers' = pointers \cup {p}
  /\ seat_caps' = seat_caps \cup {"pointer"}
  /\ UNCHANGED <<keyboards, be_focus, windows, down, seat_keyboard, seat_focus, held>>

pointer_destroyed(p) ==
  /\ p \in pointers
  /\ pointers' = pointers \ {p}
  /\ seat_caps' = IF pointers' = {} THEN seat_caps \ {"pointer"} ELSE seat_caps
  /\ UNCHANGED <<keyboards, be_focus, windows, down, seat_keyboard, seat_focus, held>>

Modifiers(k) == {ModOf[key] : key \in down[k]} \ {NULL}

IsBound(k, key) == keymap_filter_keycode(keymap, Modifiers(k), key) # NULL

(* The rest of handle_key(): the keyboard becomes the one of the seat, and  *)
(* its client is told of the event.  handle_modifier(), which follows for a *)
(* key that stands for a modifier, does the same.                           *)
notify_key(k, keys) ==
  /\ seat_keyboard' = k
  /\ held' = IF seat_focus = NULL THEN held ELSE keys
  /\ UNCHANGED <<be_focus, seat_focus>>

(* A press calls its binding, or goes to the client. *)
press(k, key) ==
  /\ k \in keyboards /\ key \notin down[k]
  /\ down' = [down EXCEPT ![k] = @ \cup {key}]
  /\ IF IsBound(k, key)
     THEN /\ \E s \in FrontEnd(ThisFocus, windows, SeatKeys(down')) : BecomeFocus(s)
          /\ UNCHANGED seat_keyboard
     ELSE notify_key(k, held \cup {key})
  /\ UNCHANGED <<keyboards, pointers, seat_caps, windows>>

(* A mutation: a release is looked up like a press. *)
release_filtered(k, key) ==
  /\ k \in keyboards /\ key \in down[k]
  /\ down' = [down EXCEPT ![k] = @ \ {key}]
  /\ IF IsBound(k, key)
     THEN UNCHANGED <<be_focus, seat_focus, held, seat_keyboard>>
     ELSE notify_key(k, held \ {key})
  /\ UNCHANGED <<keyboards, pointers, seat_caps, windows>>

(* A release always goes to the client, also when the press was consumed. *)
release(k, key) ==
  /\ k \in keyboards /\ key \in down[k]
  /\ down' = [down EXCEPT ![k] = @ \ {key}]
  /\ notify_key(k, held \ {key})
  /\ UNCHANGED <<keyboards, pointers, seat_caps, windows>>

(* A window is mapped, or the control protocol or a change of outputs moves *)
(* the focus.                                                               *)
front_end(ws) ==
  /\ windows \subseteq ws
  /\ windows' = ws
  /\ \E s \in FrontEnd(ThisFocus, ws, SeatKeys(down)) : BecomeFocus(s)
  /\ UNCHANGED <<keyboards, pointers, seat_caps, down, seat_keyboard>>

(* handle_xdg_unmapped(): the front end hides the window, and focuses       *)
(* another one if there is one.                                             *)
handle_xdg_unmapped(w) ==
  LET hid == IF be_focus = w THEN be_unfocus_all(ThisFocus) ELSE ThisFocus
  IN  /\ w \in windows
      /\ windows' = windows \ {w}
      /\ \E s \in FrontEnd(hid, windows', SeatKeys(down)) : BecomeFocus(s)
      /\ UNCHANGED <<keyboards, pointers, seat_caps, down, seat_keyboard>>

(* The client destroys the xdg surface of a window that is not mapped. *)
handle_xdg_destroyed(w) ==
  /\ w \notin windows
  /\ BecomeFocus(IF be_focus = w THEN [seat_clear(ThisFocus) EXCEPT !.be_focus = NULL]
                 ELSE ThisFocus)
  /\ UNCHANGED <<keyboards, pointers, seat_caps, windows, down, seat_keyboard>>

(* The surface under it may stay, and be mapped again; when it goes too,    *)
(* the seat drops it.                                                       *)
surface_destroyed(w) ==
  /\ w \notin windows
  /\ BecomeFocus(IF seat_focus = w THEN seat_clear(ThisFocus) ELSE ThisFocus)
  /\ UNCHANGED <<keyboards, pointers, seat_caps, windows, down, seat_keyboard>>

Next ==
  \/ /\ ~running
     /\ \/ \E chord \in Chords, func \in Func : add_binding(chord, func)
        \/ backend_run
  \/ /\ running /\ UNCHANGED <<bindings, running>>
     /\ \/ \E k \in Keyboard : keyboard_new(k) \/ keyboard_destroyed(k)
        \/ \E p \in Pointer : pointer_new(p) \/ pointer_destroyed(p)
        \/ \E k \in Keyboard, key \in Key : press(k, key) \/ release(k, key)
        \/ \E w \in Window :
             \/ front_end(windows \cup {w}) \/ handle_xdg_unmapped(w)
             \/ handle_xdg_destroyed(w) \/ surface_destroyed(w)

Spec == Init /\ [][Next]_vars

-----------------------------------------------------------------------------
TypeOK ==
  /\ running \in BOOLEAN /\ asked \in [Chords -> Func \cup {NULL}]
  /\ keyboards \subseteq Keyboard /\ pointers \subseteq Pointer
  /\ seat_caps \subseteq {"keyboard", "pointer"}
  /\ windows \subseteq Window
  /\ down \in [Keyboard -> SUBSET Key]
  /\ seat_keyboard \in keyboards \cup {NULL}
  /\ ThisFocus \in Focus

(* The clients are told of a keyboard, or of a pointer, exactly as long as  *)
(* there is one.  The code: keyboard_new() and keyboard_destroyed() change  *)
(* be->seat_caps under conditions of their own, the latter on a list it has *)
(* just changed.                                                            *)
CapsMatchDevices ==
  /\ "keyboard" \in seat_caps <=> keyboards # {}
  /\ "pointer" \in seat_caps <=> pointers # {}

(* No client takes a key to be held that nobody holds, whatever bindings    *)
(* fire, focus changes and devices come between the press and the release   *)
(* of a key.  The code: handle_key() looks only presses up, so that a       *)
(* release reaches the client even if modifiers changed since the press.    *)
NoStuckKeys == held \subseteq UNION {down[k] : k \in keyboards}

Agree == seat_focus = be_focus

(* As long as the seat has a keyboard, the seat follows the focus of        *)
(* backend.c: once they agree, every step keeps them in agreement.  The     *)
(* code: be_window_focus(), be_unfocus_all() and handle_xdg_destroyed()     *)
(* change both.                                                             *)
SeatFollowsFocus == [][Agree /\ seat_keyboard # NULL => Agree']_vars
=============================================================================
