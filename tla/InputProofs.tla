---------------------------- MODULE InputProofs -----------------------------
(***************************************************************************)
(* Theorems about Input, for any keyboards, pointers, windows, keys,       *)
(* layouts and bindings.  NoStuckKeys is not inductive by itself: a        *)
(* release while no surface is entered leaves held alone, so that held     *)
(* must be empty then, and the keys that a surface is told when it is      *)
(* entered are those of a keyboard that is on the list, which TypeOK says. *)
(* The last part is about the table of bindings.                           *)
(***************************************************************************)
EXTENDS Input, QueueProofs

(* Nobody holds keys while no surface is entered. *)
NobodyHolds == seat_focus = NULL => held = {}

(* A window has the focus of backend.c only while it is mapped. *)
FocusIsMapped == be_focus \in windows \cup {NULL}

IInv ==
  TypeOK /\ CapsMatchDevices /\ NoStuckKeys /\ NobodyHolds /\ FocusIsMapped

(* While the backend runs, nothing changes the bindings. *)
Bound == UNCHANGED <<keymap, asked, running>>

(* A focus that a handler may leave behind: on a window of ws, and the keys *)
(* held are among keys, and there are none if no surface is entered.        *)
Sound(s, ws, keys) ==
  /\ s \in Focus /\ s.be_focus \in ws \cup {NULL}
  /\ s.held \subseteq keys /\ (s.seat_focus = NULL => s.held = {})

LEMMA UnfocusIsSound ==
  ASSUME NEW keys \in SUBSET Key, NEW ws \in SUBSET Window, NEW s, Sound(s, ws, keys)
  PROVE  Sound(be_unfocus_all(s), ws, keys)
BY DEF Sound, be_unfocus_all, seat_clear, Focus

LEMMA FocusIsSound ==
  ASSUME NEW keys \in SUBSET Key, NEW ws \in SUBSET Window, NEW s, Sound(s, ws, keys),
         NEW w \in ws, NEW told \in SUBSET keys
  PROVE  Sound(be_window_focus(s, w, told), ws, keys)
<1>1. w # NULL
  BY NullIsNoDevice
<1>2. CASE seat_keyboard = NULL
  BY <1>2 DEF Sound, be_window_focus, Focus
<1>3. CASE seat_keyboard # NULL /\ s.seat_focus = w
  BY <1>3, <1>1 DEF Sound, be_window_focus, seat_enter, Focus
<1>4. CASE seat_keyboard # NULL /\ s.seat_focus # w
  BY <1>4, <1>1 DEF Sound, be_window_focus, seat_enter, Focus
<1> QED BY <1>2, <1>3, <1>4

LEMMA FrontEndIsSound ==
  ASSUME NEW keys \in SUBSET Key, NEW ws \in SUBSET Window, NEW s, Sound(s, ws, keys),
         NEW told \in SUBSET keys,
         NEW t \in FrontEnd(s, ws, told)
  PROVE  Sound(t, ws, keys)
<1>1. Sound(be_unfocus_all(s), ws, keys)
  BY UnfocusIsSound
<1>2. CASE t \in {s, be_unfocus_all(s)}
  BY <1>1, <1>2
<1>3. CASE \E r \in {s, be_unfocus_all(s)}, w \in ws : t = be_window_focus(r, w, told)
  <2> PICK r \in {s, be_unfocus_all(s)}, w \in ws : t = be_window_focus(r, w, told)
    BY <1>3
  <2>1. Sound(r, ws, keys)
    BY <1>1
  <2> QED BY <2>1, FocusIsSound
<1> QED BY <1>2, <1>3 DEF FrontEnd

(* The keys that are held on some keyboard. *)
Down == UNION {down[k] : k \in keyboards}

LEMMA NowIsSound ==
  ASSUME IInv
  PROVE  Down \in SUBSET Key /\ Sound(ThisFocus, windows, Down)
BY DEF IInv, TypeOK, NoStuckKeys, NobodyHolds, FocusIsMapped, Sound, Down, ThisFocus, Focus

(* What the seat's keyboard tells a surface is held on a keyboard. *)
LEMMA SeatKeysAreDown ==
  ASSUME TypeOK
  PROVE  SeatKeys(down) \subseteq Down
BY DEF TypeOK, SeatKeys, Down

LEMMA InitHolds == Init => IInv
BY DEF Init, NoBindings, IInv, TypeOK, CapsMatchDevices, NoStuckKeys, NobodyHolds,
       FocusIsMapped, ThisFocus, Focus

-----------------------------------------------------------------------------
LEMMA KeyboardNewKeeps ==
  ASSUME IInv, NEW k \in Keyboard, keyboard_new(k), Bound
  PROVE  IInv'
<1>1. TypeOK'
  BY DEF IInv, keyboard_new, TypeOK, Bound, ThisFocus, Focus
<1>2. CapsMatchDevices'
  BY DEF IInv, keyboard_new, CapsMatchDevices
<1>3. NoStuckKeys' /\ NobodyHolds' /\ FocusIsMapped'
  BY DEF IInv, keyboard_new, NoStuckKeys, NobodyHolds, FocusIsMapped
<1> QED BY <1>1, <1>2, <1>3 DEF IInv

LEMMA KeyboardDestroyedKeeps ==
  ASSUME IInv, NEW k \in Keyboard, keyboard_destroyed(k), Bound
  PROVE  IInv'
<1>1. TypeOK'
  BY DEF IInv, keyboard_destroyed, TypeOK, Bound, ThisFocus, Focus
<1>2. CapsMatchDevices'
  BY DEF IInv, keyboard_destroyed, CapsMatchDevices, TypeOK
<1>3. NoStuckKeys' /\ NobodyHolds' /\ FocusIsMapped'
  BY DEF IInv, keyboard_destroyed, NoStuckKeys, NobodyHolds, FocusIsMapped
<1> QED BY <1>1, <1>2, <1>3 DEF IInv

LEMMA PointersKeep ==
  ASSUME IInv, NEW p \in Pointer, pointer_new(p) \/ pointer_destroyed(p), Bound
  PROVE  IInv'
<1>1. TypeOK'
  BY DEF IInv, pointer_new, pointer_destroyed, TypeOK, Bound, ThisFocus, Focus
<1>2. CapsMatchDevices'
  BY DEF IInv, pointer_new, pointer_destroyed, CapsMatchDevices, TypeOK
<1>3. NoStuckKeys' /\ NobodyHolds' /\ FocusIsMapped'
  BY DEF IInv, pointer_new, pointer_destroyed, NoStuckKeys, NobodyHolds, FocusIsMapped
<1> QED BY <1>1, <1>2, <1>3 DEF IInv

(* A step that leaves the devices alone, and the focus sound, keeps IInv. *)
LEMMA SoundFocusKeeps ==
  ASSUME IInv, Bound, UNCHANGED <<keyboards, pointers, seat_caps>>,
         windows' \subseteq Window, down' \in [Keyboard -> SUBSET Key],
         seat_keyboard' \in keyboards \cup {NULL},
         NEW s, BecomeFocus(s), Sound(s, windows', Down')
  PROVE  IInv'
<1>1. be_focus' = s.be_focus /\ seat_focus' = s.seat_focus /\ held' = s.held
  BY DEF BecomeFocus
<1>2. ThisFocus' \in Focus
  BY <1>1 DEF ThisFocus, Sound, Focus
<1>3. TypeOK'
  BY <1>2 DEF IInv, TypeOK, Bound
<1>4. CapsMatchDevices'
  BY DEF IInv, CapsMatchDevices
<1>5. NoStuckKeys' /\ NobodyHolds' /\ FocusIsMapped'
  BY <1>1 DEF NoStuckKeys, NobodyHolds, FocusIsMapped, Sound, Down
<1> QED BY <1>3, <1>4, <1>5 DEF IInv

LEMMA PressKeeps ==
  ASSUME IInv, NEW k \in Keyboard, NEW key \in Key, press(k, key), Bound
  PROVE  IInv'
<1> USE DEF IInv
<1>1. /\ k \in keyboards /\ down' = [down EXCEPT ![k] = @ \cup {key}]
      /\ UNCHANGED <<keyboards, pointers, seat_caps, windows>>
  BY DEF press
<1>2. down' \in [Keyboard -> SUBSET Key]
  BY <1>1 DEF TypeOK
<1>3. /\ Down' \in SUBSET Key /\ Down \subseteq Down' /\ key \in Down'
  BY <1>1, <1>2 DEF TypeOK, Down
<1>4. Sound(ThisFocus, windows, Down')
  BY <1>3, NowIsSound DEF Sound
<1>5. CASE IsBound(k, key)
  <2>1. PICK s \in FrontEnd(ThisFocus, windows, SeatKeys(down')) : BecomeFocus(s)
    BY <1>5 DEF press
  <2>2. seat_keyboard' = seat_keyboard
    BY <1>5 DEF press
  <2>3. SeatKeys(down') \subseteq Down'
    BY <1>1, <1>2 DEF TypeOK, SeatKeys, Down
  <2>4. windows \in SUBSET Window
    BY DEF TypeOK
  <2>5. Sound(s, windows, Down')
    BY <1>3, <1>4, <2>1, <2>3, <2>4, FrontEndIsSound
  <2> QED BY <1>1, <1>2, <2>1, <2>2, <2>4, <2>5, SoundFocusKeeps DEF TypeOK
<1>6. CASE ~IsBound(k, key)
  <2> DEFINE s == [ThisFocus EXCEPT !.held = IF seat_focus = NULL THEN @ ELSE held \cup {key}]
  <2>1. notify_key(k, held \cup {key})
    BY <1>6 DEF press
  <2>2. BecomeFocus(s) /\ seat_keyboard' = k
    BY <2>1 DEF notify_key, BecomeFocus, ThisFocus
  <2>3. Sound(s, windows, Down')
    BY <1>3, <1>4 DEF Sound, ThisFocus, Focus
  <2>4. windows' \subseteq Window
    BY <1>1 DEF TypeOK
  <2> HIDE DEF s
  <2> QED BY <1>1, <1>2, <2>2, <2>3, <2>4, SoundFocusKeeps
<1> QED BY <1>5, <1>6

LEMMA ReleaseKeeps ==
  ASSUME IInv, NEW k \in Keyboard, NEW key \in Key, release(k, key), Bound
  PROVE  IInv'
<1> USE DEF IInv
<1> DEFINE s == [ThisFocus EXCEPT !.held = IF seat_focus = NULL THEN @ ELSE held \ {key}]
<1>1. /\ k \in keyboards /\ down' = [down EXCEPT ![k] = @ \ {key}]
      /\ UNCHANGED <<keyboards, pointers, seat_caps, windows>>
      /\ notify_key(k, held \ {key})
  BY DEF release
<1>2. down' \in [Keyboard -> SUBSET Key]
  BY <1>1 DEF TypeOK
<1>3. Down \ {key} \subseteq Down'
  BY <1>1, <1>2 DEF TypeOK, Down
<1>4. BecomeFocus(s) /\ seat_keyboard' = k
  BY <1>1 DEF notify_key, BecomeFocus, ThisFocus
<1>5. Sound(s, windows, Down')
  BY <1>3, NowIsSound DEF Sound, ThisFocus, Focus
<1>6. windows' \subseteq Window
  BY <1>1 DEF TypeOK
<1> HIDE DEF s
<1> QED BY <1>1, <1>2, <1>4, <1>5, <1>6, SoundFocusKeeps

LEMMA FrontEndKeeps ==
  ASSUME IInv, NEW w \in Window, front_end(windows \cup {w}), Bound
  PROVE  IInv'
<1> USE DEF IInv
<1> DEFINE ws == windows \cup {w}
<1>1. ws \in SUBSET Window
  BY DEF TypeOK
<1>2. PICK s \in FrontEnd(ThisFocus, ws, SeatKeys(down)) : BecomeFocus(s)
  BY DEF front_end
<1>3. /\ windows' = ws
      /\ UNCHANGED <<keyboards, pointers, seat_caps, down, seat_keyboard>>
  BY DEF front_end
<1>4. Down' = Down
  BY <1>3 DEF Down
<1>5. SeatKeys(down) \in SUBSET Down
  BY SeatKeysAreDown
<1>6. Sound(s, ws, Down')
  <2>1. Sound(ThisFocus, ws, Down)
    BY NowIsSound DEF Sound
  <2> HIDE DEF ws
  <2> QED BY <1>1, <1>2, <1>4, <1>5, <2>1, NowIsSound, FrontEndIsSound
<1> HIDE DEF ws
<1> QED BY <1>1, <1>2, <1>3, <1>6, SoundFocusKeeps DEF TypeOK

LEMMA UnmapKeeps ==
  ASSUME IInv, NEW w \in Window, handle_xdg_unmapped(w), Bound
  PROVE  IInv'
<1> USE DEF IInv
<1> DEFINE hid == IF be_focus = w THEN be_unfocus_all(ThisFocus) ELSE ThisFocus
           ws == windows \ {w}
<1>1. ws \in SUBSET Window
  BY DEF TypeOK
<1>2. /\ windows' = ws
      /\ UNCHANGED <<keyboards, pointers, seat_caps, down, seat_keyboard>>
  BY DEF handle_xdg_unmapped
<1>3. PICK s \in FrontEnd(hid, ws, SeatKeys(down)) : BecomeFocus(s)
  BY <1>2 DEF handle_xdg_unmapped
<1>4. Down' = Down
  BY <1>2 DEF Down
<1>5. Sound(hid, ws, Down)
  <2>1. Sound(ThisFocus, windows, Down) /\ Down \in SUBSET Key
    BY NowIsSound
  <2>2. CASE be_focus = w
    <3>1. hid = [seat_clear(ThisFocus) EXCEPT !.be_focus = NULL]
      BY <2>2, NullIsNoDevice DEF be_unfocus_all, ThisFocus
    <3> QED BY <2>1, <3>1 DEF Sound, seat_clear, Focus
  <2>3. CASE be_focus # w
    BY <2>1, <2>3 DEF Sound, ThisFocus
  <2> QED BY <2>2, <2>3
<1>6. SeatKeys(down) \in SUBSET Down
  BY SeatKeysAreDown
<1>7. Sound(s, ws, Down)
  <2> HIDE DEF ws, hid
  <2> QED BY <1>1, <1>3, <1>5, <1>6, NowIsSound, FrontEndIsSound
<1> HIDE DEF ws
<1> QED BY <1>1, <1>2, <1>3, <1>4, <1>7, SoundFocusKeeps DEF TypeOK

(* What has no window mapped does not have the focus of backend.c. *)
LEMMA DestroyKeeps ==
  ASSUME IInv, NEW w \in Window, handle_xdg_destroyed(w) \/ surface_destroyed(w), Bound
  PROVE  IInv'
<1> USE DEF IInv
<1>1. w \notin windows /\ be_focus # w
  BY NullIsNoDevice DEF handle_xdg_destroyed, surface_destroyed, FocusIsMapped
<1>2. /\ UNCHANGED <<keyboards, pointers, seat_caps, windows, down, seat_keyboard>>
      /\ \/ BecomeFocus(ThisFocus)
         \/ BecomeFocus(seat_clear(ThisFocus))
  BY <1>1 DEF handle_xdg_destroyed, surface_destroyed
<1>3. Down' = Down
  BY <1>2 DEF Down
<1>4. Sound(ThisFocus, windows, Down)
  BY NowIsSound
<1>5. Sound(seat_clear(ThisFocus), windows, Down)
  BY <1>4, NowIsSound DEF Sound, seat_clear, Focus, ThisFocus
<1> QED BY <1>2, <1>3, <1>4, <1>5, SoundFocusKeeps DEF TypeOK

(* Until the backend runs, only the bindings change. *)
LEMMA BindingKeeps ==
  ASSUME IInv,
         \/ \E chord \in Chords, func \in Func : add_binding(chord, func)
         \/ backend_run
  PROVE  IInv'
<1>1. UNCHANGED inputs
  BY DEF add_binding, backend_run
<1>2. running' \in BOOLEAN /\ asked' \in [Chords -> Func \cup {NULL}]
  <2>1. CASE backend_run
    BY <2>1 DEF IInv, TypeOK, backend_run, bindings
  <2>2. ASSUME NEW chord \in Chords, NEW func \in Func, add_binding(chord, func)
        PROVE running' \in BOOLEAN /\ asked' \in [Chords -> Func \cup {NULL}]
    BY <2>2 DEF IInv, TypeOK, add_binding, be_handle_key
  <2> QED BY <2>1, <2>2
<1>3. TypeOK'
  BY <1>1, <1>2 DEF IInv, TypeOK, inputs, ThisFocus
<1> QED
  BY <1>1, <1>3 DEF IInv, inputs, CapsMatchDevices, NoStuckKeys, NobodyHolds, FocusIsMapped

(* Every step keeps the inductive invariant. *)
LEMMA NextKeeps == IInv /\ [Next]_vars => IInv'
<1> SUFFICES ASSUME IInv, [Next]_vars PROVE IInv'
  OBVIOUS
<1>1. CASE UNCHANGED vars
  BY <1>1 DEF vars, bindings, inputs, IInv, TypeOK, CapsMatchDevices, NoStuckKeys,
     NobodyHolds, FocusIsMapped, ThisFocus, Focus
<1>2. CASE Next /\ ~running
  BY <1>2, BindingKeeps DEF Next
<1>3. CASE Next /\ running
  <2>1. Bound
    BY <1>3 DEF Next, Bound, bindings
  <2>2. CASE \E k \in Keyboard : keyboard_new(k) \/ keyboard_destroyed(k)
    BY <2>1, <2>2, KeyboardNewKeeps, KeyboardDestroyedKeeps
  <2>3. CASE \E p \in Pointer : pointer_new(p) \/ pointer_destroyed(p)
    BY <2>1, <2>3, PointersKeep
  <2>4. CASE \E k \in Keyboard, key \in Key : press(k, key) \/ release(k, key)
    BY <2>1, <2>4, PressKeeps, ReleaseKeeps
  <2>5. CASE \E w \in Window :
               \/ front_end(windows \cup {w}) \/ handle_xdg_unmapped(w)
               \/ handle_xdg_destroyed(w) \/ surface_destroyed(w)
    BY <2>1, <2>5, FrontEndKeeps, UnmapKeeps, DestroyKeeps
  <2> QED BY <1>3, <2>2, <2>3, <2>4, <2>5 DEF Next
<1> QED BY <1>1, <1>2, <1>3

(* Everything holds together, always. *)
THEOREM AlwaysIInv == Spec => []IInv
BY InitHolds, NextKeeps, PTL DEF Spec

(* The handlers of backend.c's input half keep every variable in its type. *)
THEOREM InputTypeCorrect == Spec => []TypeOK
BY AlwaysIInv, PTL DEF IInv

(* Clients are told of keyboards and pointers as long as there are any.     *)
THEOREM CapabilitiesMatch == Spec => []CapsMatchDevices
BY AlwaysIInv, PTL DEF IInv

(* No key stays stuck at a client, whatever bindings fire in between.       *)
THEOREM KeysAreNotStuck == Spec => []NoStuckKeys
BY AlwaysIInv, PTL DEF IInv

-----------------------------------------------------------------------------
AgreeIn(s) == s.seat_focus = s.be_focus

LEMMA FrontEndAgrees ==
  ASSUME seat_keyboard # NULL, NEW s \in Focus, AgreeIn(s),
         NEW ws \in SUBSET Window, NEW keys \in SUBSET Key,
         NEW t \in FrontEnd(s, ws, keys)
  PROVE  t \in Focus /\ AgreeIn(t)
<1>1. be_unfocus_all(s) \in Focus /\ AgreeIn(be_unfocus_all(s))
  BY DEF be_unfocus_all, seat_clear, AgreeIn, Focus
<1>2. CASE t \in {s, be_unfocus_all(s)}
  BY <1>1, <1>2
<1>3. CASE \E r \in {s, be_unfocus_all(s)}, w \in ws : t = be_window_focus(r, w, keys)
  <2> PICK r \in {s, be_unfocus_all(s)}, w \in ws : t = be_window_focus(r, w, keys)
    BY <1>3
  <2>1. r \in Focus
    BY <1>1
  <2> QED BY <2>1 DEF be_window_focus, seat_enter, AgreeIn, Focus
<1> QED BY <1>2, <1>3 DEF FrontEnd

(* The actions that leave focus and seat alone, or notify a key. *)
LEMMA QuietStepsAgree ==
  ASSUME Agree, UNCHANGED <<be_focus, seat_focus>>
  PROVE  Agree'
BY DEF Agree

LEMMA StepAgrees ==
  ASSUME IInv, Agree, seat_keyboard # NULL, Next, running
  PROVE  Agree'
<1>1. ThisFocus \in Focus /\ AgreeIn(ThisFocus)
  BY DEF IInv, TypeOK, Agree, AgreeIn, ThisFocus
<1>2. ASSUME NEW s, BecomeFocus(s), AgreeIn(s) PROVE Agree'
  BY <1>2 DEF BecomeFocus, AgreeIn, Agree
<1>9. SeatKeys(down) \in SUBSET Key
  BY DEF IInv, TypeOK, SeatKeys
<1>3. CASE \E k \in Keyboard : keyboard_new(k) \/ keyboard_destroyed(k)
  BY <1>3, QuietStepsAgree DEF keyboard_new, keyboard_destroyed
<1>4. CASE \E p \in Pointer : pointer_new(p) \/ pointer_destroyed(p)
  BY <1>4, QuietStepsAgree DEF pointer_new, pointer_destroyed
<1>5. ASSUME NEW k \in Keyboard, NEW key \in Key, press(k, key) \/ release(k, key)
      PROVE Agree'
  <2>1. CASE press(k, key) /\ IsBound(k, key)
    <3>1. PICK s \in FrontEnd(ThisFocus, windows, SeatKeys(down')) : BecomeFocus(s)
      BY <2>1 DEF press
    <3>2. windows \in SUBSET Window
      BY DEF IInv, TypeOK
    <3>3. SeatKeys(down') \in SUBSET Key
      BY <2>1 DEF IInv, TypeOK, SeatKeys, press
    <3>4. AgreeIn(s)
      BY <1>1, <3>1, <3>2, <3>3, FrontEndAgrees
    <3> QED BY <3>1, <3>4, <1>2
  <2>2. CASE press(k, key) /\ ~IsBound(k, key)
    BY <2>2, QuietStepsAgree DEF press, notify_key
  <2>3. CASE release(k, key)
    BY <2>3, QuietStepsAgree DEF release, notify_key
  <2> QED BY <1>5, <2>1, <2>2, <2>3
<1>6. ASSUME NEW w \in Window, front_end(windows \cup {w})
      PROVE Agree'
  <2> DEFINE ws == windows \cup {w}
  <2>1. PICK s \in FrontEnd(ThisFocus, ws, SeatKeys(down)) : BecomeFocus(s)
    BY <1>6 DEF front_end
  <2>2. ws \in SUBSET Window
    BY DEF IInv, TypeOK
  <2>3. AgreeIn(s)
    <3> HIDE DEF ws
    <3> QED BY <1>1, <1>9, <2>1, <2>2, FrontEndAgrees
  <2> QED BY <2>1, <2>3, <1>2
<1>7. ASSUME NEW w \in Window, handle_xdg_unmapped(w)
      PROVE Agree'
  <2> DEFINE hid == IF be_focus = w THEN be_unfocus_all(ThisFocus) ELSE ThisFocus
             ws == windows \ {w}
  <2>1. PICK s \in FrontEnd(hid, ws, SeatKeys(down)) : BecomeFocus(s)
    BY <1>7 DEF handle_xdg_unmapped
  <2>2. ws \in SUBSET Window
    BY DEF IInv, TypeOK
  <2>3. hid \in Focus /\ AgreeIn(hid)
    BY <1>1 DEF be_unfocus_all, seat_clear, AgreeIn, Focus
  <2>4. AgreeIn(s)
    <3> HIDE DEF ws, hid
    <3> QED BY <1>9, <2>1, <2>2, <2>3, FrontEndAgrees
  <2> QED BY <2>1, <2>4, <1>2
<1>8. ASSUME NEW w \in Window, handle_xdg_destroyed(w) \/ surface_destroyed(w)
      PROVE Agree'
  <2>1. be_focus # w /\ seat_focus # w
    BY <1>8, NullIsNoDevice
    DEF IInv, FocusIsMapped, Agree, handle_xdg_destroyed, surface_destroyed
  <2>2. BecomeFocus(ThisFocus)
    BY <1>8, <2>1 DEF handle_xdg_destroyed, surface_destroyed
  <2> QED BY <1>1, <1>2, <2>2
<1> QED BY <1>3, <1>4, <1>5, <1>6, <1>7, <1>8 DEF Next

(* With a keyboard, the seat stays with the focus of backend.c. *)
THEOREM SeatStaysWithFocus == Spec => SeatFollowsFocus
<1>1. IInv /\ [Next]_vars => [Agree /\ seat_keyboard # NULL => Agree']_vars
  <2> SUFFICES ASSUME IInv, Next, Agree, seat_keyboard # NULL PROVE Agree'
    OBVIOUS
  <2>1. CASE running
    BY <2>1, StepAgrees
  <2>2. CASE ~running
    BY <2>2, QuietStepsAgree DEF Next, add_binding, backend_run, inputs
  <2> QED BY <2>1, <2>2
<1> QED BY <1>1, AlwaysIInv, PTL DEF Spec, SeatFollowsFocus

-----------------------------------------------------------------------------
(***************************************************************************)
(* The table of bindings.  The word of a chord that is bound has no bit of *)
(* ALT, of SUPER or of a keysym above the legacy ones, so that no other    *)
(* chord has it: the table holds under every word what was last asked for  *)
(* on its chord, and nothing under the words of other chords.              *)
(***************************************************************************)
Handler(mods, sym) ==
  keymap_get_keybinding(keymap, modded_keysym(mods, sym))

Wanted(mods, sym) ==
  IF <<mods, sym>> \in Chords THEN asked[<<mods, sym>>] ELSE NULL

Agrees ==
  /\ asked \in [Chords -> Func \cup {NULL}]
  /\ \A mods \in SUBSET Mod, sym \in Keysym : Handler(mods, sym) = Wanted(mods, sym)

(* Bits 30 and 29 tell CTRL and SHIFT, bits 24 and 26 tell ALT and SUPER. *)
LEMMA WordsDiffer ==
  ASSUME NEW m \in SUBSET Mod, NEW s \in Keysym,
         NEW mods \in SUBSET {"CTRL", "SHIFT"}, NEW sym \in SUBSET (0..15),
         modded_keysym(m, s) = modded_keysym(mods, sym)
  PROVE  m = mods /\ s = sym
<1> DEFINE bits(l) == UNION {be_modifier_t[k] : k \in l}
<1>1. ASSUME NEW l \in SUBSET Mod
      PROVE  /\ 30 \in bits(l) <=> "CTRL" \in l
             /\ 29 \in bits(l) <=> "SHIFT" \in l
             /\ "ALT" \in l => 24 \in bits(l)
             /\ "SUPER" \in l => 26 \in bits(l)
  BY DEF Mod, be_modifier_t
<1>2. ASSUME NEW l \in SUBSET {"CTRL", "SHIFT"}
      PROVE  bits(l) \subseteq {29, 30}
  BY DEF be_modifier_t
<1>3. s \cup bits(m) = sym \cup bits(mods)
  BY DEF modded_keysym
<1>4. mods \in SUBSET Mod
  BY DEF Mod
<1>5. s \subseteq 0..28
  BY DEF Keysym
<1> HIDE DEF bits
<1>6. m \in SUBSET {"CTRL", "SHIFT"}
  <2>1. 24 \notin sym \cup bits(mods) /\ 26 \notin sym \cup bits(mods)
    BY <1>2
  <2>2. "ALT" \notin m /\ "SUPER" \notin m
    BY <1>1, <1>3, <2>1
  <2> QED BY <2>2 DEF Mod
<1>7. s = sym
  <2>1. bits(m) \subseteq {29, 30} /\ bits(mods) \subseteq {29, 30}
    BY <1>2, <1>6
  <2>2. 29 \notin s /\ 30 \notin s /\ 29 \notin sym /\ 30 \notin sym
    BY <1>5
  <2> QED BY <1>3, <2>1, <2>2
<1>8. m = mods
  <2>1. \A b \in {29, 30} : b \in bits(m) <=> b \in bits(mods)
    BY <1>3, <1>5
  <2>2. ("CTRL" \in m <=> "CTRL" \in mods) /\ ("SHIFT" \in m <=> "SHIFT" \in mods)
    BY <1>1, <1>4, <2>1
  <2>3. m \subseteq mods /\ mods \subseteq m
    BY <1>6, <2>2
  <2> QED BY <2>3
<1> QED BY <1>7, <1>8

LEMMA TableStartsEmpty == NoBindings => Agrees
<1> SUFFICES ASSUME NoBindings PROVE Agrees
  OBVIOUS
<1>1. asked \in [Chords -> Func \cup {NULL}]
  BY DEF NoBindings
<1>2. ASSUME NEW mods \in SUBSET Mod, NEW sym \in Keysym
      PROVE  Handler(mods, sym) = NULL /\ Wanted(mods, sym) = NULL
  <2>1. DOMAIN keymap = {}
    BY DEF NoBindings
  <2> QED BY <2>1 DEF Handler, keymap_get_keybinding, Wanted, NoBindings
<1> QED BY <1>1, <1>2 DEF Agrees

LEMMA BindingKeepsTable ==
  ASSUME Agrees, NEW chord \in Chords, NEW func \in Func, be_handle_key(chord, func)
  PROVE  Agrees'
<1> DEFINE word == modded_keysym(chord[1], chord[2])
<1>1. /\ keymap' = [w \in DOMAIN keymap \cup {word} |->
                     IF w = word THEN func ELSE keymap[w]]
      /\ asked' = [asked EXCEPT ![chord] = func]
  BY DEF be_handle_key, keymap_add_keybinding
<1>2. /\ chord = <<chord[1], chord[2]>>
      /\ chord[1] \in SUBSET {"CTRL", "SHIFT"} /\ chord[2] \in SUBSET (0..15)
  BY ChordsArePlain
<1>3. asked' \in [Chords -> Func \cup {NULL}]
  BY <1>1 DEF Agrees
<1>4. ASSUME NEW mods \in SUBSET Mod, NEW sym \in Keysym
      PROVE  Handler(mods, sym)' = Wanted(mods, sym)'
  <2> DEFINE other == modded_keysym(mods, sym)
  <2>1. Handler(mods, sym) = Wanted(mods, sym)
    BY DEF Agrees
  <2>2. Handler(mods, sym) = (IF other \in DOMAIN keymap THEN keymap[other] ELSE NULL)
    BY DEF Handler, keymap_get_keybinding
  <2>3. Handler(mods, sym)'
          = (IF other \in DOMAIN keymap' THEN keymap'[other] ELSE NULL)
    BY DEF Handler, keymap_get_keybinding
  <2>4. CASE chord = <<mods, sym>>
    <3>1. word = other
      BY <2>4
    <3>2. Wanted(mods, sym)' = func
      BY <1>1, <2>4 DEF Agrees, Wanted
    <3> HIDE DEF word, other
    <3> QED BY <1>1, <2>3, <3>1, <3>2
  <2>5. CASE chord # <<mods, sym>>
    <3>1. word # other
      <4> SUFFICES ASSUME word = other PROVE FALSE
        OBVIOUS
      <4>1. mods = chord[1] /\ sym = chord[2]
        BY <1>2, WordsDiffer
      <4> QED BY <1>2, <2>5, <4>1
    <3>2. Wanted(mods, sym)' = Wanted(mods, sym)
      BY <1>1, <2>5 DEF Agrees, Wanted
    <3> HIDE DEF word, other
    <3> QED BY <1>1, <2>1, <2>2, <2>3, <3>1, <3>2
  <2> QED BY <2>4, <2>5
<1> QED BY <1>3, <1>4 DEF Agrees

(* A lookup finds the handler of a keysym that has one, if any has. *)
LEMMA LookupDoes ==
  ASSUME Agrees, NEW mods \in SUBSET Modifier, NEW keysyms \in Seq(Keysym)
  PROVE  LET found == keymap_filter_keysyms(keymap, mods, keysyms)
         IN  /\ AskedOn(mods, keysyms) = {} => found = NULL
             /\ AskedOn(mods, keysyms) # {} =>
                  found \in AskedOn(mods, keysyms) /\ found # NULL
<1> DEFINE c == Capture(mods)
           found == keymap_filter_keysyms(keymap, mods, keysyms)
           at(i) == Handler(c, keysyms[i])
           set == {i \in DOMAIN keysyms : at(i) # NULL}
           first == CHOOSE i \in set : \A j \in set : i <= j
           asks == AskedOn(mods, keysyms)
<1>1. found = IF set = {} THEN NULL ELSE at(first)
  BY DEF keymap_filter_keysyms, Handler
<1>2. c \in SUBSET Mod
  BY DEF Capture, captured, Mod
<1>3. asks = {asked[chord] : chord \in {<<c, keysyms[i]>> : i \in DOMAIN keysyms}
                                         \cap Chords} \ {NULL}
  BY DEF AskedOn
<1> HIDE DEF c
<1>4. \A i \in DOMAIN keysyms : at(i) = Wanted(c, keysyms[i])
  BY <1>2 DEF Agrees
<1> HIDE DEF at, asks, found
<1>5. asks = {at(i) : i \in set}
  <2>1. ASSUME NEW a \in asks PROVE \E i \in set : a = at(i)
    <3>1. PICK i \in DOMAIN keysyms :
            <<c, keysyms[i]>> \in Chords /\ a = asked[<<c, keysyms[i]>>] /\ a # NULL
      BY <1>3
    <3>2. at(i) = a
      BY <1>4, <3>1 DEF Wanted
    <3> QED BY <3>1, <3>2
  <2>2. ASSUME NEW i \in set PROVE at(i) \in asks
    <3>1. <<c, keysyms[i]>> \in Chords /\ at(i) = asked[<<c, keysyms[i]>>] /\ at(i) # NULL
      BY <1>4 DEF Wanted
    <3> QED BY <1>3, <3>1
  <2> QED BY <2>1, <2>2
<1>6. set # {} => first \in set
  <2>1. set \in SUBSET Nat
    OBVIOUS
  <2>2. set # {} => \E i \in set : \A j \in set : i <= j
    BY <2>1, LeastNumber
  <2> QED BY <2>2
<1>7. /\ asks = {} => found = NULL
      /\ asks # {} => found \in asks /\ found # NULL
  BY <1>1, <1>5, <1>6
<1> QED BY <1>7 DEF found, asks

LEMMA AgreementAnswers == Agrees => PressCallsItsHandler
<1> SUFFICES ASSUME Agrees, NEW key \in Key, NEW mods \in SUBSET Modifier
             PROVE  CallsWhatWasAsked(mods, key)
  BY DEF PressCallsItsHandler
<1> DEFINE rest == mods \ Consumed[key]
           translated == keymap_filter_keysyms(keymap, rest, Translated(mods, key))
           raw == keymap_filter_keysyms(keymap, mods, Raw(key))
<1>1. rest \in SUBSET Modifier
  OBVIOUS
<1>2. Raw(key) \in Seq(Keysym)
  BY SymsAreKeysyms DEF Raw
<1>3. Translated(mods, key) \in Seq(Keysym)
  <2> DEFINE level == LevelOf[key][mods \cap Consumed[key]]
  <2>1. level \in DOMAIN Syms[key]
    BY LevelsOfKeys
  <2>2. Syms[key][level] \in Seq(Keysym)
    BY <2>1, SymsAreKeysyms
  <2> QED BY <2>2 DEF Translated
<1>4. keymap_filter_keycode(keymap, mods, key)
        = IF translated # NULL THEN translated ELSE raw
  BY DEF keymap_filter_keycode
<1> HIDE DEF rest
<1>5. /\ AskedOn(rest, Translated(mods, key)) = {} => translated = NULL
      /\ AskedOn(rest, Translated(mods, key)) # {} =>
           /\ translated \in AskedOn(rest, Translated(mods, key))
           /\ translated # NULL
  BY <1>1, <1>3, LookupDoes
<1>6. /\ AskedOn(mods, Raw(key)) = {} => raw = NULL
      /\ AskedOn(mods, Raw(key)) # {} => raw \in AskedOn(mods, Raw(key))
  BY <1>2, LookupDoes
<1> HIDE DEF translated, raw
<1> QED BY <1>4, <1>5, <1>6 DEF CallsWhatWasAsked, rest

(* Whatever was bound, in whatever order and however often, a press calls   *)
(* what was asked for, on any layout, with any keysyms up to bit 28 and any *)
(* modifiers held.  The code: be_handle_key() and keymap_filter_keycode().  *)
THEOREM PressesCallTheirHandlers == Spec => []PressCallsItsHandler
<1>1. Init => Agrees
  BY TableStartsEmpty DEF Init
<1>2. Agrees /\ [Next]_vars => Agrees'
  <2> SUFFICES ASSUME Agrees, [Next]_vars PROVE Agrees'
    OBVIOUS
  <2>1. CASE UNCHANGED bindings
    BY <2>1 DEF bindings, Agrees, Handler, Wanted
  <2>2. ASSUME NEW chord \in Chords, NEW func \in Func, add_binding(chord, func)
        PROVE Agrees'
    BY <2>2, BindingKeepsTable DEF add_binding
  <2>3. CASE UNCHANGED vars
    BY <2>1, <2>3 DEF vars
  <2> QED BY <2>1, <2>2, <2>3 DEF Next, backend_run
<1> QED BY <1>1, <1>2, AgreementAnswers, PTL DEF Spec
=============================================================================
