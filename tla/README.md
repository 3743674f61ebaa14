# A verification of venowm

venowm is a tiling window manager: a Wayland compositor in C over wlroots. One
process, one thread, one libwayland event loop. Everything that happens to it
arrives as a callback: an output is plugged in, a client maps a window, a key is
pressed, a command comes in over the control socket. A callback runs to its end
before the next one starts, so the unit of interleaving is the callback, and
what is hard about the program is the *order* in which callbacks arrive and the
pointers they leave behind for one another.

This directory holds TLA+ modules that model that program, TLC configurations
that check them, and machine-checked proofs.

## The system

| part | source | state it keeps | operations |
|---|---|---|---|
| frame tree | `split.c`, `split.h` | heap of `split_t`: parent, two children, fraction, window, screen | split a leaf, remove a leaf, move across a border, walk all, the sides of a frame |
| workspace | `workspace.c` | roots, focus, hidden queue, table of windows with back pointers into the tree | add, remove, split, swap, remove frame, cycle, render again, free |
| windows, screens | `window.c`, `screen.c` | `g_screens`, the `window_t` and `screen_t` objects | what the backend calls when one arrives or leaves |
| key bindings | `bindings.c` | none | one workspace operation per key |
| backend | `backend.c` | outputs, which window is on the list of which output, keyboard focus, input devices, surfaces | callbacks from wlroots; show, hide, focus; setup and teardown |
| control protocol, server | `venowm_control.c` | one resource per client | focus, split and launch requests |
| control protocol, client | `libvenowm.c`, `main()` in `venowm.c` | connection, sticky error | one function per request |
| containers of a workspace | `workspace.c`, `khash.h` | the doubly linked list of hidden windows, the hash table of all windows | prepend, append, pop, remove; put, get, delete, rehash |
| compositor main | `venowm.c`, `backend_new()`, `bindings.c` | what was acquired, the children, the signal handler | set up or unwind, run the loop, start programs, reap children, free everything |
| logging, test program | `logmsg.c`, `test_split.c` | none of interest | not modelled |

How they interact. The backend owns outputs and surfaces and calls the front end
(`handle_screen_new`, `handle_screen_destroy`, `handle_window_new`,
`handle_window_destroy`, `handle_key`). The front end runs a workspace operation
on the one global workspace, which changes the frame tree and calls back into
the backend to show, hide or focus windows. So the state is spread over three
owners who keep pointers into each other: a window knows its frame, a frame
knows its window and its screen, a surface hangs on the list of an output, and
the backend remembers who has the keyboard.

What is hard:

* *Pointers by hand.* `split_do_split()` and `split_do_remove()` rewire a tree
  whose objects are reused, and windows point back into it.
* *Screens come and go.* `workspace_restore()` maps root *i* to screen *i* again
  after every change, drops or adds a root, and moves the focus; windows may be
  on the list of an output that is about to be freed.
* *No screen at all.* Before the first output and after the last one there is no
  frame, yet callbacks run.
* *The beginning and the end.* Some twenty resources are acquired in turn, each
  of which may fail. The last output stops the loop; pending events are still
  dispatched; then the workspaces are freed, then the backend.
* *Signals.* SIGCHLD interrupts any step, and its handler waits for a child.
* *Geometry.* A rectangle is computed going up from a leaf or going down from the
  root, is rounded, and has to reach every window whose frame has changed.

For each part, what makes it correct: the tree is a tree (frame tree); every
window is in one place and both sides agree on it (workspace); what is shown is
what is in a frame, on the right output, with the rectangle of that frame and
the keyboard where the focus is (workspace and backend); list and table hold the
same windows (containers); what was acquired is released, in order, and the
program does not wait for a child that is not there (main); one root per screen, and the program ends without one
(screens); a move or a cycle lands where its inverse would come from (bindings).
The full list of hazards, each with its line, is in `PROJECT.json`.

## The modules

| module | role |
|---|---|
| `Split` | the frame tree: operators from a heap to a heap |
| `Queues` | lists without duplicates: the hidden windows, the roots, the screens |
| `Workspace` | the core: workspace, windows, screens, bindings, and of the backend the outputs, the shown windows and the keyboard; one action per handler |
| `Placement` | what the core promises: every window is visible or waits in one queue |
| `Drawing` | adds to `Workspace` the rectangle each window was last given |
| `HiddenList`, `HashTable` | the linked list and the hash table: operators on them |
| `Containers` | both of them as the functions of `workspace.c` use them, beside the sequence and the set `Workspace` has in their place |
| `Launching` | how the arguments of a launch are packed and unpacked |
| `Process` | the life of the process: setup, children and SIGCHLD, cleanup; uses `Launching` |
| `Surfaces` | the life of a window between the client, `backend.c` and `window.c`; uses `Placement` for what the workspace does |
| `Keymap` | how a press finds its handler: packing, lookup, the two tries |
| `KeyBindings` | the table of bindings as it is filled |
| `Input` | keyboards, pointers, the seat, and the focus, once the bindings are added; extends `KeyBindings` |
| `Control` | the control protocol: `libvenowm.c` in every client, the commands of `main()`, `venowm_control.c` |
| `MCDrawing`, `MCWorkspace`, `MCContainers`, `MCProcess`, `MCSurfaces`, `MCInput`, `MCControl` | small constants for the modules they extend |
| `QueueProofs` | lemmas: what taking from and adding to a list does to its elements; induction along the numbers, and that a recursion has a solution |
| `WorkspaceProofs` | what the operators of `Split` preserve, the inductive invariant of `Workspace`, and the theorems about its states |
| `StepProofs` | what each step of `Workspace` does, and the theorems about its steps, the refinement of `Placement` among them; the theorems about `Drawing` |
| `SurfacesProofs`, `InputProofs`, `ContainersProofs`, `ControlProofs`, `ProcessProofs` | the inductive invariants of these modules, and the theorems |

### Split

A heap maps every address in `Frame` to a node or to `NULL`. `malloc` is a choice
of a free address, `free` resets one, so a stale pointer is visible as a pointer
to a free or to a reused address. `fraction` is a rational from 0 to 1 (`Fraction`);
the code only ever splits at one half from a key, and moves by position, so
`do_split_move` carries numerator and denominator instead of a float. `Tree` is what
the recursive walks visit, as a least closed set; `FirstLeaf`, `WindowsInOrder` and
`do_split_move` are recursive functions, the last one from triples of a frame and a
position. `Grounded` says without recursion that every way down ends: what
can be collected from the leaves up is everything.

### Workspace

The state is a record (`State`), and each C function is an operator from state to
state with the name of the function, so that a handler reads as its chain of
calls. Where the code takes an address from `malloc`, the operator yields a set
of states. An action is a whole handler:

| action | handler |
|---|---|
| `handle_new_output` | `handle_new_output`, `be_screen_new`, `handle_screen_new` |
| `handle_output_destroyed` | `handle_output_destroyed`, `be_screen_free`, `handle_screen_destroy` |
| `handle_window_new`, `handle_window_destroy` | the same names in `window.c` |
| `dosplit`, `go`, `swap`, `remove_frame`, `next_win`, `prev_win`, `quit` | the key bindings |
| `follow_dangling_focus` | any handler that dereferences `ws->focus` when it points at no frame |
| `compositor_main_cleanup` | the part of `compositor_main()` that frees the workspaces |
| `backend_free` | the rest of the teardown |

`fault` records the first use of an object that is not there; C promises nothing
after it, so the behaviour ends. The faults are not assumed away: they are found
by runs of their own (below), and the other properties hold in every state up to
them, `TypeOK` and the rest included.

Abstractions: one workspace (the five others never get a window), a window is
the pair of `window_t` and `be_window_t` while it is mapped, geometry is in a
module of its own (`Drawing`), `malloc` succeeds, and the containers are a sequence
and a set (`Containers`).

### Placement

Three variables: the visible windows, the queue, the keyboard. Its actions say
where a window goes when it makes way and which one comes next. `Workspace`
implements it (`KeepsPromise`) under the mapping `visible` = windows with a frame,
`waiting` = `hidden`, `keyboard` = `be_focus`. Only stopping may lose a window.

### Drawing

Each action of `Drawing` is an action of `Workspace` together with what the handler
tells the windows: `draw` for the calls of `draw_window()`, which computes the sides
of a frame with `get_sides`, and `restore` for `workspace_restore()`, which comes to
every leaf with the sides `do_at_each` hands down. Both are functions of a frame and
the sides that were carried to it (`Part`). Sides are fractions; the floats
of the code hold them exactly, since every split is at one half. `redraw_frame` rounds
them to pixels of an output of `Width` by `Height`. `told` is the rectangle a window
was last given while it is in a frame.

### HiddenList, HashTable and Containers

`HiddenList` is the functions `hidden_...` of `workspace.c` on the pointers of the
list and of every `ws_win_info_t`, one assignment per field. `HashTable` is what the
program uses of `khash.h`: probing, the last deleted bucket on the way, the two
counters, and the rehashing within one array that kicks out what is in its way.
`Containers` has the functions of `workspace.c` that use them as actions; which
windows are in frames is all it keeps of the frames. `Represents` is the relation
between a list and the sequence that `Workspace` has; `TableIsWindows` that between
the table and the set.

### Launching and Process

`Process` is `compositor_main()` and `backend_new()` as the list of what they acquire
(`Setup`), with the label each failure goes to, and the lists of what is released
from each label on (`BackendFail`, `BackendFree`, `cu_screens`). `acquire` and `fail` take
the next step of the setup, `release` the next one of the cleanup. From outside come
the rules of destruction: a listener is taken off a signal that still exists
(`Owner`), a display takes along what was made for it (`Takes`), destroying the
backend of wlroots calls the handlers of the devices and outputs that are left
(`Needs`).

A child runs, is stopped, or is a zombie; each change raises SIGCHLD, and signals
that come together are one. `deliver` interrupts the program between any two steps,
and nothing goes on until `sigchld_handler` has a child to take. Whether `signal()`
resets the handler when it is used depends on the C library and its feature macros
(`resets`, open in `Init`): with the `-std=c11` of the makefile glibc does reset it,
so there the first child is the only one that is waited for.

`Launching` is both ends of a launch: lengths that count terminators, checked and
added up to offsets. Byte strings are sequences; what `execvp()` reads is a string up
to the first terminator. `Argv` is what clients give to `venowm_launch()`; `Other` are
messages of clients that pack them differently, which are refused, or start
something (`Accepts`). For a length of 0 in front, the check of the terminator reads the
byte before the array, which may be anything (`Before`). What such a message then
runs is not followed: a process is a process.

### Surfaces

A surface goes through `role`: none, plain, with an xdg_surface, mapped. Three
objects hang on it: the `be_window_t` (`be_window`), the pointer in it to a
`window_t` (`venowm_data`), and the `window_t` (an address of `Window` with an
`owner`). Addresses are reused, so a stale `venowm_data` may point at the window of
another surface. `handle_xdg_mapped` and `handle_window_destroy` conjoin the
actions `Map` and `Unmap...` of `Placement`, and `rearrange` any of its others: what
the `core` run shows `Workspace` to do is all that is assumed of it here.
`malloc` fails at most `MaxFailures` times: for the `be_window_t`, for the `window_t`,
or inside `workspace_add_window()`, which leaves a `window_t` that is hooked to its
surface and that no workspace knows.

From outside: wlroots unmaps a surface before it destroys its xdg_surface; it
calls the listeners of a signal in the order they were added; libwayland destroys
the objects of a client that dies in the order of their ids, a surface before
its xdg_surface.

### Keymap, KeyBindings and Input

A word of 32 bits is the set of its bits, so `|` is a union. Keysyms reach up to bit
28. A layout is given by constants, as xkbcommon has it: the keysyms on each level of a
key (`Syms`), the modifiers that its type consumes (`Consumed`), and which level they
select (`LevelOf`); so caps lock is one of the eight modifiers like the others. There is
one layout at a time. Of the modifiers held, `Capture` keeps the four that
`keymap_filter_keysyms()` tests, under the names they are looked for: MOD3 stands for
SUPER there. `KeyBindings` fills the table in any order with the chords of
`add_bindings()`, which have CTRL or CTRL and SHIFT on a legacy keysym, and keeps in
`asked` what was asked for.

`Input` begins with the calls of `add_bindings()`; `backend_run` starts the backend
after all of them, and the handlers run (`running`). It has the lists of devices, `seat_caps`, `be_focus`, and of wlroots the
keyboard of the seat, the surface it has entered, and the keys its client takes to
be held. What the front end does with the focus in a handler is `FrontEnd`: hide,
focus, both or neither. From outside: a keyboard releases its keys before it goes
(libinput does this), modifiers change after the key event that changes them, a
surface that is entered already is not entered again, and the seat drops a
keyboard or a surface that is destroyed. A window may be unmapped and keep its
surface, and be mapped again, so `handle_xdg_unmapped`, `handle_xdg_destroyed` and
`surface_destroyed` are three actions.

### Control

A client numbers its commands as it issues them. Per client: `struct venowm`, the call it is in, the requests in its buffer, those
on the way, and the events on the way back. `wl_display_roundtrip()` is three
steps (send and wait, `dispatch` an event, return or fail), because other clients
and the end of venowm come between. `backend_free` may end venowm at any point;
which of the last events arrive is open. Between one call and the next a program
that uses the library may do anything; venowm started with a command connects,
makes its call and exits. The four focus requests are one: what they do to the
workspace is `go` of `Workspace`. Sending never fills libwayland's buffer.

## The runs

| run | instance | checks |
|---|---|---|
| `core` | 5 frames, 3 windows, 2 screens of 4 by 5 pixels, symmetric | thirteen invariants, three action properties, the refinement of `Placement` |
| `termination` | 3 frames, 2 windows, 2 screens | `EndsWithoutOutput` |
| `containers` | 5 windows whose hashes collide, 4 infos, symmetric in these | list and table hold what the sequence and the set of the core hold, searches end, nothing is left |
| `process` | 2 children, 13 argument lists, 5 other messages | setup and cleanup are in order and complete, the handler of SIGCHLD returns, launches run what was asked, the process ends |
| `surfaces` | 3 surfaces, 3 windows, 1 failure, symmetric | the workspace manages exactly the windows of mapped surfaces, and a `window_t` lives as long as it does |
| `input` | 2 keyboards, 2 pointers, 2 windows, 3 keys, 2 chords, 2 handlers, symmetric in all but keys and chords | a press calls what was asked for, no stuck keys, capabilities match the devices, the seat follows the focus |
| `control` | a library user, a command, a mistyped command; 2 commands each | commands are executed once and in order, success means executed, the first error stays, every call returns |
| `unlink` | 5, 2, 2 | `SafeInComplexCases` is violated |
| `dangling_focus` | 5, 2, 2 | `FocusAlwaysLeaf` is violated |
| `teardown` | 5, 2, 2 | `ScreensFreedByHandler` is violated |
| `client_dies` | 2 surfaces, 2 windows, 1 failure | `NoHandlerAfterFree` is violated |
| `last_error` | as `control` | `LastErrorIsTold` is violated |

**Bounds.** Five frames allow a screen with three leaves (a split of a split, both
ways round, and its removal with an inner sibling) or two screens, one of them
split, and the reuse of freed addresses. Three windows are one more than two
leaves hold, so the queue is used from both ends, with one and two elements. Two
screens are what loss of an inner screen, loss of the last one and a second root
need. `Frame` is the only bound on the number of splits: an action that needs an
address is disabled when none is free.

Four pixels by five are the smallest screen on which a quarter is rounded both ways
and may come out without a pixel. `BothWaysAgree` is about every tree, also those that
no handler renders again with so few frames. The last row and column of a screen
are never covered (`frac_of()` ends at `size - 1`), so `LeavesTile` is about the others.

Five windows with the hashes 0, 4, 1, 9 and 2 collide in the first table, of four
buckets, and partly in the next, of eight; four infos make the table grow, and
fill it with deleted buckets again and again.

Two children are what it takes for signals to coalesce and for a child to be left
over. `Pid` bounds the children that nobody has waited for; a step that needs one
more is the failure of `fork()`. At most one workspace comes without its table. The
argument lists are those of up to two strings, of which one is empty; the other
messages have no lengths, lengths that do not add up, a string that does not end, or a
length of 0 in front or behind.

Three surfaces let one be shown, one wait and one come or go; three window
addresses are as many as can be in use, and a freed one is reused at once. Two
chords on one key, with and without shift, are bound, each to either of two handlers
and again; its type consumes shift and caps lock. The third key has a Unicode
character on its second level, whose low bits are those of the letter and whose high
bit is one of `BE_MOD_ALT`. Each press is tried with every set of the eight
modifiers. Two keyboards let one stay when the other goes, or hold a key while
the other is released; the second key is the modifier of the bindings, which can change
between press and release. Two commands per client let one wait in the buffer while the other is
sent (`MaxCommands`), and two clients that talk to one venowm race with its end.

**Fairness.** In `Workspace` only `compositor_main_cleanup` and `backend_free` are weakly fair:
`wl_display_run()` returns once it was told to terminate, and straight-line code
follows. No user, client or cable has to do anything. The liveness run uses no
symmetry. In `Control` the compositor serves what it was sent as long as it runs,
and a client inside a round trip reads, returns or fails: both are loops over a
socket that `poll()` reports. Nobody has to make a call, and venowm need not end.

In `Process` a pending signal is
delivered, and the handler returns when there is a child to take: both are the
kernel's. The code after an interrupted call goes on however often it is interrupted
(strong fairness of `run_returns` and `release`): a handler that returns lets the
program on. No child has to end, and no user to quit.

**Deadlock** checking is off: a program that has exited, or has run into
undefined behaviour, stops.

## What the violated runs show

* `unlink`: unplug an output that is not the last of the list, with a window on
  it. The root of the last screen goes, and the root of the unplugged output is mapped to
  the screen that is left; its windows are shown already, so `be_window_show()` does
  nothing and they stay on the list of the output that is freed. Hide such a window: it is
  unlinked from the freed list. (`DrawingKept`, which is proved, shows that no
  other step draws a window on an output its frame is not on.)
* `dangling_focus`: a key or a window before the first output follows
  `ws->focus`, which `workspace_new()` never sets.
* `teardown`: quit with an output plugged in; the workspace is freed before
  the handler that destroys the output renders it again.
* `client_dies`: the surface of a client that dies goes before its xdg_surface;
  `be_window_free()` leaves its listeners on the latter.
* `last_error`: libvenowm.h:12 says that `venowm_errmsg()` returns the last error message.
  `errmsg()` keeps the first one, as its own comment says (libvenowm.c:23). The two
  differ when one call meets two errors: a round trip reads that the global of venowm
  has disappeared, and then fails. `FirstErrorStays`, which is proved, is what the code
  does; it is not what the header promises.

Other differences between code and text, seen while modelling and visible in the
modules, without a run:

* `workspace_remove_frame()` (workspace.c:380) focuses what remains of the parent,
  and the `workspace_restore()` it ends with puts `ws->focus` on the first leaf of
  the first root again (`reset_focus`), while the keyboard stays. That is why
  `KeyboardStaysWithFocus` excludes the steps that render again.
* `keymap_filter_keysyms()` takes `WLR_MODIFIER_MOD3` for SUPER (backend.c:412,
  `captured`), while the Super key is `WLR_MODIFIER_LOGO`, which it does not test. So the
  `SUPER+SHIFT+\` of the comments in backend.c:431 and backend.c:446 is looked up
  without SUPER, and a chord with `MOD_SUPER` would not be called by the Super key. No
  binding of `add_bindings()` has it; that Super held together with a bound chord calls its
  handler is part of `PressCallsItsHandler`.
* `BE_MOD_ALT` (backend.c:91) is four bits and contains `BE_MOD_SUPER`, and both are bits
  of keysyms of Unicode characters and multimedia keys (`be_modifier_t`). No binding uses
  ALT or SUPER, and no chord that is bound shares its word with another, which is what
  the proof of `PressesCallTheirHandlers` turns on.
* `venowm_launch()` (libvenowm.c:237) makes a round trip and so sends what was
  issued with `flush = false`, of which libvenowm.h:24-26 says that it waits for a
  flush.
* `handle_xdg_unmapped()` (backend.c:801) does not reset `venowm_data`, and
  `handle_window_new()` leaves it alone when it fails, of which window.c:12-13 says that
  no destroy hook need be feared. A client that maps a surface, unmaps it, maps it
  again without memory for a `window_t` and unmaps it has the freed one of the
  first time destroyed (the fault `"window"` of `Surfaces`).
* backend.c:1124 says "point keyboard at new surface", but a window that is focused
  while no keyboard is plugged in gets nothing from one that comes later:
  `keyboard_new()` does not enter the surface of `be->focus`. That is why
  `SeatFollowsFocus` is about steps from a state where they agree.
* `workspace_new()` (workspace.c:14) tests `ws` again in place of `ws->windows`; a workspace
  without a table goes on until the first use of it (the fault `"no table"` of
  `Process`).
* When the bindings cannot be added, `compositor_main()` leaves the list of screens
  allocated (venowm.c:95 goes past venowm.c:103) and returns 0; it also returns
  0 when the backend does not start.
* Devices still plugged in at the end: `wlr_backend_destroy()` calls
  `keyboard_destroyed()` and `pointer_destroyed()` with the seat gone, and the handler of
  an output with the output layout gone. `OrderlyEnd` excepts `plugged`.
* A child that is stopped raises SIGCHLD too, and `wait()` does not return for it:
  the compositor blocks in the handler until some child ends. `HandlerReturns` and
  `EndsOnceStopped` except it (`halted`). Children whose signals coalesce, or that end
  after the handler was reset, stay zombies.
* The usage message (venowm.c:190-193) names `focus_up`; `main()` knows `focus-up`.

## The proofs

### The core

The first part of `WorkspaceProofs` shows that splitting, removing, dropping a root
and pushing one keep a heap of `Split` a forest. The least-closed-set definition of
`Tree` is what makes this provable without induction: to show that a frame is
reachable, show that it is in every closed set that holds the root.

Then come the recursive walks. That a tail recursion has a solution is shown without
induction (`TailRecursion`, of `QueueProofs`): follow the calls from an argument as far as they go; the
sets closed under one call say which argument they end at, if they end. What the
solution returns needs the end: `MoveStays` collects, from the leaves up (`Grounded`),
the frames from which every descent of `do_split_move` ends at a leaf below, and
from the roots down those from which every climb does. The theorem
`MovesEndOnScreen` follows, because `Inherited` (below) keeps a frame on the
screen of its parent.

The rest proves eight more invariants for any sets of frames, windows (finite)
and screens. `TypeOK` is not inductive by itself: `s.split[f].win` only has a frame to
reset if the frame is allocated, and removing a frame keeps a forest only if it
was one. The inductive invariant `IInv` joins

* `Trees`: the heap is a forest over the list of roots, without duplicates, and grounded;
* `Queued`: the queue holds exactly the windows without a frame, once;
* `Framed`: window and frame point at each other, and only leaves hold windows;
* `Lit`: shown exactly if framed, keyboard only on a framed window;
* `OnScreens`: every frame has a screen, a frame with a parent the one of its parent
  (`Inherited`), and the root at place *i* the screen at place *i* (`Hung`);
* `Plugged`: one root per screen, and front end and backend agree;
* `FocusOK`: with a screen, the focus is a leaf.

`FramesOnTheirScreen` speaks of all frames of a tree. `Inherited` speaks of one frame
and its parent, which is what an operator can break, and the set of frames on the
screen of the root is closed, so it holds the tree.

The middle of a handler does not satisfy the invariant: a window may have left the
queue and have no frame yet. `Core(s, loose)` is the invariant of a state record with
such *loose* windows, and there is one lemma per operator: `PopFirstLoosens`,
`RemoveKeepsCore`, `DrawKeepsCore`, `FocusKeepsCore`, ... A handler is proved by
chaining the lemmas of the operators it calls, as the code chains the calls, and
`NextKeeps` joins the handlers.

### The steps of the core

`StepProofs` says what a step does to a state record without saying how. `StepDoes`:
from a state of the invariant every step leads to one of the invariant, and does one
of these to it (`Does`):

| effect | what happens | handlers |
|---|---|---|
| `Still` | nothing but the phase or a fault | `quit`, and handlers that return early |
| `Turns` | the keyboard goes to the window of a frame | `go` |
| `Fills` | a frame gets a new window, or the one at an end of the queue, and its old window joins the queue, at the other end | `handle_window_new`, `next_win`, `prev_win` |
| `Unmaps` | a window goes, and the head of the queue gets its frame | `handle_window_destroy` |
| `Trades` | two frames swap their windows | `swap` |
| `Halves` | a frame becomes two, the head of the queue fills the second | `dosplit` |
| `Loses` | a frame goes, its window joins the queue | `remove_frame` |
| `Rerendered` | roots follow the screens; the windows of a lost tree join the queue in some order | arrival and loss of an output |
| `Clears` | everything is gone | cleanup |

The action properties of `Workspace` and the refinement are then proved one effect at
a time:

* `CyclingIsUndone` needs no induction but the algebra of the queue: what is put at one
  end is what is taken from that end.
* `KeyboardStaysOnFocus` and `OutputsStartEmpty` follow from the effects.
* `DrawingIsKept`: a swap shows both windows on the screen of the other frame, which is
  the same screen by `MovesEndOnScreen`.
* `ImplementsPlacement`: under the mapping of `KeepsPromise`, `Fills` is `Map`, `Advance` or
  `Retreat`, `Unmaps` is `UnmapWaiting` or `UnmapVisible`, `Halves` is `Uncover`, `Loses` is
  `Cover` or `MoveKeyboard`, `Rerendered` is `Evict`, `Clears` is `Stop`, and the others
  move the keyboard or stutter (`StepKeepsPromise`).

### Drawing

The second half of `StepProofs` proves every invariant of `Drawing`, for any tree, any
fractions of a split and any size of the screens. A step of `Drawing` is one of
`Workspace`, so `IInv` holds (`DrawingInvariance`).

* `LeavesTileScreens`: `do_at_each` is a recursion that branches; `BranchingRecursion`
  gives it a solution as `TailRecursion` does for a walk. `RoundingKeepsOrder` and
  `BetweenIsBetween` put the rounded border of a cut between the rounded sides,
  and the same number ends one part and begins the other: a pixel in the node
  is in exactly one of its parts (`PartsTile`). Collected from the leaves up
  (`AllTiled`), the leaves below a frame cover its pixels once, if its sides are in
  order (`Proper`).
* `WaysUpAndDownAgree`: by induction along the tree from the root. The sides *s* that
  the way down gives frame *g* satisfy `Fits`: a fraction of *g*, scaled on the way
  up, is that fraction of the span between opposite sides of *s*. The step to a child
  is that a fraction of a part of a span is a fraction of the span
  (`SpanOfSpan`, `CutThenScale`); the numerators and denominators differ, the
  fractions do not, so the statement is about equality by cross products (`Same`).
* `WindowsFillFrames`: `FillsItsFrame` is inductive together with `IInv`.
  A handler that renders again tells every window anew (`RestoreTells`: each
  leaf is met, and by the last theorem with the sides that `get_sides` finds, and
  rounding does not depend on how a fraction is written). A handler that draws only some
  frames may leave out the others because they stay where they are: it
  keeps every inner node and every parent (`KeepsNodes`), which is all
  `get_sides` reads (`SidesStay`), and every window in a frame that is not drawn
  was in it before (`DrawFills`).

### The other components

`SurfacesProofs` proves every invariant of the run `surfaces`, for any surfaces, any
addresses and any number of failures. Its `IInv` is `TypeOK`, `Orderly` (the
workspace holds a window once, so a window that is removed is gone), and, until
the first fault, `Live`: a surface with an xdg_surface has its `be_window_t`; an
allocated window is the hook of the mapped surface that owns it; without failures
the hook of a mapped surface is its own window; and (`Kept`) what is managed is
allocated, and without failures the other way round. The faults are reachable
(the run `client_dies`, and what is said above of backend.c:801), so nothing is
claimed of the states after them but types and order. There is one lemma for
each action of `Placement` (`MapAdds`, `UnmapRemoves`, ...) and one for each
handler.

`InputProofs` proves the four invariants and the action property of the run
`input`. `NoStuckKeys` is inductive only together with `NobodyHolds`: while the
seat has entered no surface, no key counts as held. `SeatStaysWithFocus` is an action
property: `StepAgrees` shows for every handler that seat and backend still agree
after it. For the destruction of a surface this needs `FocusIsMapped`: what
`be->focus` points at is mapped.

Its second part is about the table of bindings. `Agrees` says that a lookup of any
modifiers and any keysym finds what was last asked for on them, if they are a chord that
is bound, and nothing otherwise. A binding keeps this because the word of such a chord
is the word of no other modifiers and keysym (`WordsDiffer`): it has no bit from 16 to 28,
which ALT, SUPER and the higher keysyms have, and one bit each tells CTRL and SHIFT.

`ControlProofs` proves the two invariants and the action property of the run `control`,
for any number of clients, programs and commands. `SuccessMeansExecuted` needs to know
that the answer a client reads is the answer to its last question:

* `OneQuestion`: there is one `sync` on the way or one `done` on the way back, never both,
  neither outside of a round trip that has not failed, and `sync` is the last request;
* `Accounted`: what is executed, sent and buffered is in the order of issue, each part
  before the next (`InLine`), and of a connected client nothing is missing there;
* `AnswerIsLast`: a round trip left nothing in the buffer, so when `sync` is served, all
  commands before it were;
* `OneCommand`: venowm started with a command has issued it once, and not before it
  has connected;
* `Fresh`: a client that has not connected has sent nothing.

A step is about one client (`StepOf`), except for the end of the compositor. Which
numbers a sequence holds, and that they grow, goes over from parts to whole and back
(`NumbersOfConcat` and the lemmas after it).

`ContainersProofs` proves that the linked list is the sequence. `Represents` names the
neighbours of every position, so each operation of the list has a lemma:
`AppendRepresents`, `PopFirstRepresents`, `RemoveRepresents` and so on show that the
pointers after it represent the sequence after it. The invariant adds that
the allocated infos are those of the queue and of the frames, and that the set of
owners follows.

Of the table, the same module proves that `kh_get()` finds exactly the windows of the
workspace, for any hash function and any number of windows. The argument:

* The step of a search grows by one, so the k-th probe is off by the triangular number
  k (k + 1) / 2. Two of the first n probes at the same bucket would make n divide a
  product of an even and an odd number that are both below 2n. The sizes of a table
  are the least set that holds 4 and is closed under doubling (`Sizes`), so that an odd
  factor can be dropped (`OddFactor`), and what is left is too small
  (`ProbesDiffer`). n different probes reach all n buckets (`ProbesCover`).
* The invariant (`HashOK`) is that every live cell lies on the path of its own key with
  no empty bucket before it (`Filled`), that no key is there twice, and that the counters
  count the buckets. As `upper_bound` is below the number of buckets one is empty, so a
  search ends before it comes round (`SearchStops`), at the key if it is there
  (`GetFinds`). Deleting leaves the bucket taken, so no path is broken (`DelKeeps`).
* Rehashing moves the cells within one array. Between two of its moves at most one cell is
  in nobody's bucket but in hand (`InHand`); every other is old or new, the new ones are on
  their paths in the new table, and together they are those that were there. A kick
  takes a cell from the old ones, so the recursion ends (`KickingIsWalk`), and the loop
  over the buckets leaves none old (`MovedIs`).
* `make_room` leaves a free place below 77 percent in each of its cases (`MakeRoomKeeps`),
  so `kh_put()` adds its cell and nothing else (`PutKeeps`).

What the list, the frames, the infos and the table say of each other is `Agree`. It
is stated of any of them, not of the variables, so that it can be followed along
the loop of `workspace_free()`, which deletes from the table it walks through:
`FreedIs` shows by induction over the buckets that it ends with no live bucket, and
`Agree` says that then there is no info, no frame and no link.

`ProcessProofs` proves `HandlerReturns` for any number of children. The invariant
counts what is owed: while no child was ever stopped, there are at least as many
zombies as signals pending and being handled. It also proves `LaunchedAsAsked`, for
any list of arguments. `Offset` is a recursive function; that it has a solution is
`RecursionFromOne`, which takes the least set of pairs that holds the first value and is
closed under a step, and shows it to be a function by `Induction`. `Induction` is about
a set in place of a predicate: the library's theorems take an operator, which no
installed prover can instantiate. The lengths add up to the whole (`OffsetsAddUp`), a
join of strings by `FlattenSeq` has every string at its offset (`FlattenJoins`), and as
no byte of a string is the terminator, reading stops at the end of the argument
(`UnpackPacked`).

`OrderlyEnd` and `NothingKept` rest on one order of all the resources (`Rank`) and on the
step of the setup that acquires each (`Since`). What a resource uses is acquired before
it and comes after it in the order (`NeededIs`). Every list of the code is sorted by
`Rank`, and the one that a failure of step k goes to names what the steps before k
acquired, except what goes along with the display or the backend of wlroots
(`FailReleases`, `FreeReleases`, `WorkspacesRelease`, `ScreensRelease`). Such a list
releases each thing while all it needs is there, and so does its tail once its head is
released (`ReleaseKeeps`). The invariant `EInv` says how far the setup is, and in the
cleanup that `todo` is such a list for what is held: it is needed because the properties
say nothing of a cleanup that still goes on. Without the exception of `plugged` the
proof fails where the backend is destroyed: devices and outputs that are left then use
the seat, the layout and the lists, which come before it in the order.

Assumed: `NULL` is no frame, window, screen, node, surface or device; `Window` is
finite (a set of windows is put into some order when a screen goes); keysyms have no
bit above 28, and every key has a first level and for every set of the modifiers it
consumes a level that exists; a modifier key is one of `Modifier`; the chords are those
with CTRL and SHIFT on keysyms below bit 16, as in `add_bindings()`; a client runs the library or a word of
`main()`; the strings that are launched are of bytes from 1 to 255, as strings in C are, and other
messages of bytes and lengths;
`MaxFailures` is a number; and an output has a natural number of pixels in
each direction.

| theorem | module | says |
|---|---|---|
| `TypeCorrect` | `WorkspaceProofs` | `[]TypeOK` |
| `FramesFormTrees` | `WorkspaceProofs` | `[]FrameForest` |
| `WindowsHaveOneHome` | `WorkspaceProofs` | `[]OneHome` |
| `FramedWindowsAreShown` | `WorkspaceProofs` | `[]ShownIffFramed` |
| `KeyboardIsVisible` | `WorkspaceProofs` | `[]KeyboardOnFramed` |
| `FocusStaysOnLeaf` | `WorkspaceProofs` | `[]FocusIsLeaf` |
| `OneRootPerScreen` | `WorkspaceProofs` | `[]RootPerScreen` |
| `FramesStayOnScreens` | `WorkspaceProofs` | `[]FramesOnTheirScreen` |
| `MovesEndOnScreen` | `WorkspaceProofs` | `[]MovesStayOnScreen` |
| `CyclingIsUndone` | `StepProofs` | `[]PrevUndoesNext` |
| `OutputsStartEmpty` | `StepProofs` | `NewOutputStartsEmpty` |
| `KeyboardStaysOnFocus` | `StepProofs` | `KeyboardStaysWithFocus` |
| `DrawingIsKept` | `StepProofs` | `DrawingKept` |
| `ImplementsPlacement` | `StepProofs` | `KeepsPromise`, the refinement of `Placement` |
| `LeavesTileScreens` | `StepProofs` | `[]LeavesTile` of `Drawing` |
| `WaysUpAndDownAgree` | `StepProofs` | `[]BothWaysAgree` of `Drawing` |
| `WindowsFillFrames` | `StepProofs` | `[]FillsItsFrame` of `Drawing` |
| `SurfaceTypeCorrect` | `SurfacesProofs` | `[]TypeOK` |
| `WindowsAreMapped` | `SurfacesProofs` | `[]ManagedIsMapped` |
| `WindowsAreFreedInTime` | `SurfacesProofs` | `[]FreedWithLastReference` |
| `SurfacesAreManaged` | `SurfacesProofs` | `[]MappedIsManaged` |
| `InputTypeCorrect` | `InputProofs` | `[]TypeOK` |
| `CapabilitiesMatch` | `InputProofs` | `[]CapsMatchDevices` |
| `KeysAreNotStuck` | `InputProofs` | `[]NoStuckKeys` |
| `SeatStaysWithFocus` | `InputProofs` | `SeatFollowsFocus` |
| `PressesCallTheirHandlers` | `InputProofs` | `[]PressCallsItsHandler` |
| `CommandsAreAccounted` | `ControlProofs` | `[]NothingLost` |
| `SuccessIsTrue` | `ControlProofs` | `[]SuccessMeansExecuted` |
| `FirstErrorIsKept` | `ControlProofs` | `FirstErrorStays` |
| `ListStaysQueue` | `ContainersProofs` | `[]ListIsQueue` |
| `InfosHaveOnePlace` | `ContainersProofs` | `[]NothingLeft` |
| `TableFindsWindows` | `ContainersProofs` | `[]TableIsWindows` |
| `SearchesAlwaysEnd` | `ContainersProofs` | `[]SearchesEnd` |
| `HandlerNeverBlocks` | `ProcessProofs` | `[]HandlerReturns` |
| `LaunchesAreFaithful` | `ProcessProofs` | `[]LaunchedAsAsked` |
| `EndsOrderly` | `ProcessProofs` | `[]OrderlyEnd` |
| `KeepsNothing` | `ProcessProofs` | `[]NothingKept` |

Every safety property that a passing run checks is proved. Only model-checked is
liveness (`EndsWithoutOutput`, `EndsOnceStopped`, `EveryCallReturns`), which is out of the
prover's reach; so is ENABLED.

## Not modelled

* Rendering, the cursor and pointer motion: they draw and forward, and change
  nothing the other parts read.
* `logmsg.c` and `test_split.c`; and that `logmsg()` is called from a signal handler.
* `malloc` failing in the core (a frame, a root), in the hash table, for devices and
  in the client library.
* The workspaces other than the one of `g_workspace`: no operation shows them.
* libwayland, wlroots and xkbcommon, except for what is said above to come from
  outside.

## Plan

What could still be modelled is the failure of `malloc` in the core: a split or a root
that cannot be made (`split.c:38`, `workspace.c:327`).

The questions asked of the system stay few: a new one joins an existing run where
the instance fits.
