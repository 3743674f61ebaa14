----------------------------- MODULE Workspace -----------------------------
(***************************************************************************)
(* The window manager core of venowm: the active workspace (workspace.c),  *)
(* the frames it shows windows in (split.c), the handlers the backend      *)
(* calls for windows and screens (window.c, screen.c), the key bindings    *)
(* (bindings.c), and of backend.c what they act on: which window is shown  *)
(* on which output, and which one holds the keyboard.                      *)
(*                                                                         *)
(* venowm is one thread running the event loop of libwayland, so a handler *)
(* is one atomic action.  A handler calls functions that each change some  *)
(* of the state in turn; they are operators from a state record to a state *)
(* record, applied in the order of the calls.                              *)
(***************************************************************************)
EXTENDS Split, Queues

ASSUME WindowIsFinite == IsFiniteSet(Window)

VARIABLES
  split,       \* the heap of split_t objects
  roots,       \* ws->roots, the root frame of each screen
  focus,       \* ws->focus; an address that is not a leaf is a dangling pointer
  hidden,      \* the queue from ws->hidden_first to ws->hidden_last
  frame,       \* win_info->frame of every window
  windows,     \* the keys of ws->windows
  g_screens,   \* the screens the front end knows, in order of arrival
  be_screens,  \* be->be_screens, the outputs of the backend
  shown,       \* the output whose list holds the window, NULL if it is not shown
  be_focus,    \* be->focus, the window that holds the keyboard
  phase,       \* how far compositor_main() has come
  fault        \* which freed or uninitialised object was used first, if any

vars == <<split, roots, focus, hidden, frame, windows, g_screens, be_screens,
          shown, be_focus, phase, fault>>

Phases == {"running",     \* in wl_display_run()
           "terminated",  \* wl_display_terminate() called, events still pending
           "freed",       \* the workspaces are freed, backend_free() runs
           "exited"}

(***************************************************************************)
(* After a fault C promises nothing, so the behaviour ends there:          *)
(*   "focus"      ws->focus was followed while it pointed at no frame      *)
(*   "link"       a window was unlinked from the list of a freed output    *)
(*   "teardown"   an output was destroyed when the workspace was gone        *)
(***************************************************************************)
Faults == {"none", "focus", "link", "teardown"}

State == [ split : Heap, roots : Seq(Frame), focus : Frame \cup {NULL},
           hidden : Seq(Window), frame : [Window -> Frame \cup {NULL}],
           windows : SUBSET Window, g_screens : Seq(Screen),
           be_screens : SUBSET Screen,
           shown : [Window -> Screen \cup {NULL}],
           be_focus : Window \cup {NULL}, phase : Phases, fault : Faults ]

This == [ split |-> split, roots |-> roots, focus |-> focus,
          hidden |-> hidden, frame |-> frame, windows |-> windows,
          g_screens |-> g_screens, be_screens |-> be_screens,
          shown |-> shown, be_focus |-> be_focus, phase |-> phase,
          fault |-> fault ]

Become(s) ==
  /\ split' = s.split           /\ roots' = s.roots
  /\ focus' = s.focus           /\ hidden' = s.hidden
  /\ frame' = s.frame           /\ windows' = s.windows
  /\ g_screens' = s.g_screens   /\ be_screens' = s.be_screens
  /\ shown' = s.shown           /\ be_focus' = s.be_focus
  /\ phase' = s.phase           /\ fault' = s.fault

-----------------------------------------------------------------------------
(* backend.c: the windows on the outputs, and the keyboard.                 *)

(* Taking a window off the list of its output (wl_list_remove) touches the  *)
(* output, which must not have been freed.                                  *)
UnlinkSafe(s, ws) == \A w \in ws : s.shown[w] \in s.be_screens \cup {NULL}

(* Mutations: hiding a window keeps it shown, or keeps its keyboard. *)
be_window_hide_unlinks_only(s, w) ==
  [s EXCEPT !.be_focus = IF @ = w THEN NULL ELSE @]

be_window_hide_keeps_keyboard(s, w) ==
  IF s.shown[w] = NULL THEN s ELSE [s EXCEPT !.shown[w] = NULL]

be_window_hide(s, w) ==
  IF s.shown[w] = NULL THEN s
  ELSE [s EXCEPT !.shown[w] = NULL,
                 !.be_focus = IF @ = w THEN NULL ELSE @,
                 !.fault = IF UnlinkSafe(s, {w}) THEN @ ELSE "link"]

be_window_show(s, w, screen) ==
  IF s.shown[w] # NULL THEN s ELSE [s EXCEPT !.shown[w] = screen]

-----------------------------------------------------------------------------
(* workspace.c.                                                             *)

(* A mutation: an empty frame is not told apart from a window. *)
workspace_remove_window_from_frame_unchecked(s, f, prepend) ==
  LET w == s.split[f].win
      t == IF w = NULL THEN s ELSE [be_window_hide(s, w) EXCEPT !.frame[w] = NULL]
  IN  IF f = NULL THEN s
      ELSE [t EXCEPT !.split[f].win = NULL,
                     !.hidden = IF prepend THEN <<w>> \o @ ELSE Append(@, w)]

workspace_remove_window_from_frame(s, f, prepend) ==
  LET w == s.split[f].win
      t == be_window_hide(s, w)
  IN  IF f = NULL \/ w = NULL THEN s
      ELSE [t EXCEPT !.split[f].win = NULL,
                     !.frame[w] = NULL,
                     !.hidden = IF prepend THEN <<w>> \o @ ELSE Append(@, w)]

(* A mutation: the window gets its frame but is not drawn there. *)
draw_window_undrawn(s, w, f) ==
  IF w = NULL THEN [s EXCEPT !.split[f].win = NULL]
  ELSE [s EXCEPT !.split[f].win = w, !.frame[w] = f]

draw_window(s, w, f) ==
  IF w = NULL THEN [s EXCEPT !.split[f].win = NULL]
  ELSE LET t == [s EXCEPT !.split[f].win = w, !.frame[w] = f]
       IN  IF s.split[f].screen = NULL THEN t
           ELSE be_window_show(t, w, s.split[f].screen)

(* A frame without a window leaves the keyboard to nobody (be_unfocus_all), *)
(* which is be_focus = NULL.                                                *)
workspace_focus_frame(s, f) ==
  [s EXCEPT !.focus = f, !.be_focus = s.split[f].win]

workspace_add_window(s, w) ==
  LET added == [s EXCEPT !.windows = @ \cup {w}]
      bare  == workspace_remove_window_from_frame(added, s.focus, FALSE)
  IN  workspace_focus_frame(draw_window(bare, w, s.focus), s.focus)

(* Frame f gets window w, which comes from one end of the hidden queue, and *)
(* the window that was there joins the queue.                               *)
replace_window(popped, w, f, prepend) ==
  LET bare == workspace_remove_window_from_frame(popped, f, prepend)
  IN  workspace_focus_frame(draw_window(bare, w, f), f)

pop_first(s) == [s EXCEPT !.hidden = Tail(@)]
pop_last(s)  == [s EXCEPT !.hidden = SubSeq(@, 1, Len(@) - 1)]

(* Mutations: the old window joins the queue at the wrong end. *)
workspace_next_hidden_win_at_prepends(s, f) ==
  IF f = NULL \/ s.hidden = <<>> THEN s
  ELSE replace_window(pop_first(s), Head(s.hidden), f, TRUE)

workspace_prev_hidden_win_at_appends(s, f) ==
  IF f = NULL \/ s.hidden = <<>> THEN s
  ELSE replace_window(pop_last(s), s.hidden[Len(s.hidden)], f, FALSE)

workspace_next_hidden_win_at(s, f) ==
  IF f = NULL \/ s.hidden = <<>> THEN s
  ELSE replace_window(pop_first(s), Head(s.hidden), f, FALSE)

workspace_prev_hidden_win_at(s, f) ==
  IF f = NULL \/ s.hidden = <<>> THEN s
  ELSE replace_window(pop_last(s), s.hidden[Len(s.hidden)], f, TRUE)

workspace_remove_window(s, w) ==
  LET f       == s.frame[w]
      dropped == [s EXCEPT !.windows = @ \ {w}]
      bare    == workspace_remove_window_from_frame(dropped, f, FALSE)
      gone    == [bare EXCEPT !.hidden = Without(@, w)]
  IN  workspace_next_hidden_win_at(gone, f)

(* The back pointer of window w, if there is one, after a node was moved to *)
(* frame f; a mutation leaves it alone.                                     *)
repoint_never(s, w, f) == s
repoint(s, w, f) == IF w = NULL THEN s ELSE [s EXCEPT !.frame[w] = f]

(* c0 takes over the window and the focus of f, c1 the first hidden window. *)
workspace_do_split(s, f, vertical, fraction, c0, c1) ==
  LET w   == s.split[f].win
      cut == [repoint(s, w, c0) EXCEPT
                !.split = split_do_split(@, f, vertical, fraction, c0, c1),
                !.focus = IF @ = f THEN c0 ELSE @]
      redrawn == draw_window(cut, w, c0)
  IN  IF s.hidden = <<>> THEN draw_window(redrawn, NULL, c1)
      ELSE draw_window(pop_first(redrawn), Head(s.hidden), c1)

swap_windows(s, src, dst) ==
  draw_window(draw_window(s, s.split[src].win, dst), s.split[dst].win, src)

(* A mutation: the focus does not go along with the window. *)
workspace_swap_windows_from_frames_only(s, src, dst) ==
  IF src = dst THEN s ELSE swap_windows(s, src, dst)

workspace_swap_windows_from_frames(s, src, dst) ==
  IF src = dst THEN s
  ELSE [swap_windows(s, src, dst) EXCEPT !.focus = IF @ = src THEN dst ELSE @]

-----------------------------------------------------------------------------
(* workspace_restore(), as the set of states it can return: a singleton but *)
(* for the address of a new root.  Screens come and go one at a time, so    *)
(* its while loops run at most once (RootPerScreen below).                  *)

(* Step 1: the last root goes when there are more roots than screens, and   *)
(* the windows in its frames are hidden in the order of the tree.           *)
pop_root(s) ==
  LET r       == s.roots[Len(s.roots)]
      tree    == Tree(s.split, r)
      evicted == {s.split[f].win : f \in tree} \ {NULL}
  IN  { [s EXCEPT
           !.roots    = SubSeq(@, 1, Len(@) - 1),
           !.split    = [f \in Frame |-> IF f \in tree THEN NULL ELSE @[f]],
           !.hidden   = @ \o order,
           !.frame    = [w \in Window |-> IF w \in evicted THEN NULL ELSE @[w]],
           !.shown    = [w \in Window |-> IF w \in evicted THEN NULL ELSE @[w]],
           !.be_focus = IF @ \in evicted THEN NULL ELSE @,
           !.fault    = IF UnlinkSafe(s, evicted) THEN @ ELSE "link"] :
        order \in {q \in Orderings(evicted) : q = WindowsInOrder(s.split, r)} }

(* A mutation: one root too many stays. *)
pop_excess_root_late(s) ==
  IF Len(s.roots) <= Len(s.g_screens) + 1 THEN {s} ELSE pop_root(s)

pop_excess_root(s) ==
  IF Len(s.roots) <= Len(s.g_screens) THEN {s} ELSE pop_root(s)

(* A mutation: the first hidden window fills the root of a new screen. *)
push_missing_root_filled(s) ==
  IF Len(s.roots) >= Len(s.g_screens) THEN {s}
  ELSE { LET t == [s EXCEPT !.split[f] = split_new(NULL, NULL),
                            !.roots = Append(@, f)]
         IN  IF s.hidden = <<>> THEN t
             ELSE draw_window(pop_first(t), Head(s.hidden), f) : f \in Free(s.split) }

(* Step 2: an empty root for a screen that has none. *)
push_missing_root(s) ==
  IF Len(s.roots) >= Len(s.g_screens) THEN {s}
  ELSE { [s EXCEPT !.split[f] = split_new(NULL, NULL),
                   !.roots = Append(@, f)] : f \in Free(s.split) }

(* Step 3: root i goes on screen i with everything below it. *)
map_roots(s) ==
  LET tree == [i \in 1..Len(s.roots) |-> Tree(s.split, s.roots[i])]
      in(i, w) == \E f \in tree[i] : s.split[f].win = w
  IN  [s EXCEPT
         !.split = [f \in Frame |->
            IF \E i \in 1..Len(s.roots) : f \in tree[i]
            THEN [@[f] EXCEPT !.screen =
                    s.g_screens[CHOOSE i \in 1..Len(s.roots) : f \in tree[i]]]
            ELSE @[f]],
         !.shown = [w \in Window |->
            IF @[w] = NULL /\ \E i \in 1..Len(s.roots) : in(i, w)
            THEN s.g_screens[CHOOSE i \in 1..Len(s.roots) : in(i, w)]
            ELSE @[w]]]

(* A mutation: the focus moves to the first root, leaf or not. *)
reset_focus_to_root(s) == {[s EXCEPT !.focus = s.roots[1]]}

(* The focus moves to the first leaf of the first root; the keyboard does   *)
(* not move with it.                                                        *)
reset_focus(s) ==
  {[s EXCEPT !.focus = f] :
     f \in {g \in Leaves(s.split) : g = FirstLeaf(s.split, s.roots[1])}}

workspace_restore(s) ==
  UNION { IF t.g_screens = <<>> THEN {t}
          ELSE UNION {reset_focus(map_roots(u)) : u \in push_missing_root(t)} :
          t \in pop_excess_root(s) }

(* The states workspace_remove_frame(f) can return.  The window of the      *)
(* sibling moves up into the parent with the rest of its node.              *)
workspace_remove_frame(s, f) ==
  LET bare  == workspace_remove_window_from_frame(s, f, FALSE)
      up    == s.split[f].parent
      moved == s.split[Sibling(s.split, f)].win
      cut   == [repoint(bare, moved, up) EXCEPT !.split = split_do_remove(@, f)]
      remains == {g \in Leaves(cut.split) : g = FirstLeaf(cut.split, up)}
      focused == IF s.focus # f THEN {cut}
                 ELSE {workspace_focus_frame(cut, g) : g \in remains}
  IN  IF up = NULL THEN {s} ELSE UNION {workspace_restore(t) : t \in focused}

-----------------------------------------------------------------------------
(* The handlers.                                                            *)

Init ==
  /\ split = [f \in Frame |-> NULL]
  /\ roots = <<>>
  /\ focus = NULL             \* workspace_new() leaves ws->focus uninitialised
  /\ hidden = <<>>
  /\ frame = [w \in Window |-> NULL]
  /\ windows = {}
  /\ g_screens = <<>>
  /\ be_screens = {}
  /\ shown = [w \in Window |-> NULL]
  /\ be_focus = NULL
  /\ phase = "running"
  /\ fault = "none"

(* wl_display_terminate() lets the dispatch of the pending events finish,   *)
(* so handlers still run in phase "terminated".                             *)
Dispatching == phase \in {"running", "terminated"} /\ fault = "none"

HasFocus == Dispatching /\ focus \in Leaves(split)

(* The front end's part: the screen joins the list or leaves it, and the    *)
(* workspace is rendered again.                                             *)
handle_screen_new(s, screen) ==
  workspace_restore([s EXCEPT !.g_screens = Append(@, screen)])

handle_screen_destroy(s, screen) ==
  workspace_restore([s EXCEPT !.g_screens = Without(@, screen)])

(* An output is plugged in.  One that cannot be allocated, here or in the   *)
(* front end, leaves everything as it was.                                  *)
handle_new_output(screen) ==
  /\ Dispatching
  /\ screen \notin be_screens
  /\ \E t \in handle_screen_new([This EXCEPT !.be_screens = @ \cup {screen}], screen) :
        Become(t)

(* An output is unplugged.  It is freed after the workspace was rendered    *)
(* again; losing the last one stops venowm.                                 *)
unplug(screen, last) ==
  /\ Dispatching
  /\ screen \in be_screens
  /\ \E t \in handle_screen_destroy(This, screen) :
        Become([t EXCEPT !.be_screens = @ \ {screen},
                         !.phase = IF last THEN "terminated" ELSE @])

(* A mutation: the test for the last output comes before it is off the list. *)
handle_output_destroyed_untested(screen) == unplug(screen, be_screens = {})

handle_output_destroyed(screen) == unplug(screen, be_screens \ {screen} = {})

(* A client maps a window: handle_xdg_mapped() and handle_window_new(). *)
handle_window_new(w) ==
  /\ HasFocus
  /\ w \notin windows
  /\ Become(workspace_add_window(This, w))

(* A client unmaps a window or dies. *)
handle_window_destroy(w) ==
  /\ Dispatching
  /\ w \in windows
  /\ Become(workspace_remove_window(This, w))

(* dohsplit and dovsplit.  Frame bounds the number of frames. *)
dosplit(vertical) ==
  /\ HasFocus
  /\ \E c0, c1 \in Free(split) :
       /\ c0 # c1
       /\ Become(workspace_do_split(This, focus, vertical, <<1, 2>>, c0, c1))

(* goleft, goright, goup and godown. *)
go(vertical, increasing) ==
  /\ HasFocus
  /\ \E new \in Leaves(split) :
       /\ new = do_split_move(split, focus, vertical, increasing)
       /\ Become(workspace_focus_frame(This, new))

(* swapleft, swapright, swapup and swapdown. *)
swap(vertical, increasing) ==
  /\ HasFocus
  /\ \E new \in Leaves(split) :
       /\ new = do_split_move(split, focus, vertical, increasing)
       /\ Become(workspace_swap_windows_from_frames(This, focus, new))

remove_frame ==
  /\ HasFocus
  /\ \E t \in workspace_remove_frame(This, focus) : Become(t)

next_win == HasFocus /\ Become(workspace_next_hidden_win_at(This, focus))

prev_win == HasFocus /\ Become(workspace_prev_hidden_win_at(This, focus))

quit == Dispatching /\ Become([This EXCEPT !.phase = "terminated"])

(* Any handler above that needs ws->focus, when that points at no frame:    *)
(* before the first screen came or after the last one went.                 *)
follow_dangling_focus ==
  /\ Dispatching
  /\ focus \notin Leaves(split)
  /\ Become([This EXCEPT !.fault = "focus"])

(* compositor_main() after backend_run(): the list of screens is freed, and *)
(* workspace_free() hides the windows, drops them and frees the frames.     *)
compositor_main_cleanup ==
  /\ phase = "terminated" /\ fault = "none"
  /\ Become([This EXCEPT
       !.phase = "freed",
       !.g_screens = <<>>,
       !.windows = {}, !.hidden = <<>>, !.roots = <<>>,
       !.frame = [w \in Window |-> NULL],
       !.shown = [w \in Window |-> IF frame[w] = NULL THEN @[w] ELSE NULL],
       !.be_focus = IF @ # NULL /\ frame[@] # NULL THEN NULL ELSE @,
       !.split = [f \in Frame |-> NULL],
       !.fault = IF UnlinkSafe(This, {w \in Window : frame[w] # NULL})
                 THEN @ ELSE "link"])

(* backend_free() destroys the outputs that are left.  Each of them calls   *)
(* handle_output_destroyed(), which uses the output layout freed a moment   *)
(* before, and handle_screen_destroy(), which renders g_workspace again.    *)
backend_free ==
  /\ phase = "freed" /\ fault = "none"
  /\ Become(IF be_screens = {} THEN [This EXCEPT !.phase = "exited"]
                               ELSE [This EXCEPT !.fault = "teardown"])

Next ==
  \/ \E screen \in Screen :
       handle_new_output(screen) \/ handle_output_destroyed(screen)
  \/ \E w \in Window : handle_window_new(w) \/ handle_window_destroy(w)
  \/ \E vertical \in BOOLEAN : dosplit(vertical)
  \/ \E vertical, increasing \in BOOLEAN :
       go(vertical, increasing) \/ swap(vertical, increasing)
  \/ remove_frame \/ next_win \/ prev_win \/ quit
  \/ follow_dangling_focus
  \/ compositor_main_cleanup \/ backend_free

(* The event loop finishes its dispatch and compositor_main() runs to its   *)
(* end; nobody has to plug a screen, press a key or map a window.           *)
Fairness == WF_vars(compositor_main_cleanup) /\ WF_vars(backend_free)

Spec == Init /\ [][Next]_vars /\ Fairness

-----------------------------------------------------------------------------
(* Every variable holds a value of its type: the type of a handler's result *)
(* is the type of its argument.                                             *)
TypeOK == This \in State

(* While a workspace exists, its frames form one tree per root.  The code:  *)
(* split_do_split() and split_do_remove() rewire parent and child pointers  *)
(* by hand and reuse the parent's object for the child that stays.          *)
FrameForest == Forest(split, Elems(roots))

(* Every window of the workspace is either in the hidden queue, once, or in *)
(* exactly one leaf, and then the back pointer win_info->frame names that   *)
(* leaf (venowm.h:69-76).  The code: windows travel between queue and       *)
(* frames through pops, appends and pointer swaps in eight functions.       *)
OneHome ==
  /\ Distinct(hidden)
  /\ Elems(hidden) = {w \in windows : frame[w] = NULL}
  /\ \A w \in Window : frame[w] # NULL =>
       /\ w \in windows
       /\ frame[w] \in Allocated(split)
       /\ split[frame[w]].win = w
  /\ \A f \in Allocated(split) :
       split[f].win # NULL => split[f].isleaf /\ frame[split[f].win] = f

(* The backend shows exactly the windows that are in a frame.  The code:    *)
(* be_window_show() and be_window_hide() are called from draw_window() and  *)
(* workspace_remove_window_from_frame(), each under conditions of its own.  *)
ShownIffFramed == \A w \in Window : shown[w] # NULL <=> frame[w] # NULL

(* The keyboard is with nobody or with a window in a frame; be_unfocus_all()*)
(* dereferences be->focus, so it may never outlive its window.              *)
KeyboardOnFramed == be_focus # NULL => frame[be_focus] # NULL

(* As long as there is a screen, the focus is a leaf (venowm.h:83).  The    *)
(* code: frames are freed under the focus by workspace_remove_frame() and   *)
(* by workspace_restore().                                                  *)
FocusIsLeaf == g_screens # <<>> => focus \in Leaves(split)

(* There is one root per screen (venowm.h:79), and the front end knows      *)
(* exactly the outputs of the backend.                                      *)
RootPerScreen ==
  phase \in {"running", "terminated"} =>
    /\ Len(roots) = Len(g_screens)
    /\ Distinct(roots) /\ Distinct(g_screens)
    /\ Elems(g_screens) = be_screens

(* Every frame lies in the tree of one root and points at the screen of     *)
(* that root, never at a screen_t that was freed.  The code: split->screen  *)
(* is set when a frame is made and when the workspace is rendered again.    *)
FramesOnTheirScreen ==
  \A f \in Allocated(split) :
    \E i \in 1..Len(roots) : /\ f \in Tree(split, roots[i])
                             /\ split[f].screen = g_screens[i]

(* The walk of do_split_move() from the focus ends, at a leaf of the tree   *)
(* the focus is in, whatever splits and removals came before.               *)
MovesStayOnScreen ==
  HasFocus => \A vertical, increasing \in BOOLEAN :
    LET new == do_split_move(split, focus, vertical, increasing)
    IN  new \in Leaves(split) /\ split[new].screen = split[focus].screen

-----------------------------------------------------------------------------
(* What a step may do.                                                      *)

KeyboardFollowsFocus ==
  focus \in Leaves(split) /\ be_focus = split[focus].win

(* A step that frees a frame or changes the screens renders the workspace   *)
(* again and resets the focus on the way.                                   *)
Rerenders == g_screens' # g_screens \/ Allocated(split) \ Allocated(split)' # {}

(* When the keyboard is with the window of the focused frame, it still is   *)
(* after every handler that does not render the workspace again.  The code: *)
(* only workspace_focus_frame() sets both; splitting, swapping and hiding   *)
(* have to keep them together.                                              *)
KeyboardStaysWithFocus ==
  [][KeyboardFollowsFocus /\ ~Rerenders => KeyboardFollowsFocus']_vars

DrawnWhereFramed ==
  \A w \in Window : frame[w] # NULL => shown[w] = split[frame[w]].screen

(* An output goes that is not the last one on the list. *)
LosesInnerScreen ==
  /\ Len(g_screens') < Len(g_screens)
  /\ g_screens' # SubSeq(g_screens, 1, Len(g_screens'))

(* When every window in a frame is shown on the output of that frame, it    *)
(* still is after every step but the loss of an inner output.  The code:    *)
(* be_window_show() does nothing for a window that is shown already, so it  *)
(* never moves one to another output.                                       *)
DrawingKept == [][DrawnWhereFramed /\ ~LosesInnerScreen => DrawnWhereFramed']_vars

(* No window is put on the list of an output by the handler that plugs it   *)
(* in.  The code: be_screen_new() tells the front end of the output, which  *)
(* renders the workspace, before it initialises that list.                  *)
NewOutputStartsEmpty ==
  [][\A screen \in be_screens' \ be_screens, w \in Window :
       shown'[w] = screen => shown[w] = screen]_vars

(* Cycling forwards and then backwards through the hidden windows gives the *)
(* focused frame its window back and leaves every queue and frame as it was *)
(* (workspace_next_hidden_win_at() and workspace_prev_hidden_win_at() put   *)
(* the old window at opposite ends of the queue).                           *)
PrevUndoesNext ==
  HasFocus /\ split[focus].win # NULL =>
    LET there == workspace_next_hidden_win_at(This, focus)
        back  == workspace_prev_hidden_win_at(there, focus)
    IN  hidden # <<>> =>
          back = [workspace_focus_frame(This, focus) EXCEPT
                    !.shown = back.shown, !.fault = back.fault]

(* What a user sees of the windows is what Placement promises: no step but  *)
(* the cleanup loses a window, the windows that make way queue up and come  *)
(* back in order, and the keyboard goes along as promised.                  *)
Promise == INSTANCE Placement WITH
  visible  <- {w \in Window : frame[w] # NULL},
  waiting  <- hidden,
  keyboard <- be_focus

KeepsPromise == Promise!Spec

(* A venowm that loses its last output comes to an end, instead of running  *)
(* on without a screen, unless it ends in a fault.  The code: the test for  *)
(* the last output comes after the output was taken off the list, and the   *)
(* event loop returns to compositor_main() for the cleanup.                 *)
EndsWithoutOutput ==
  [](be_screens # {} =>
       [](be_screens = {} => <>(phase = "exited" \/ fault # "none")))

-----------------------------------------------------------------------------
(* What comments of the source say, and the code does not keep.             *)

(* workspace.c:307-309: rendering again is safe when the screens changed,   *)
(* so a window is only ever taken off the list of an output that exists.    *)
SafeInComplexCases == fault # "link"

(* venowm.h:83: a handler that follows the focus finds a leaf. *)
FocusAlwaysLeaf == fault # "focus"

(* venowm.c:102: the handlers of the outputs have freed every screen by the *)
(* time compositor_main() frees the list of screens and the workspaces.     *)
ScreensFreedByHandler == phase = "freed" => be_screens = {}
=============================================================================
