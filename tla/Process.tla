------------------------------ MODULE Process ------------------------------
(***************************************************************************)
(* The life of the compositor as a process: compositor_main() acquires one *)
(* resource after the other, each of which may fail; runs the event loop,  *)
(* which starts programs; and releases what it holds.  Between any two of  *)
(* its steps SIGCHLD may interrupt it.                                     *)
(***************************************************************************)
EXTENDS Launching, FiniteSets

CONSTANTS
  Pid,    \* process ids: the bound on the children that are not reaped
  Argv,   \* the argument lists that clients launch with venowm_launch()
  Other,  \* messages of clients that pack them in a way of their own
  NULL

ASSUME NullIsNoPid == NULL \notin Pid
ASSUME ArgvAssumption == Argv \subseteq Seq(Seq(Byte))
ASSUME OtherAssumption ==
  \A m \in Other : m.argv \in Seq(Byte \cup {Nul}) /\ m.argvlen \in Seq(Nat)

VARIABLES
  stage,      \* "setup", "run", "stopping" after backend_stop(), "cleanup", "exited"
  todo,       \* what is left to acquire in "setup", or to release in "cleanup"
  held,       \* what was acquired and is not released
  tableless,  \* the workspaces whose hash table could not be allocated
  plugged,    \* whether there are input devices, and outputs
  fault,      \* the first use of something that is not there
  resets,     \* external: whether a handler set with signal() is used up by a signal
  handler,    \* external: whether sigchld_handler() is set
  pending,    \* external: whether SIGCHLD is pending
  handling,   \* whether sigchld_handler() is running
  child,      \* external: the processes that venowm has started
  halted,     \* history: whether any of them was ever stopped by a signal
  launched    \* history: if the last step was a launch, what was asked and what runs

main      == <<stage, todo, held, tableless, plugged, fault>>
signals   == <<resets, handler, pending, handling>>
processes == <<child, halted>>
vars      == <<main, signals, processes, launched>>

Plugs    == {"input", "output"}
States   == {"none", "running", "stopped", "zombie"}
NoLaunch == [asked |-> <<>>, runs |-> <<>>]

-----------------------------------------------------------------------------
(* What is released, in the order of the code.  A goto is a suffix of these *)
(* lists, from the resource that is released first.                         *)

From(list, r) ==
  SubSeq(list, CHOOSE i \in DOMAIN list : list[i] = r, Len(list))

(* The end of backend_new(), from fail_cursor_mgr on. *)
BackendFail ==
  << "cursor_mgr", "cursor", "seat",
     "wlr_surface_created", "compositor_destroyed_listener", "vc",
     "server_dec_mgr", "decoration_new", "decoration_mgr_destroy",
     "decoration_mgr", "xdg_shell_new_listener", "xdg_shell", "compositor",
     "output_layout", "new_output_listener", "wlr_backend", "display", "be" >>

(* A mutation: the lines of backend_new() again. *)
BackendFree_copied == BackendFail

(* backend_free(); the compositor goes with the display. *)
BackendFree ==
  << "keymap", "cursor_mgr", "cursor", "seat",
     "wlr_surface_created", "compositor_destroyed_listener", "vc",
     "server_dec_mgr", "decoration_new", "decoration_mgr_destroy",
     "decoration_mgr", "xdg_shell_new_listener", "xdg_shell",
     "output_layout", "new_output_listener", "wlr_backend", "display", "be" >>

Workspaces == << "ws0", "ws1", "ws2", "ws3", "ws4", "ws5" >>

(* The labels of the gotos.  Those of backend_new(), with what is released  *)
(* first,                                                                   *)
First ==
  [ fail_cursor_mgr |-> "cursor_mgr", fail_cursor |-> "cursor", fail_seat |-> "seat",
    fail_listeners |-> "wlr_surface_created", fail_venowm_control |-> "vc",
    fail_server_dec_mgr |-> "server_dec_mgr", fail_decoration_mgr |-> "decoration_new",
    fail_xdg_shell |-> "xdg_shell_new_listener", fail_compositor |-> "compositor",
    fail_output_layout |-> "output_layout", fail_wlr_backend |-> "new_output_listener",
    fail_display |-> "display", fail_be |-> "be" ]

(* and those of compositor_main(), which frees the workspaces there are. *)
g_nworkspaces == Cardinality({i \in DOMAIN Workspaces : Workspaces[i] \in held})

cu_workspaces ==
  SubSeq(Workspaces, 1, g_nworkspaces) \o <<"g_workspaces">> \o BackendFree
cu_screens == <<"g_screens">> \o cu_workspaces

goto(label) ==
  IF label = "return" THEN <<>>
  ELSE IF label = "cu_backend" THEN BackendFree
  ELSE IF label = "cu_workspaces" THEN cu_workspaces
  ELSE From(BackendFail, First[label])

(* What is acquired, in the order of the code, and where a failure goes. *)
Get(got, label) == [gets |-> got, fails |-> label]

BackendNew ==
  << Get({"be"}, "return"),
     Get({"display"}, "fail_be"),
     Get({}, "fail_display"),              \* the event loop of the display
     Get({"wlr_backend", "new_input_device", "new_output_listener"}, "fail_display"),
     Get({"output_layout"}, "fail_wlr_backend"),
     Get({"compositor"}, "fail_output_layout"),
     Get({"xdg_shell", "xdg_shell_new_listener"}, "fail_compositor"),
     Get({"decoration_mgr", "decoration_new", "decoration_mgr_destroy"}, "fail_xdg_shell"),
     Get({"server_dec_mgr"}, "fail_decoration_mgr"),
     Get({"vc"}, "fail_server_dec_mgr"),
     Get({"socket", "wlr_surface_created", "compositor_destroyed_listener"},
         "fail_venowm_control"),
     Get({"seat"}, "fail_listeners"),
     Get({"cursor"}, "fail_seat"),
     Get({"cursor_mgr"}, "fail_cursor"),
     Get({"keymap"}, "fail_cursor_mgr") >>

Setup ==
  BackendNew \o << Get({"g_workspaces"}, "cu_backend") >> \o
  [i \in 1..Len(Workspaces) |-> Get({Workspaces[i]}, "cu_workspaces")] \o
  << Get({"g_screens"}, "cu_workspaces"),
     Get({}, "cu_workspaces") >>           \* add_bindings()

(* A mutation: what could not be acquired is released as well. *)
on_failure_itself(step) == SetToSeq(step.gets) \o goto(step.fails)

on_failure(step) == goto(step.fails)

-----------------------------------------------------------------------------
(* External: what has to be there when something is released.  A listener   *)
(* is taken off the signal of its owner; what was made for the display      *)
(* takes itself off it.  Destroying the backend destroys the devices and    *)
(* outputs that are left, and calls their handlers (backend.c:177-190,      *)
(* 496-508 and 625-637).                                                    *)

Owner ==
  [ wlr_surface_created |-> "compositor", compositor_destroyed_listener |-> "compositor",
    decoration_new |-> "decoration_mgr", decoration_mgr_destroy |-> "decoration_mgr",
    xdg_shell_new_listener |-> "xdg_shell", new_output_listener |-> "wlr_backend" ]

OfDisplay == { "wlr_backend", "compositor", "xdg_shell", "decoration_mgr",
               "server_dec_mgr", "vc", "seat" }

Needs(r) ==
  UNION { IF r \in DOMAIN Owner THEN {Owner[r]} ELSE {},
          IF r \in OfDisplay THEN {"display"} ELSE {},
          IF r = "wlr_backend" /\ "input" \in plugged THEN {"seat"} ELSE {},
          IF r = "wlr_backend" /\ "output" \in plugged
            THEN {"output_layout", "g_screens", "g_workspaces", "ws0"} ELSE {},
          IF r \in {"be", "g_workspaces", "g_screens"} THEN {} ELSE {"be"} }

(* External: what goes along with it. *)
Takes(r) ==
  {r} \cup (IF r = "display" THEN {"compositor", "socket"} ELSE {})
      \cup (IF r = "wlr_backend" THEN {"new_input_device"} ELSE {})

-----------------------------------------------------------------------------
Init ==
  /\ stage = "setup" /\ todo = Setup /\ held = {}
  /\ tableless = {} /\ plugged = {} /\ fault = "none"
  /\ resets \in BOOLEAN /\ handler = TRUE /\ pending = FALSE /\ handling = FALSE
  /\ child = [p \in Pid |-> "none"] /\ halted = FALSE
  /\ launched = NoLaunch

(* Straight-line code of the program, interrupted by its signal handler. *)
Main(in) == fault = "none" /\ stage \in in /\ ~handling

CleanUp(list) ==
  /\ stage' = IF list = <<>> THEN "exited" ELSE "cleanup"
  /\ todo' = list

(* The next call of the setup succeeds, *)
acquire ==
  /\ Main({"setup"}) /\ todo # <<>>
  /\ held' = held \cup Head(todo).gets
  /\ todo' = Tail(todo)
  /\ UNCHANGED <<stage, tableless, plugged, fault, signals, processes>>

(* or fails, *)
fail ==
  /\ Main({"setup"}) /\ todo # <<>>
  /\ CleanUp(on_failure(Head(todo)))
  /\ UNCHANGED <<held, tableless, plugged, fault, signals, processes>>

(* or goes on without a hash table: workspace_new() tests ws again after    *)
(* kh_init(), in place of ws->windows.                                      *)
workspace_new_tableless ==
  /\ Main({"setup"}) /\ todo # <<>>
  /\ Head(todo).gets \subseteq Range(Workspaces) /\ Head(todo).gets # {}
  /\ tableless = {}   \* a bound of the model: one such failure
  /\ tableless' = Head(todo).gets
  /\ held' = held \cup Head(todo).gets
  /\ todo' = Tail(todo)
  /\ UNCHANGED <<stage, plugged, fault, signals, processes>>

-----------------------------------------------------------------------------
(* The children.  A signal that comes while one is pending is lost.         *)

(* External: venowm is told when a child exits, stops or continues. *)
raise == pending' = (pending \/ handler)

(* fork(), for which there may be no process id left, and exec. *)
Fork(p) == child[p] = "none" /\ child' = [child EXCEPT ![p] = "running"]

(* backend_run(): the backend starts, and the first terminal.  If the       *)
(* backend does not start, compositor_main() ends as if it had run.         *)
backend_run ==
  /\ Main({"setup"}) /\ todo = <<>>
  /\ \/ /\ stage' = "run"
        /\ (\E p \in Pid : Fork(p)) \/ UNCHANGED child
        /\ plugged' \in SUBSET Plugs
        /\ UNCHANGED todo
     \/ CleanUp(cu_screens) /\ UNCHANGED <<plugged, child>>
  /\ UNCHANGED <<held, tableless, fault, signals, halted>>

exec_weston_terminal ==
  /\ Main({"run", "stopping"})
  /\ \E p \in Pid : Fork(p)
  /\ UNCHANGED <<main, signals, halted>>

(* A client launches a program, if its message is accepted; without memory  *)
(* or a process nothing starts.                                             *)
venowm_control_launch(m, before) ==
  /\ Main({"run", "stopping"})
  /\ IF Accepts(m, before) THEN \E p \in Pid : Fork(p) ELSE UNCHANGED child
  /\ UNCHANGED <<main, signals, halted>>

(* The byte before an array may be a terminator, or not. *)
Before == {Nul, 1}

Launched(argv, before) ==
  [ asked |-> argv,
    runs  |-> IF Accepts(pack(argv), before) THEN unpack(pack(argv)) ELSE <<>> ]

(* A mutation: the handler waits again for as long as there are children. *)
sigchld_handler_loops(p) ==
  /\ handling /\ fault = "none" /\ child[p] = "zombie"
  /\ child' = [child EXCEPT ![p] = "none"]
  /\ handling' = \E q \in Pid : child'[q] # "none"
  /\ UNCHANGED <<main, resets, handler, pending, halted>>

(* sigchld_handler(): wait() takes one child that has ended, or waits for   *)
(* one to end.                                                              *)
sigchld_handler(p) ==
  /\ handling /\ fault = "none" /\ child[p] = "zombie"
  /\ child' = [child EXCEPT ![p] = "none"]
  /\ handling' = FALSE
  /\ UNCHANGED <<main, resets, handler, pending, halted>>

(* External: the signal is delivered; it is blocked while its handler runs. *)
deliver ==
  /\ pending /\ ~handling /\ stage # "exited" /\ fault = "none"
  /\ pending' = FALSE /\ handling' = TRUE
  /\ handler' = ~resets
  /\ UNCHANGED <<main, resets, processes>>

(* External: what happens to a child. *)
child_changes(p) ==
  /\ stage # "exited" /\ fault = "none"
  /\ \/ /\ child[p] \in {"running", "stopped"}
        /\ child' = [child EXCEPT ![p] = "zombie"]
        /\ UNCHANGED halted
     \/ /\ child[p] = "running"
        /\ child' = [child EXCEPT ![p] = "stopped"]
        /\ halted' = TRUE
     \/ /\ child[p] = "stopped"
        /\ child' = [child EXCEPT ![p] = "running"]
        /\ UNCHANGED halted
  /\ raise
  /\ UNCHANGED <<main, resets, handler, handling>>

-----------------------------------------------------------------------------
(* The end.                                                                 *)

(* Devices and outputs come and go; without the last output, or at the key  *)
(* for it, venowm stops.                                                    *)
replug(now) ==
  /\ Main({"run", "stopping"}) /\ now # plugged
  /\ plugged' = now
  /\ stage' = IF "output" \in plugged \ now THEN "stopping" ELSE stage
  /\ UNCHANGED <<todo, held, tableless, fault, signals, processes>>

quit ==
  /\ Main({"run"})
  /\ stage' = "stopping"
  /\ UNCHANGED <<todo, held, tableless, plugged, fault, signals, processes>>

(* wl_display_run() returns after the events that were read already. *)
run_returns ==
  /\ Main({"stopping"})
  /\ CleanUp(cu_screens)
  /\ UNCHANGED <<held, tableless, plugged, fault, signals, processes>>

release ==
  /\ Main({"cleanup"})
  /\ LET r == Head(todo)
     IN  /\ held' = held \ Takes(r)
         /\ fault' = IF r \notin held \/ ~(Needs(r) \subseteq held) THEN "freed"
                     ELSE IF r \in tableless THEN "no table" ELSE "none"
  /\ CleanUp(Tail(todo))
  /\ UNCHANGED <<tableless, plugged, signals, processes>>

Next ==
  \/ /\ \/ acquire \/ fail \/ workspace_new_tableless
        \/ backend_run \/ exec_weston_terminal
        \/ \E p \in Pid : sigchld_handler(p) \/ child_changes(p)
        \/ deliver
        \/ \E now \in SUBSET Plugs : replug(now)
        \/ quit \/ run_returns \/ release
        \/ \E m \in Other, before \in Before : venowm_control_launch(m, before)
     /\ launched' = NoLaunch
  \/ \E argv \in Argv, before \in Before :
       venowm_control_launch(pack(argv), before) /\ launched' = Launched(argv, before)

(* The code after a call goes on when the call and the signal handlers that *)
(* interrupt it have returned, however many these are; a signal that is     *)
(* pending is delivered.  No child has to end, and no user to quit.         *)
Fairness ==
  /\ SF_main(run_returns) /\ SF_main(release)
  /\ WF_signals(deliver) /\ WF_signals(\E p \in Pid : sigchld_handler(p))

Spec == Init /\ [][Next]_vars /\ Fairness

-----------------------------------------------------------------------------
(* The handler of SIGCHLD never blocks the compositor: while it runs, there *)
(* is a child for wait() to take, and another one if the signal is pending  *)
(* again; unless a child was stopped and not ended, of which SIGCHLD tells  *)
(* as well.  The code: one call of wait() without WNOHANG per signal, and   *)
(* signals of children that end together become one.                        *)
HandlerReturns ==
  ~halted /\ handling =>
    \E p \in Pid :
      /\ child[p] = "zombie"
      /\ pending => \E q \in Pid \ {p} : child[q] = "zombie"

(* Whatever a client asks venowm_launch() for, empty strings included, is   *)
(* what is executed.  The code: both sides add up lengths that count terminators,   *)
(* and the compositor refuses what it cannot make sense of.                 *)
LaunchedAsAsked == launched.runs = launched.asked

(* Whichever step of the setup fails, and whenever the program ends, every  *)
(* resource is released after what uses it, and once: nothing is touched    *)
(* that is gone.  Except: with devices or outputs still plugged in, and     *)
(* when a workspace got no table.  The code: a label for each step, in the  *)
(* reverse order, written twice.                                            *)
OrderlyEnd ==
  /\ fault = "freed" => plugged # {}
  /\ fault = "no table" => tableless # {}

(* When the program has ended, nothing is left that it acquired, except     *)
(* perhaps the list of screens, which a failure to add the bindings leaves. *)
NothingKept ==
  stage = "exited" /\ fault = "none" =>
    held = {} \/ held = {"g_screens"}

(* Once venowm was told to stop, or has failed to start, it ends, whatever  *)
(* children and clients do, and although SIGCHLD may come at every step.    *)
EndsOnceStopped ==
  stage \in {"stopping", "cleanup"} ~>
    stage = "exited" \/ fault # "none" \/ halted
=============================================================================
