------------------------------ MODULE Surfaces ------------------------------
(***************************************************************************)
(* The life of a window between the client and the window manager: the     *)
(* wl_surface of the client, the be_window_t that backend.c hangs on it,   *)
(* the xdg_surface that gives it a role, and the window_t of window.c that *)
(* the workspace manages while the surface is mapped.  What the workspace  *)
(* does with a window is what Placement says.                              *)
(*                                                                         *)
(* The client is the environment: it makes, maps, unmaps and destroys its  *)
(* objects in any order that wlroots lets through, and may die at any      *)
(* time.  An object freed is an address that malloc() may return again.    *)
(***************************************************************************)
EXTENDS Queues

CONSTANTS
  Surface,      \* wl_surfaces of clients
  Window,       \* addresses of window_t objects
  NULL,
  MaxFailures   \* a bound of the model: how often malloc() may fail

ASSUME NullIsNoWindow == NULL \notin Window \cup Surface
ASSUME WindowIsFinite == IsFiniteSet(Window)
ASSUME FailuresAreBounded == MaxFailures \in Nat

VARIABLES
  role,         \* external: how far the client has come with a surface
  be_window,    \* whether wlr_surface->data points at a be_window_t
  venowm_data,  \* be_window->venowm_data, a window_t or NULL
  owner,        \* window->be_window of the window_t at an address, by its surface
  visible, waiting, keyboard,   \* the windows of the workspace, as in Placement
  failures,     \* how often malloc() has failed
  fault         \* what went wrong first, if anything

vars == <<role, be_window, venowm_data, owner, visible, waiting, keyboard,
          failures, fault>>

WM == INSTANCE Placement

managed == <<visible, waiting, keyboard>>

Managed == visible \cup Elems(waiting)

Roles == {"none",     \* no such surface
          "plain",    \* a wl_surface without a role
          "xdg",      \* with an xdg_surface that is not mapped
          "mapped"}

(* "exit": backend.c:822 gave up; "window": a window_t that is not there    *)
(* was destroyed; "be_window": a listener in a freed be_window_t was called.*)
Faults == {"none", "exit", "window", "be_window"}

Allocated == {w \in Window : owner[w] # NULL}

Init ==
  /\ role = [s \in Surface |-> "none"]
  /\ be_window = [s \in Surface |-> FALSE]
  /\ venowm_data = [s \in Surface |-> NULL]
  /\ owner = [w \in Window |-> NULL]
  /\ WM!Init
  /\ failures = 0 /\ fault = "none"

(* Whether an allocation succeeds is the environment's choice. *)
Malloc(ok) ==
  IF ok THEN UNCHANGED failures
  ELSE failures < MaxFailures /\ failures' = failures + 1

(* A mutation: the pointer to the be_window_t is overwritten by its data. *)
handle_new_surface_overwritten(s, ok) ==
  /\ role[s] = "none"
  /\ Malloc(ok)
  /\ role' = [role EXCEPT ![s] = "plain"]
  /\ be_window' = [be_window EXCEPT ![s] = NULL]
  /\ UNCHANGED <<venowm_data, owner, managed, fault>>

(* handle_new_surface() and be_window_new(). *)
handle_new_surface(s, ok) ==
  /\ role[s] = "none"
  /\ Malloc(ok)
  /\ role' = [role EXCEPT ![s] = "plain"]
  /\ be_window' = [be_window EXCEPT ![s] = ok]
  /\ venowm_data' = [venowm_data EXCEPT ![s] = NULL]
  /\ UNCHANGED <<owner, managed, fault>>

(* The client gives the surface a role.  Without a be_window_t venowm can   *)
(* only exit.                                                               *)
handle_xdg_shell_new(s) ==
  /\ role[s] = "plain"
  /\ role' = [role EXCEPT ![s] = "xdg"]
  /\ fault' = IF be_window[s] THEN fault ELSE "exit"
  /\ UNCHANGED <<be_window, venowm_data, owner, managed, failures>>

(* A mutation: the window_t is not stored for the unmap that will come. *)
handle_xdg_mapped_unhooked(s) ==
  /\ role[s] = "xdg"
  /\ role' = [role EXCEPT ![s] = "mapped"]
  /\ \E w \in Window \ Allocated, old \in visible \cup {NULL} :
       /\ owner' = [owner EXCEPT ![w] = s]
       /\ WM!Map(w, old)
  /\ UNCHANGED <<venowm_data, be_window, failures, fault>>

(* A mutation: a window is only made the first time. *)
handle_xdg_mapped_once(s) ==
  /\ role[s] = "xdg"
  /\ role' = [role EXCEPT ![s] = "mapped"]
  /\ IF venowm_data[s] # NULL THEN UNCHANGED <<owner, venowm_data, managed>>
     ELSE \E w \in Window \ Allocated, old \in visible \cup {NULL} :
            /\ owner' = [owner EXCEPT ![w] = s]
            /\ venowm_data' = [venowm_data EXCEPT ![s] = w]
            /\ WM!Map(w, old)
  /\ UNCHANGED <<be_window, failures, fault>>

(* handle_xdg_mapped(), handle_window_new() and workspace_add_window().     *)
(* Without memory for a window_t the client is asked to close, and          *)
(* venowm_data is left as it is.  Without memory in the workspace it is     *)
(* asked to close too, but its window_t stays behind venowm_data.           *)
handle_xdg_mapped(s) ==
  /\ role[s] = "xdg"
  /\ role' = [role EXCEPT ![s] = "mapped"]
  /\ \/ \E w \in Window \ Allocated, old \in visible \cup {NULL} :
          /\ owner' = [owner EXCEPT ![w] = s]
          /\ venowm_data' = [venowm_data EXCEPT ![s] = w]
          /\ WM!Map(w, old)
          /\ Malloc(TRUE)
     \/ \E w \in Window \ Allocated :
          /\ owner' = [owner EXCEPT ![w] = s]
          /\ venowm_data' = [venowm_data EXCEPT ![s] = w]
          /\ UNCHANGED managed
          /\ Malloc(FALSE)
     \/ /\ Malloc(FALSE)
        /\ UNCHANGED <<owner, venowm_data, managed>>
  /\ UNCHANGED <<be_window, fault>>

(* A mutation: the window_t is freed while the workspace still refers to it. *)
handle_window_destroy_unremoved(w) ==
  /\ owner' = [owner EXCEPT ![w] = NULL]
  /\ UNCHANGED <<managed, fault>>

(* handle_window_destroy() and workspace_remove_window(), which returns     *)
(* early for a window the workspace does not have, then free().  The        *)
(* address may be the one of a window_t that was freed before.              *)
handle_window_destroy(w) ==
  IF w \in Allocated
  THEN /\ owner' = [owner EXCEPT ![w] = NULL]
       /\ IF w \in Managed THEN WM!UnmapWaiting(w) \/ WM!UnmapVisible(w)
          ELSE UNCHANGED managed
       /\ UNCHANGED fault
  ELSE fault' = "window" /\ UNCHANGED <<owner, managed>>

(* The client unmaps the surface, or destroys its xdg_surface first of all. *)
(* venowm_data stays behind.                                                *)
handle_xdg_unmapped(s) ==
  /\ role[s] = "mapped"
  /\ role' = [role EXCEPT ![s] = "xdg"]
  /\ IF venowm_data[s] = NULL THEN UNCHANGED <<owner, managed, fault>>
     ELSE handle_window_destroy(venowm_data[s])
  /\ UNCHANGED <<be_window, venowm_data, failures>>

(* wlroots unmaps a surface before it destroys its xdg_surface.             *)
handle_xdg_destroyed(s) ==
  /\ role[s] = "xdg"
  /\ role' = [role EXCEPT ![s] = "plain"]
  /\ keyboard' = IF keyboard # NULL /\ owner[keyboard] = s THEN NULL ELSE keyboard
  /\ UNCHANGED <<be_window, venowm_data, owner, visible, waiting, failures, fault>>

(* The surface is destroyed, by the client or because the client died; the  *)
(* objects of a client that dies go in the order they were made, the        *)
(* surface before its xdg_surface.  The be_window_t is freed first, and     *)
(* then the listeners in it are called for the xdg_surface, if there is one.*)
handle_wlr_surface_destroyed(s) ==
  /\ role[s] # "none"
  /\ role' = [role EXCEPT ![s] = "none"]
  /\ be_window' = [be_window EXCEPT ![s] = FALSE]
  /\ fault' = IF role[s] = "plain" THEN fault ELSE "be_window"
  /\ UNCHANGED <<venowm_data, owner, managed, failures>>

(* The user and the outputs rearrange the windows. *)
rearrange ==
  /\ \/ \E old \in visible \cup {NULL} : WM!Advance(old) \/ WM!Retreat(old)
     \/ \E old \in visible : WM!Cover(old)
     \/ \E lost \in SUBSET visible : WM!Evict(lost)
     \/ WM!Uncover \/ WM!MoveKeyboard
  /\ UNCHANGED <<role, be_window, venowm_data, owner, failures, fault>>

Next ==
  /\ fault = "none"
  /\ \/ \E s \in Surface :
          \/ \E ok \in BOOLEAN : handle_new_surface(s, ok)
          \/ handle_xdg_shell_new(s) \/ handle_xdg_mapped(s)
          \/ handle_xdg_unmapped(s) \/ handle_xdg_destroyed(s)
          \/ handle_wlr_surface_destroyed(s)
     \/ rearrange

Spec == Init /\ [][Next]_vars

-----------------------------------------------------------------------------
TypeOK ==
  /\ role \in [Surface -> Roles]
  /\ be_window \in [Surface -> BOOLEAN]
  /\ venowm_data \in [Surface -> Window \cup {NULL}]
  /\ owner \in [Window -> Surface \cup {NULL}]
  /\ visible \subseteq Window /\ waiting \in Seq(Window)
  /\ keyboard \in Window \cup {NULL}
  /\ failures \in 0..MaxFailures /\ fault \in Faults

(* Every window the workspace shows or keeps waiting, and the one with the  *)
(* keyboard, is a window_t that exists, of a surface that is mapped and     *)
(* whose be_window_t exists: the focus follows these pointers down to the   *)
(* surface (backend.c:1114-1133).  The code: the workspace learns of the    *)
(* end of a surface only from venowm_data, at the unmap.                    *)
ManagedIsMapped ==
  fault = "none" =>
    \A w \in Managed \cup ({keyboard} \ {NULL}) :
      /\ w \in Allocated
      /\ role[owner[w]] = "mapped" /\ be_window[owner[w]]
      /\ venowm_data[owner[w]] = w

(* A window_t lives as long as the workspace refers to it, and is freed at  *)
(* the next unmap of its surface, so that it neither dangles nor leaks; it  *)
(* outlives its last reference only when the workspace had no memory for it *)
(* (window.c:34-35, workspace.c:186-201).                                   *)
FreedWithLastReference ==
  fault = "none" =>
    /\ Managed \subseteq Allocated
    /\ failures = 0 => Allocated = Managed
    /\ \A w \in Allocated :
         role[owner[w]] = "mapped" /\ venowm_data[owner[w]] = w

(* As long as no allocation has failed, every mapped surface has a window   *)
(* in the workspace, also when it was unmapped and mapped again.            *)
MappedIsManaged ==
  failures = 0 /\ fault = "none" =>
    \A s \in Surface : role[s] = "mapped" => venowm_data[s] \in Managed

(* backend.c:714: the handlers need not be removed when a be_window_t is    *)
(* freed; so none of them is called afterwards.                             *)
NoHandlerAfterFree == fault # "be_window"
=============================================================================
