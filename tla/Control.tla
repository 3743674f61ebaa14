------------------------------ MODULE Control -------------------------------
(***************************************************************************)
(* The control protocol: libvenowm.c in every client, venowm_control.c in  *)
(* the compositor, and the commands of main() in venowm.c, which are       *)
(* clients that make a few calls and exit.                                 *)
(*                                                                         *)
(* A client of libwayland buffers its requests; wl_display_roundtrip()     *)
(* sends them together with a request for an answer ("sync"), and reads    *)
(* events until that answer is there or the connection is lost.  Requests  *)
(* and events of one client arrive in the order they were sent.  To tell   *)
(* commands apart, a client numbers them from 1 as it issues them.         *)
(***************************************************************************)
EXTENDS Integers, Sequences, FiniteSets

CONSTANTS
  Client,
  Program,      \* what each client is: a word of main(), or a user of the library
  MaxCommands   \* a bound of the model: the commands that one client issues

(* The words that main() compares argv[1] with: each of the four directions *)
(* stands for the others, and "launch" comes with arguments.                *)
CommandWords == {"focus", "launch"}

ASSUME ProgramsAreKnown ==
  Program \in [Client -> {"library", "other word"} \cup CommandWords]

GetRegistry == [name |-> "get_registry", n |-> 0]
Sync        == [name |-> "sync", n |-> 0]

Commands == [name : CommandWords, n : Nat \ {0}]
Requests == Commands \cup {GetRegistry, Sync}
Events   == {"global", "global_remove", "done"}
Errors   == {"", "already connected", "failed to connect", "failed to sync",
             "unable to find venowm", "not connected yet", "global disappeared"}

VARIABLES
  v,          \* struct venowm of each client: connected, failed, errmsg
  doing,      \* the call a client is in, if any, or how it ended
  answered,   \* whether the round trip of that call has its answer
  ret,        \* what the last call returned, 1 before the first returned
  out,        \* external: requests buffered in the client
  wire,       \* external: requests sent and not yet handled
  events,     \* external: events sent and not yet read
  link,       \* external: the connection of each client
  server,     \* a venowm that runs, one that is gone, or another compositor
  executed,   \* the commands of each client that the compositor has executed
  issued,     \* history: how many commands it has issued,
  confirmed,  \*   how many of them when a flush last succeeded,
  reported    \*   and what errmsg() was last called with

history == <<issued, confirmed, reported>>
vars == <<v, doing, answered, ret, out, wire, events, link, server, executed,
          history>>

Init ==
  /\ v = [c \in Client |-> [connected |-> FALSE, failed |-> FALSE, errmsg |-> ""]]
  /\ doing = [c \in Client |-> "idle"]
  /\ answered = [c \in Client |-> FALSE]
  /\ ret = [c \in Client |-> 1]
  /\ out = [c \in Client |-> <<>>]
  /\ wire = [c \in Client |-> <<>>]
  /\ events = [c \in Client |-> <<>>]
  /\ link = [c \in Client |-> "none"]
  /\ server \in {"venowm", "other"}
  /\ executed = [c \in Client |-> <<>>]
  /\ issued = [c \in Client |-> 0]
  /\ confirmed = [c \in Client |-> 0]
  /\ reported = [c \in Client |-> ""]

-----------------------------------------------------------------------------
(* libvenowm.c.                                                             *)

(* A mutation: a later error replaces the first one. *)
errmsg_last(x, msg) == [x EXCEPT !.failed = TRUE, !.errmsg = msg]

errmsg(x, msg) ==
  IF x.failed THEN x ELSE [x EXCEPT !.failed = TRUE, !.errmsg = msg]

(* registry_handle_global_remove() compares with the global that was bound. *)
Disappears(x, event) == event = "global_remove" /\ x.connected

(* It, and registry_handle_global(). *)
HandleEvent(x, event) ==
  CASE event = "global" -> [x EXCEPT !.connected = TRUE]
    [] Disappears(x, event) -> errmsg(x, "global disappeared")
    [] OTHER -> x

(* What a client does when a call has returned: main() connects, makes one  *)
(* call and exits, and exits at the first error.                            *)
Afterwards(c, call, result) ==
  IF Program[c] = "library" THEN "idle"
  ELSE IF result = -1 THEN "exit1"
  ELSE IF call = "connect" THEN "idle" ELSE "exit0"

(* The call returns, with an error if x differs from v[c] or had one. *)
Return(c, call, x, result) ==
  /\ v' = [v EXCEPT ![c] = x]
  /\ ret' = [ret EXCEPT ![c] = result]
  /\ doing' = [doing EXCEPT ![c] = Afterwards(c, call, result)]

(* A mutation: what a call is made for overtakes what waits in the buffer. *)
roundtrip_ahead(c, call, requests) ==
  /\ doing' = [doing EXCEPT ![c] = call]
  /\ answered' = [answered EXCEPT ![c] = FALSE]
  /\ wire' = [wire EXCEPT ![c] = @ \o requests \o out[c] \o <<Sync>>]
  /\ out' = [out EXCEPT ![c] = <<>>]
  /\ UNCHANGED <<v, ret, events, reported>>

(* wl_display_roundtrip(), up to the point where it waits. *)
roundtrip(c, call, requests) ==
  /\ doing' = [doing EXCEPT ![c] = call]
  /\ answered' = [answered EXCEPT ![c] = FALSE]
  /\ wire' = [wire EXCEPT ![c] = @ \o out[c] \o requests \o <<Sync>>]
  /\ out' = [out EXCEPT ![c] = <<>>]
  /\ UNCHANGED <<v, ret, events, reported>>

(* A call reports an error and returns -1. *)
Fails(c, call, msg) ==
  /\ Return(c, call, errmsg(v[c], msg), -1)
  /\ reported' = [reported EXCEPT ![c] = msg]
  /\ UNCHANGED <<answered, out, wire, events, link, issued, confirmed>>

(* A client that has failed is refused every call. *)
Refused(c, call) ==
  /\ v[c].failed
  /\ Return(c, call, v[c], -1)
  /\ UNCHANGED <<answered, out, wire, events, link, history>>

Calls(c, programs) == doing[c] = "idle" /\ Program[c] \in programs

venowm_connect(c) ==
  /\ Calls(c, {"library"} \cup CommandWords)
  /\ Program[c] # "library" => ~v[c].connected
  /\ \/ Refused(c, "connect")
     \/ ~v[c].failed /\ v[c].connected /\ Fails(c, "connect", "already connected")
     \/ /\ ~v[c].failed /\ ~v[c].connected /\ server = "gone"
        /\ Fails(c, "connect", "failed to connect")
     \/ /\ ~v[c].failed /\ ~v[c].connected /\ server # "gone"
        /\ roundtrip(c, "connect", <<GetRegistry>>)
        /\ link' = [link EXCEPT ![c] = "up"]
        /\ UNCHANGED <<issued, confirmed>>
  /\ UNCHANGED <<server, executed>>

(* The checks that every other call begins with, *)
Ready(c) == ~v[c].failed /\ v[c].connected

(* and what happens otherwise. *)
NotReady(c) ==
  \/ Refused(c, "command")
  \/ ~v[c].failed /\ ~v[c].connected /\ Fails(c, "command", "not connected yet")

(* The next command of a client. *)
Command(c, name) == [name |-> name, n |-> issued[c] + 1]

venowm_flush(c) ==
  /\ Calls(c, {"library"})
  /\ IF ~Ready(c) THEN NotReady(c)
     ELSE roundtrip(c, "command", <<>>) /\ UNCHANGED <<link, issued, confirmed>>
  /\ UNCHANGED <<server, executed>>

(* A mutation: wl_display_flush() sends the request, and nobody waits. *)
do_venowm_command_unsynced(c, flush) ==
  /\ Calls(c, {"library"} \cup (CommandWords \ {"launch"}))
  /\ Program[c] # "library" => flush /\ v[c].connected
  /\ issued[c] < MaxCommands
  /\ IF ~Ready(c) THEN NotReady(c)
     ELSE /\ issued' = [issued EXCEPT ![c] = @ + 1]
          /\ IF flush
             THEN /\ wire' = [wire EXCEPT ![c] = @ \o out[c] \o <<Command(c, "focus")>>]
                  /\ out' = [out EXCEPT ![c] = <<>>]
                  /\ confirmed' = [confirmed EXCEPT ![c] = issued'[c]]
             ELSE /\ out' = [out EXCEPT ![c] = Append(@, Command(c, "focus"))]
                  /\ UNCHANGED <<wire, confirmed>>
          /\ Return(c, "command", v[c], 0)
          /\ UNCHANGED <<answered, events, link, reported>>
  /\ UNCHANGED <<server, executed>>

(* do_venowm_command(): without flush the request stays in the buffer. *)
do_venowm_command(c, flush) ==
  /\ Calls(c, {"library"} \cup (CommandWords \ {"launch"}))
  /\ Program[c] # "library" => flush /\ v[c].connected
  /\ issued[c] < MaxCommands
  /\ IF ~Ready(c) THEN NotReady(c)
     ELSE /\ issued' = [issued EXCEPT ![c] = @ + 1]
          /\ IF flush
             THEN roundtrip(c, "command", <<Command(c, "focus")>>)
             ELSE /\ out' = [out EXCEPT ![c] = Append(@, Command(c, "focus"))]
                  /\ Return(c, "command", v[c], 0)
                  /\ UNCHANGED <<answered, wire, events, reported>>
          /\ UNCHANGED <<link, confirmed>>
  /\ UNCHANGED <<server, executed>>

(* venowm_launch() always makes a round trip: its arguments must stay until *)
(* they are sent.  So it also sends what was to wait for a flush.           *)
venowm_launch(c) ==
  /\ Calls(c, {"library", "launch"})
  /\ Program[c] # "library" => v[c].connected
  /\ issued[c] < MaxCommands
  /\ IF ~Ready(c) THEN NotReady(c)
     ELSE /\ issued' = [issued EXCEPT ![c] = @ + 1]
          /\ roundtrip(c, "command", <<Command(c, "launch")>>)
          /\ UNCHANGED <<link, confirmed>>
  /\ UNCHANGED <<server, executed>>

Waits(c) == doing[c] \in {"connect", "command"}

(* A round trip handles the next event, and goes on to the ones that were   *)
(* read along with its answer.                                              *)
dispatch(c) ==
  /\ Waits(c) /\ events[c] # <<>>
  /\ v' = [v EXCEPT ![c] = HandleEvent(@, Head(events[c]))]
  /\ answered' = [answered EXCEPT ![c] = @ \/ Head(events[c]) = "done"]
  /\ events' = [events EXCEPT ![c] = Tail(@)]
  /\ reported' = IF Disappears(v[c], Head(events[c]))
                  THEN [reported EXCEPT ![c] = "global disappeared"] ELSE reported
  /\ UNCHANGED <<doing, ret, out, wire, link, server, executed, issued, confirmed>>

(* The round trip succeeds, and so does the call, unless venowm was not     *)
(* among the globals.                                                       *)
roundtrip_returns(c) ==
  /\ Waits(c) /\ answered[c]
  /\ IF v[c].connected
     THEN /\ Return(c, doing[c], v[c], 0)
          /\ confirmed' = [confirmed EXCEPT ![c] = issued[c]]
          /\ UNCHANGED <<answered, out, wire, events, link, issued, reported>>
     ELSE Fails(c, doing[c], "unable to find venowm")
  /\ UNCHANGED <<server, executed>>

(* A mutation: a round trip that fails is tried again. *)
roundtrip_retried(c) ==
  /\ Waits(c) /\ ~answered[c]
  /\ link[c] = "down" /\ events[c] = <<>>
  /\ UNCHANGED vars

(* The connection is lost, and nothing is left to read. *)
roundtrip_fails(c) ==
  /\ Waits(c) /\ ~answered[c]
  /\ link[c] = "down" /\ events[c] = <<>>
  /\ Fails(c, doing[c], "failed to sync")
  /\ UNCHANGED <<server, executed>>

(* The library disconnects; what is still in the buffer is never sent. *)
venowm_destroy(c) ==
  /\ Calls(c, {"library"})
  /\ doing' = [doing EXCEPT ![c] = "exit0"]
  /\ link' = [link EXCEPT ![c] = "none"]
  /\ out' = [out EXCEPT ![c] = <<>>]
  /\ wire' = [wire EXCEPT ![c] = <<>>]
  /\ UNCHANGED <<v, answered, ret, events, server, executed, history>>

(* main() prints its usage when it does not know the word. *)
usage(c) ==
  /\ Calls(c, {"other word"})
  /\ doing' = [doing EXCEPT ![c] = "exit1"]
  /\ UNCHANGED <<v, answered, ret, out, wire, events, link, server, executed, history>>

-----------------------------------------------------------------------------
(* venowm_control.c and the library under it.                               *)

Send(c, event) == events' = [events EXCEPT ![c] = Append(@, event)]

(* The compositor handles the next request of a client; the handlers of     *)
(* venowm_control.c move the focus, or start a process, at once.            *)
serve(c) ==
  /\ server # "gone" /\ link[c] = "up" /\ wire[c] # <<>>
  /\ wire' = [wire EXCEPT ![c] = Tail(@)]
  /\ LET request == Head(wire[c])
     IN  \/ /\ request = GetRegistry
            /\ IF server = "venowm" THEN Send(c, "global") ELSE UNCHANGED events
            /\ UNCHANGED executed
         \/ /\ request = Sync
            /\ Send(c, "done")
            /\ UNCHANGED executed
         \/ /\ request \in Commands
            /\ executed' = [executed EXCEPT ![c] = Append(@, request)]
            /\ UNCHANGED events
  /\ UNCHANGED <<v, doing, answered, ret, out, link, server, history>>

(* What is left to read for a client when venowm ends: the events of the    *)
(* last dispatch may never be sent, and the removal of the global may be.   *)
LastEvents(c) ==
  {SubSeq(events[c], 1, n) : n \in 0..Len(events[c])}
    \cup {Append(events[c], "global_remove") : up \in {link[c]} \cap {"up"}}

(* venowm ends: backend_free() destroys the global, and the connections     *)
(* close when the process is gone.                                          *)
backend_free ==
  /\ server = "venowm"
  /\ server' = "gone"
  /\ events' \in {e \in [Client -> UNION {LastEvents(c) : c \in Client}] :
                    \A c \in Client : e[c] \in LastEvents(c)}
  /\ link' = [c \in Client |-> IF link[c] = "up" THEN "down" ELSE link[c]]
  /\ UNCHANGED <<v, doing, answered, ret, out, wire, executed, history>>

-----------------------------------------------------------------------------
Next ==
  \/ \E c \in Client :
       \/ venowm_connect(c) \/ venowm_flush(c) \/ venowm_launch(c)
       \/ \E flush \in BOOLEAN : do_venowm_command(c, flush)
       \/ venowm_destroy(c) \/ usage(c)
       \/ dispatch(c) \/ roundtrip_returns(c) \/ roundtrip_fails(c)
       \/ serve(c)
  \/ backend_free

(* The compositor serves what it is sent while it runs, and a client in a   *)
(* round trip reads what it is sent.  Nobody has to make a call, and venowm *)
(* need not end.                                                            *)
Fairness ==
  \A c \in Client :
    /\ WF_vars(serve(c)) /\ WF_vars(dispatch(c))
    /\ WF_vars(roundtrip_returns(c)) /\ WF_vars(roundtrip_fails(c))

Spec == Init /\ [][Next]_vars /\ Fairness

-----------------------------------------------------------------------------
Numbers(q) == {q[i].n : i \in {j \in DOMAIN q : q[j] \in Commands}}

InOrder(q) ==
  \A i, j \in DOMAIN q : q[i] \in Commands /\ q[j] \in Commands /\ i < j => q[i].n < q[j].n

(* The commands of a client are executed once and in the order in which it  *)
(* issued them: what is executed, on the way and in the buffer is in that   *)
(* order, and while the client is connected, no command is missing there.   *)
(* The code: do_venowm_command() leaves a command in the buffer, and        *)
(* whichever call makes the next round trip sends it ahead of its own.      *)
NothingLost ==
  \A c \in Client :
    LET all == executed[c] \o wire[c] \o out[c]
    IN  InOrder(all) /\ (link[c] = "up" => Numbers(all) = 1..issued[c])

(* When a call that flushes has returned 0, the compositor has executed     *)
(* every command issued until then; so a venowm that was started with a     *)
(* command and exits with 0 had it executed.  The code: flushing is a round *)
(* trip, whose answer comes behind the commands.                            *)
SuccessMeansExecuted ==
  \A c \in Client :
    /\ 1..confirmed[c] \subseteq Numbers(executed[c])
    /\ doing[c] = "exit0" /\ Program[c] # "library" => Numbers(executed[c]) = {1}

(* The first error of a client is the one that venowm_errmsg() keeps        *)
(* telling, and a client that has failed issues no command any more.  The   *)
(* code: "don't overwrite the first error" (libvenowm.c:22), and an event   *)
(* that is handled inside a round trip may report one before the round trip *)
(* itself fails.  The header promises another error: see below.             *)
FirstErrorStays ==
  [][\A c \in Client : v[c].failed =>
       /\ v'[c].failed /\ v'[c].errmsg = v[c].errmsg
       /\ issued'[c] = issued[c]]_vars

(* What libvenowm.h:12 says of venowm_errmsg(): "return the last error      *)
(* message".  It does not: when the global disappears and the round trip    *)
(* that reads this then fails, the last error is dropped.                   *)
LastErrorIsTold ==
  \A c \in Client : reported[c] # "" => v[c].errmsg = reported[c]

(* Every call returns, whatever happens to the compositor meanwhile.  The   *)
(* code: each round trip is checked for a lost connection.                  *)
EveryCallReturns == \A c \in Client : Waits(c) ~> ~Waits(c)

=============================================================================
