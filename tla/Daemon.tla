------------------------------- MODULE Daemon -------------------------------
(***************************************************************************)
(* llamad's main() (src/src/main.cpp): daemons started on one socket path, *)
(* from prepare_socket_path to the removal of the socket, with signals,    *)
(* crashes, restarts and system calls that are refused.  The file system   *)
(* and gRPC's server are external: bind never replaces a file, a listener  *)
(* lives until Shutdown closes it or its process dies, and Wait returns    *)
(* once no handler runs.  What happens before and during the load is in    *)
(* Startup.                                                                *)
(***************************************************************************)
EXTENDS Naturals

CONSTANTS
  Daemons,      \* processes that use the path, each started again and again
  Nobody,       \* no process made what is at the path
  MaxHandlers   \* bound on the calls a daemon serves at once

ASSUME DaemonsTyped == Nobody \notin Daemons /\ MaxHandlers \in Nat \ {0}

VARIABLES
  pc,         \* where each process is in main(); "off" is not running
  path,       \* what is at the socket path
  listening,  \* the process has an open listener
  engine,     \* the process has a loaded model
  signalled,  \* SIGINT or SIGTERM is pending or taken
  handlers,   \* calls being served
  code,       \* how the latest run ended: main()'s result, "killed", or "denied"
              \* if an outside reason made a system call fail
  alone,      \* history: no other daemon ran since this one started
  elders      \* history: who has been listening since before this one started

vars == <<pc, path, listening, engine, signalled, handlers, code, alone, elders>>
state == <<listening, engine, signalled, handlers, code, alone, elders>>

Nothing   == [kind |-> "none", by |-> Nobody]
Socket(d) == [kind |-> "socket", by |-> d]
File      == [kind |-> "file", by |-> Nobody]

Init ==
  /\ pc = [d \in Daemons |-> "off"]
  /\ path \in {Nothing, Socket(Nobody), File}
  /\ listening = [d \in Daemons |-> FALSE]
  /\ engine = [d \in Daemons |-> FALSE]
  /\ signalled = [d \in Daemons |-> FALSE]
  /\ handlers = [d \in Daemons |-> 0]
  /\ code = [d \in Daemons |-> "none"]
  /\ alone = [d \in Daemons |-> FALSE]
  /\ elders = [d \in Daemons |-> {}]

Goto(d, from, to) == pc[d] = from /\ pc' = [pc EXCEPT ![d] = to]

\* d listens no longer, and is nobody's elder from here on.
Hush(d) ==
  /\ listening' = [listening EXCEPT ![d] = FALSE]
  /\ elders' = [e \in Daemons |-> elders[e] \ {d}]

\* The process ends, and everything of it but what is at the path with it.
Exit(d, result) ==
  /\ pc' = [pc EXCEPT ![d] = "off"]
  /\ Hush(d)
  /\ engine' = [engine EXCEPT ![d] = FALSE]
  /\ signalled' = [signalled EXCEPT ![d] = FALSE]
  /\ handlers' = [handlers EXCEPT ![d] = 0]
  /\ code' = [code EXCEPT ![d] = result]
  /\ UNCHANGED alone

-----------------------------------------------------------------------------
(* Startup *)

Start(d) ==
  /\ Goto(d, "off", "mask")
  /\ alone' = [e \in Daemons |-> IF e = d THEN \A o \in Daemons : pc[o] = "off"
                                 ELSE alone[e] /\ pc[e] = "off"]
  /\ elders' = [elders EXCEPT ![d] = {e \in Daemons : listening[e]}]
  /\ UNCHANGED <<path, listening, engine, signalled, handlers, code>>

\* The signals are blocked before any thread is made: from here on they wait.
Mask(d) == Goto(d, "mask", "stat") /\ UNCHANGED <<path, state>>

\* Blocking the signals, a path too long for an address, the lstat or the unlink.
Denied(d) == pc[d] \in {"mask", "stat", "unlink"} /\ Exit(d, "denied") /\ UNCHANGED path

NotOurs == path.kind = "file"

\* prepare_socket_path's lstat: nothing there, a socket, or no business of ours.
Stat(d) ==
  \/ /\ ~NotOurs
     /\ Goto(d, "stat", IF path.kind = "none" THEN "load" ELSE "probe")
     /\ UNCHANGED <<path, state>>
  \/ NotOurs /\ pc[d] = "stat" /\ Exit(d, "1") /\ UNCHANGED path

socket_is_live == path.kind = "socket" /\ path.by # Nobody /\ listening[path.by]

\* Seeded fault: a socket is stale unless its daemon is at work on a call.
InUse_busy == socket_is_live /\ handlers[path.by] > 0

\* Seeded fault: a socket that nobody answers on is left for bind to trip over.
InUse_always == TRUE

InUse == socket_is_live

\* Someone answers: leave it to them.  Without a socket of its own to connect
\* with, the probe takes anyone for dead, and no elder is safe.
Probe(d) ==
  \/ InUse /\ pc[d] = "probe" /\ Exit(d, "1") /\ UNCHANGED path
  \/ ~InUse /\ Goto(d, "probe", "unlink") /\ UNCHANGED <<path, state>>
  \/ /\ Goto(d, "probe", "unlink")
     /\ elders' = [elders EXCEPT ![d] = {}]
     /\ UNCHANGED <<path, listening, engine, signalled, handlers, code, alone>>

\* unlink(2) takes what is at the path now; it fails if there is nothing.
Unlink(d) ==
  \/ path.kind # "none" /\ Goto(d, "unlink", "load") /\ path' = Nothing /\ UNCHANGED state
  \/ path.kind = "none" /\ pc[d] = "unlink" /\ Exit(d, "1") /\ UNCHANGED path

\* Seeded fault: a signal during the load is lost.
Pending_not(d) == signalled' = [signalled EXCEPT ![d] = FALSE]

\* A blocked signal stays pending.
Pending(d) == UNCHANGED signalled

Load(d) ==
  /\ Goto(d, "load", "bind")
  /\ engine' = [engine EXCEPT ![d] = TRUE]
  /\ Pending(d)
  /\ UNCHANGED <<path, listening, handlers, code, alone, elders>>

LoadFails(d) == pc[d] = "load" /\ Exit(d, "1") /\ UNCHANGED path

\* Seeded fault: the path is cleared once more, after the bind.
Bound_then_cleared(d) == Nothing

Bound(d) == Socket(d)

\* BuildAndStart creates the socket, or returns no server: on a free path too, since
\* the lstat takes a directory that is missing for nothing in the way.
Bind(d) ==
  \/ /\ path.kind # "file"
     /\ Goto(d, "bind", "serve")
     /\ path' = Bound(d)
     /\ listening' = [listening EXCEPT ![d] = TRUE]
     /\ UNCHANGED <<engine, signalled, handlers, code, alone, elders>>
  \/ pc[d] = "bind" /\ Exit(d, "1") /\ UNCHANGED path

-----------------------------------------------------------------------------
(* Serving and stopping *)

\* A client connects through the path.
Accept(d) ==
  /\ path = Socket(d) /\ listening[d] /\ handlers[d] < MaxHandlers
  /\ handlers' = [handlers EXCEPT ![d] = @ + 1]
  /\ UNCHANGED <<pc, path, listening, engine, signalled, code, alone, elders>>

\* A handler returns; after Shutdown's deadline because it was cancelled.
Return(d) ==
  /\ handlers[d] > 0
  /\ handlers' = [handlers EXCEPT ![d] = @ - 1]
  /\ UNCHANGED <<pc, path, listening, engine, signalled, code, alone, elders>>

\* One that comes before the signals are blocked kills the process.
Signal(d) ==
  /\ pc[d] \notin {"off", "mask"} /\ ~signalled[d]
  /\ signalled' = [signalled EXCEPT ![d] = TRUE]
  /\ UNCHANGED <<pc, path, listening, engine, handlers, code, alone, elders>>

\* The sigwait thread closes the listener; a signal that came during the load
\* is still pending.
Shutdown(d) ==
  /\ signalled[d]
  /\ Goto(d, "serve", "drain")
  /\ Hush(d)
  /\ UNCHANGED <<path, engine, signalled, handlers, code, alone>>

\* Seeded fault: main() does not wait for the handlers, and the engine goes.
Drained_at_once(d) == engine' = [engine EXCEPT ![d] = FALSE]

Drained(d) == handlers[d] = 0 /\ UNCHANGED engine

\* server->Wait() and the join.
Wait(d) ==
  /\ Goto(d, "drain", "check")
  /\ Drained(d)
  /\ UNCHANGED <<path, listening, signalled, handlers, code, alone, elders>>

\* The lstat before the last unlink.
Check(d) ==
  \/ path.kind = "socket" /\ Goto(d, "check", "remove") /\ UNCHANGED <<path, state>>
  \/ path.kind # "socket" /\ pc[d] = "check" /\ Exit(d, "0") /\ UNCHANGED path

\* Seeded fault: the socket is left behind.
Removed_not == UNCHANGED path

Removed == path' = Nothing

\* Nobody looks at the last unlink's result.
Remove(d) ==
  /\ pc[d] = "remove"
  /\ \/ Exit(d, "0") /\ Removed
     \/ Exit(d, "denied") /\ UNCHANGED path

\* SIGKILL or a crash: the socket stays.
Crash(d) == pc[d] # "off" /\ Exit(d, "killed") /\ UNCHANGED path

Main(d) ==
  \/ Mask(d) \/ Stat(d) \/ Probe(d) \/ Unlink(d) \/ Denied(d) \/ Load(d) \/ LoadFails(d)
  \/ Bind(d) \/ Shutdown(d) \/ Wait(d) \/ Check(d) \/ Remove(d)

Next == \E d \in Daemons : Start(d) \/ Main(d) \/ Accept(d) \/ Return(d) \/ Signal(d) \/ Crash(d)

\* main() runs on, and a handler returns: its generation ends or is cancelled.
\* Nothing makes a user start, signal or kill a daemon.
Fairness == \A d \in Daemons : WF_vars(Main(d)) /\ WF_vars(Return(d))

Spec == Init /\ [][Next]_vars
FairSpec == Spec /\ Fairness

-----------------------------------------------------------------------------
(* Properties *)

\* "a client that can connect is a client that can generate": whoever can
\* connect, or is being served, has a loaded model behind it, from the first
\* connection to the last handler of a shutdown.
ReadyWhenReachable ==
  \A d \in Daemons : listening[d] \/ handlers[d] > 0 => engine[d]

\* A daemon that has had the path to itself is reachable as long as it serves,
\* whatever earlier runs and crashes left at the path.
ServingIsReachable ==
  \A d \in Daemons : pc[d] = "serve" /\ alone[d] => path = Socket(d) /\ listening[d]

\* With the path to itself, a daemon gives up only on a file in its way or, with the
\* path cleared, on a model that does not load or a listener that cannot be made:
\* whatever socket earlier runs left there is no obstacle.
StaleIsNoObstacle ==
  [][\A d \in Daemons : pc[d] # "off" /\ alone[d] /\ pc'[d] = "off" /\ code'[d] = "1" =>
       path.kind = "file" \/ (path.kind = "none" /\ pc[d] \in {"load", "bind"})]_vars

\* "another llamad is already listening": probing and unlinking are two steps, and
\* daemons that start together can take each other's socket, but no step of one
\* that could probe takes the path from a daemon that was listening before it started.
LateComerYields ==
  [][\A d, e \in Daemons : path = Socket(e) /\ e \in elders[d] /\ pc'[d] # pc[d] => path' = path]_vars

\* "SIGINT or SIGTERM stops the daemon and removes the socket" (daemon.md:24): only
\* a daemon that was killed, or denied the removal, leaves its socket behind.
NoSocketLeftBehind ==
  \A d \in Daemons : pc[d] = "off" /\ code[d] \notin {"killed", "denied"} => path # Socket(d)

\* A signal stops the daemon whenever it comes, during the load included.
SignalStops == \A d \in Daemons : signalled[d] ~> pc[d] = "off"

\* "Only remove the socket if it is still the one we created" (main.cpp:280): the
\* check that decides to remove the socket has seen the daemon's own.
RemovesOnlyItsOwn ==
  [][\A d \in Daemons : pc[d] = "check" /\ pc'[d] = "remove" => path = Socket(d)]_vars
=============================================================================
