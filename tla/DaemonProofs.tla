---------------------------- MODULE DaemonProofs ----------------------------
(***************************************************************************)
(* Theorems about Daemon, for any number of daemons that share a path and  *)
(* any number of calls they serve.                                         *)
(***************************************************************************)
EXTENDS Daemon, TLAPS

PCs == {"off", "mask", "stat", "probe", "unlink", "load", "bind", "serve", "drain", "check", "remove"}
Codes == {"none", "0", "1", "denied", "killed"}
Paths == {Nothing, File, Socket(Nobody)} \cup {Socket(d) : d \in Daemons}

\* Every variable has its type.
TypeOK ==
  /\ pc \in [Daemons -> PCs]
  /\ path \in Paths
  /\ listening \in [Daemons -> BOOLEAN]
  /\ engine \in [Daemons -> BOOLEAN]
  /\ signalled \in [Daemons -> BOOLEAN]
  /\ handlers \in [Daemons -> Nat]
  /\ code \in [Daemons -> Codes]
  /\ alone \in [Daemons -> BOOLEAN]
  /\ elders \in [Daemons -> SUBSET Daemons]

\* A daemon listens while it serves, calls outlive that only while they are waited
\* for, and the model is there from before the bind to the end of the process.
ServingInv ==
  \A d \in Daemons :
    /\ listening[d] <=> pc[d] = "serve"
    /\ pc[d] \in {"bind", "serve", "drain", "check", "remove"} => engine[d]
    /\ handlers[d] > 0 => pc[d] \in {"serve", "drain"}

\* Who makes no socket has none at the path, but for one a killed run left.
OwnSocketInv ==
  \A d \in Daemons :
    /\ pc[d] \in {"load", "bind"} => path # Socket(d)
    /\ pc[d] = "off" /\ code[d] \notin {"killed", "denied"} => path # Socket(d)

\* What a daemon that runs alone finds at the path on its way to serving.
AloneInv ==
  \A d \in Daemons : alone[d] /\ pc[d] # "off" =>
    /\ \A o \in Daemons : o # d => pc[o] = "off"
    /\ pc[d] \in {"probe", "unlink"} => path.kind = "socket"
    /\ pc[d] \in {"load", "bind"} => path = Nothing
    /\ pc[d] = "serve" => path = Socket(d)

\* An elder listens, and is not at the path of a daemon that got past its probe.
EldersInv ==
  \A d \in Daemons : \A e \in elders[d] :
    /\ e # d /\ listening[e]
    /\ pc[d] \notin {"off", "mask", "stat", "probe"} => path # Socket(e)

IInv == TypeOK /\ ServingInv /\ OwnSocketInv /\ AloneInv /\ EldersInv

-----------------------------------------------------------------------------
(* What can be at the path *)

\* Sockets differ by who made them, and from a file and from nothing.
LEMMA PathKinds ==
  /\ Nothing.kind = "none" /\ File.kind = "file"
  /\ \A d : Socket(d).kind = "socket" /\ Socket(d).by = d
  /\ \A d, e : Socket(d) = Socket(e) => d = e
  /\ \A d : Socket(d) # Nothing /\ Socket(d) # File
BY DEF Nothing, File, Socket

\* What is at the path is nothing, a file or somebody's socket.
LEMMA PathCases ==
  ASSUME TypeOK
  PROVE  /\ path.kind \in {"none", "file", "socket"}
         /\ path.kind = "none" <=> path = Nothing
         /\ path.kind = "file" <=> path = File
         /\ \A d \in Daemons : path = Socket(d) <=> path.kind = "socket" /\ path.by = d
         /\ path.kind = "socket" => path.by \in Daemons \cup {Nobody}
BY PathKinds DEF TypeOK, Paths, Nothing, File, Socket

-----------------------------------------------------------------------------
(* Every action keeps the invariant *)

\* A machine on which no daemon has run yet.
LEMMA InitEstablishes == Init => IInv
<1> SUFFICES ASSUME Init PROVE IInv
  OBVIOUS
<1>1. TypeOK
  BY DEF Init, TypeOK, PCs, Codes, Paths
<1>2. ServingInv /\ AloneInv /\ EldersInv
  BY DEF Init, ServingInv, AloneInv, EldersInv
<1>3. OwnSocketInv
  BY PathKinds, DaemonsTyped DEF Init, OwnSocketInv
<1> QED BY <1>1, <1>2, <1>3 DEF IInv

\* A process may end at any point, if it leaves no socket of its own or had no choice.
LEMMA ExitKeepsInvariant ==
  ASSUME IInv, NEW d \in Daemons, NEW result \in Codes, Exit(d, result), path' \in {path, Nothing},
         result \in {"killed", "denied"} \/ path' # Socket(d),
         path' = path \/ pc[d] = "remove"
  PROVE  IInv'
<1> USE DEF Exit, Hush
<1>1. TypeOK'
  BY DEF IInv, TypeOK, PCs, Paths
<1>2. ServingInv'
  BY DEF IInv, TypeOK, ServingInv
<1>3. OwnSocketInv'
  BY PathKinds DEF IInv, TypeOK, OwnSocketInv
<1>4. AloneInv'
  BY DEF IInv, TypeOK, AloneInv
<1>5. EldersInv'
  BY PathKinds DEF IInv, TypeOK, EldersInv
<1> QED BY <1>1, <1>2, <1>3, <1>4, <1>5 DEF IInv

\* A daemon starts: whoever ran alone does so no longer, whoever listens is its elder.
LEMMA StartKeepsInvariant ==
  ASSUME IInv, NEW d \in Daemons, Start(d)
  PROVE  IInv'
<1> USE DEF Start, Goto
<1>1. TypeOK'
  BY DEF IInv, TypeOK, PCs
<1>2. ServingInv'
  BY DEF IInv, TypeOK, ServingInv
<1>3. OwnSocketInv'
  BY DEF IInv, TypeOK, OwnSocketInv
<1>4. AloneInv'
  BY DEF IInv, TypeOK, AloneInv
<1>5. EldersInv'
  BY DEF IInv, TypeOK, EldersInv, ServingInv
<1> QED BY <1>1, <1>2, <1>3, <1>4, <1>5 DEF IInv

\* The steps up to the load that leave the path as it is.
LEMMA LookKeepsInvariant ==
  ASSUME IInv, NEW d \in Daemons, NEW from, NEW to, Goto(d, from, to), UNCHANGED <<path, state>>,
         \/ from = "mask" /\ to = "stat"
         \/ from = "stat" /\ to = "load" /\ path.kind = "none"
         \/ from = "stat" /\ to = "probe" /\ path.kind = "socket"
         \/ from = "probe" /\ to = "unlink" /\ ~InUse
         \/ from = "check" /\ to = "remove"
  PROVE  IInv'
<1> USE DEF Goto, state
<1>1. TypeOK'
  BY DEF IInv, TypeOK, PCs
<1>2. ServingInv'
  BY DEF IInv, TypeOK, ServingInv
<1>3. OwnSocketInv'
  BY PathKinds DEF IInv, TypeOK, OwnSocketInv
<1>4. AloneInv'
  BY PathCases DEF IInv, TypeOK, AloneInv
<1>5. EldersInv'
  <2> SUFFICES ASSUME NEW a \in Daemons, NEW e \in elders[a]
               PROVE  /\ e # a /\ listening[e]
                      /\ pc'[a] \notin {"off", "mask", "stat", "probe"} => path # Socket(e)
    BY DEF EldersInv
  <2>1. e \in Daemons /\ e # a /\ listening[e] /\ pc \in [Daemons -> PCs]
    BY DEF IInv, TypeOK, EldersInv
  <2>2. CASE a # d
    BY <2>1, <2>2 DEF IInv, EldersInv
  <2>3. CASE a = d /\ from = "probe"
    BY <2>1, <2>3, PathKinds, DaemonsTyped DEF InUse, socket_is_live
  <2>4. CASE a = d /\ from # "probe"
    BY <2>1, <2>4, PathKinds DEF IInv, EldersInv
  <2> QED BY <2>2, <2>3, <2>4
<1> QED BY <1>1, <1>2, <1>3, <1>4, <1>5 DEF IInv

\* A probe without a socket to connect with goes on, and is safe for no elder.
LEMMA BlindProbeKeepsInvariant ==
  ASSUME IInv, NEW d \in Daemons, Goto(d, "probe", "unlink"),
         elders' = [elders EXCEPT ![d] = {}],
         UNCHANGED <<path, listening, engine, signalled, handlers, code, alone>>
  PROVE  IInv'
<1> USE DEF Goto
<1>1. TypeOK'
  BY DEF IInv, TypeOK, PCs
<1>2. ServingInv' /\ OwnSocketInv'
  BY DEF IInv, TypeOK, ServingInv, OwnSocketInv
<1>3. AloneInv' /\ EldersInv'
  BY DEF IInv, TypeOK, AloneInv, EldersInv
<1> QED BY <1>1, <1>2, <1>3 DEF IInv

\* The unlink of whatever is at the path: nobody's socket is there any more.
LEMMA UnlinkKeepsInvariant ==
  ASSUME IInv, NEW d \in Daemons, Goto(d, "unlink", "load"), path' = Nothing, UNCHANGED state
  PROVE  IInv'
<1> USE DEF Goto, state
<1>1. TypeOK'
  BY DEF IInv, TypeOK, PCs, Paths
<1>2. ServingInv' /\ OwnSocketInv'
  BY PathKinds DEF IInv, TypeOK, ServingInv, OwnSocketInv
<1>3. AloneInv' /\ EldersInv'
  BY PathKinds DEF IInv, TypeOK, AloneInv, EldersInv
<1> QED BY <1>1, <1>2, <1>3 DEF IInv

\* The model is loaded before there is anything to connect to.
LEMMA LoadKeepsInvariant ==
  ASSUME IInv, NEW d \in Daemons, Load(d)
  PROVE  IInv'
<1> USE DEF Load, Goto, Pending
<1>1. TypeOK'
  BY DEF IInv, TypeOK, PCs
<1>2. ServingInv' /\ OwnSocketInv'
  BY DEF IInv, TypeOK, ServingInv, OwnSocketInv
<1>3. AloneInv' /\ EldersInv'
  BY DEF IInv, TypeOK, AloneInv, EldersInv
<1> QED BY <1>1, <1>2, <1>3 DEF IInv

\* A bind may replace the socket of a daemon that started at the same time, but of no
\* elder: an elder's was not there any more when the path was probed.
LEMMA BindKeepsInvariant ==
  ASSUME IInv, NEW d \in Daemons, Goto(d, "bind", "serve"), path' = Bound(d),
         listening' = [listening EXCEPT ![d] = TRUE],
         UNCHANGED <<engine, signalled, handlers, code, alone, elders>>
  PROVE  IInv'
<1> USE DEF Goto, Bound
<1>1. TypeOK'
  BY DEF IInv, TypeOK, PCs, Paths
<1>2. ServingInv'
  BY DEF IInv, TypeOK, ServingInv
<1>3. OwnSocketInv'
  BY PathKinds DEF IInv, TypeOK, OwnSocketInv
<1>4. AloneInv'
  BY PathKinds DEF IInv, TypeOK, AloneInv
<1>5. EldersInv'
  BY PathKinds DEF IInv, TypeOK, EldersInv, ServingInv
<1> QED BY <1>1, <1>2, <1>3, <1>4, <1>5 DEF IInv

\* Clients come and go, and signals are taken note of.
LEMMA ClientKeepsInvariant ==
  ASSUME IInv, NEW d \in Daemons, Accept(d) \/ Return(d) \/ Signal(d)
  PROVE  IInv'
<1> USE DEF Accept, Return, Signal
<1>1. TypeOK'
  <2>1. handlers' \in [Daemons -> Nat]
    <3>1. handlers \in [Daemons -> Nat] /\ handlers[d] \in Nat
      BY DEF IInv, TypeOK
    <3>2. \E n \in Nat : handlers' = [handlers EXCEPT ![d] = n]
      BY <3>1
    <3> QED BY <3>1, <3>2
  <2>2. signalled' \in [Daemons -> BOOLEAN]
    BY DEF IInv, TypeOK
  <2> QED BY <2>1, <2>2 DEF IInv, TypeOK
<1>2. ServingInv'
  BY DEF IInv, TypeOK, ServingInv
<1>3. OwnSocketInv' /\ AloneInv' /\ EldersInv'
  BY DEF IInv, OwnSocketInv, AloneInv, EldersInv
<1> QED BY <1>1, <1>2, <1>3 DEF IInv

\* The listener is closed first, and the calls that are left are waited for.
LEMMA ShutdownKeepsInvariant ==
  ASSUME IInv, NEW d \in Daemons, Shutdown(d) \/ Wait(d)
  PROVE  IInv'
<1> USE DEF Shutdown, Wait, Goto, Hush, Drained
<1>1. TypeOK'
  <2>1. pc' \in [Daemons -> PCs] /\ elders' \in [Daemons -> SUBSET Daemons]
    BY DEF IInv, TypeOK, PCs
  <2> QED BY <2>1 DEF IInv, TypeOK
<1>2. ServingInv'
  BY DEF IInv, TypeOK, ServingInv
<1>3. OwnSocketInv' /\ AloneInv'
  BY DEF IInv, TypeOK, OwnSocketInv, AloneInv
<1>4. EldersInv'
  BY DEF IInv, TypeOK, EldersInv
<1> QED BY <1>1, <1>2, <1>3, <1>4 DEF IInv

\* A daemon that answers at the path is not the one that probes it.
LEMMA LiveIsAnother ==
  ASSUME IInv, NEW d \in Daemons, pc[d] = "probe", InUse
  PROVE  path.by \in Daemons /\ path.by # d /\ listening[path.by]
BY PathCases DEF IInv, ServingInv, InUse, socket_is_live

\* Every way main() ends by itself, and what may be at the path then.
LEMMA GiveUpKeepsInvariant ==
  ASSUME IInv, NEW d \in Daemons, UNCHANGED path,
         \/ Denied(d) \/ LoadFails(d) \/ Crash(d)
         \/ NotOurs /\ pc[d] = "stat" /\ Exit(d, "1")
         \/ InUse /\ pc[d] = "probe" /\ Exit(d, "1")
         \/ path.kind = "none" /\ pc[d] = "unlink" /\ Exit(d, "1")
         \/ pc[d] = "bind" /\ Exit(d, "1")
         \/ path.kind # "socket" /\ pc[d] = "check" /\ Exit(d, "0")
         \/ pc[d] = "remove" /\ Exit(d, "denied")
  PROVE  IInv'
<1>1. InUse /\ pc[d] = "probe" => path # Socket(d)
  BY LiveIsAnother, PathKinds
<1>2. PICK result \in Codes : /\ Exit(d, result)
                              /\ result \in {"killed", "denied"} \/ path # Socket(d)
  BY <1>1, PathKinds DEF IInv, OwnSocketInv, Denied, LoadFails, Crash, NotOurs, Codes
<1> QED BY <1>2, ExitKeepsInvariant

\* The invariant is inductive: no step of any daemon, client or user breaks it.
LEMMA NextKeepsInvariant == IInv /\ [Next]_vars => IInv'
<1> SUFFICES ASSUME IInv, [Next]_vars PROVE IInv'
  OBVIOUS
<1>1. CASE UNCHANGED vars
  BY <1>1 DEF vars, IInv, TypeOK, ServingInv, OwnSocketInv, AloneInv, EldersInv
<1>2. ASSUME NEW d \in Daemons, Start(d) PROVE IInv'
  BY <1>2, StartKeepsInvariant
<1>3. ASSUME NEW d \in Daemons, Accept(d) \/ Return(d) \/ Signal(d) PROVE IInv'
  BY <1>3, ClientKeepsInvariant
<1>4. ASSUME NEW d \in Daemons, Denied(d) \/ LoadFails(d) \/ Crash(d) PROVE IInv'
  BY <1>4, GiveUpKeepsInvariant DEF Denied, LoadFails, Crash
<1>5. ASSUME NEW d \in Daemons, Mask(d) PROVE IInv'
  BY <1>5, LookKeepsInvariant DEF Mask
<1>6. ASSUME NEW d \in Daemons, Stat(d) PROVE IInv'
  BY <1>6, LookKeepsInvariant, GiveUpKeepsInvariant, PathCases DEF Stat, NotOurs, IInv
<1>7. ASSUME NEW d \in Daemons, Probe(d) PROVE IInv'
  BY <1>7, LookKeepsInvariant, GiveUpKeepsInvariant, BlindProbeKeepsInvariant DEF Probe
<1>8. ASSUME NEW d \in Daemons, Unlink(d) PROVE IInv'
  BY <1>8, UnlinkKeepsInvariant, GiveUpKeepsInvariant DEF Unlink
<1>9. ASSUME NEW d \in Daemons, Load(d) PROVE IInv'
  BY <1>9, LoadKeepsInvariant
<1>10. ASSUME NEW d \in Daemons, Bind(d) PROVE IInv'
  BY <1>10, BindKeepsInvariant, GiveUpKeepsInvariant DEF Bind
<1>11. ASSUME NEW d \in Daemons, Shutdown(d) \/ Wait(d) PROVE IInv'
  BY <1>11, ShutdownKeepsInvariant
<1>12. ASSUME NEW d \in Daemons, Check(d) PROVE IInv'
  BY <1>12, LookKeepsInvariant, GiveUpKeepsInvariant DEF Check
<1>13. ASSUME NEW d \in Daemons, Remove(d) PROVE IInv'
  <2>1. CASE Exit(d, "0") /\ Removed
    <3>1. path' = Nothing /\ path' # Socket(d) /\ pc[d] = "remove" /\ "0" \in Codes
      BY <1>13, <2>1, PathKinds DEF Remove, Removed, Codes
    <3> QED BY <2>1, <3>1, ExitKeepsInvariant
  <2>2. CASE Exit(d, "denied") /\ UNCHANGED path
    BY <1>13, <2>2, GiveUpKeepsInvariant DEF Remove
  <2> QED BY <1>13, <2>1, <2>2 DEF Remove
<1> QED BY <1>1, <1>2, <1>3, <1>4, <1>5, <1>6, <1>7, <1>8, <1>9, <1>10, <1>11, <1>12, <1>13 DEF Next, Main

\* The inductive invariant holds throughout, however many daemons are started, stopped
\* and killed on the path.
THEOREM Invariance == Spec => []IInv
BY InitEstablishes, NextKeepsInvariant, PTL DEF Spec

-----------------------------------------------------------------------------
(* What a daemon guarantees *)

\* Whoever can connect, or is being served, has a loaded model behind it.
THEOREM ReachableIsReady == Spec => []ReadyWhenReachable
<1>1. IInv => ReadyWhenReachable
  BY DEF IInv, ServingInv, ReadyWhenReachable
<1> QED BY <1>1, Invariance, PTL

\* A daemon that has had the path to itself can be reached as long as it serves.
THEOREM AloneIsReachable == Spec => []ServingIsReachable
<1>1. IInv => ServingIsReachable
  BY DEF IInv, ServingInv, AloneInv, ServingIsReachable
<1> QED BY <1>1, Invariance, PTL

\* A daemon that was neither killed nor denied the removal leaves no socket behind.
THEOREM SocketRemoved == Spec => []NoSocketLeftBehind
<1>1. IInv => NoSocketLeftBehind
  BY DEF IInv, OwnSocketInv, NoSocketLeftBehind
<1> QED BY <1>1, Invariance, PTL

-----------------------------------------------------------------------------
(* What a step of a daemon may not do *)

\* A step moves one daemon only.
LEMMA OneMoves ==
  ASSUME IInv, [Next]_vars, NEW d \in Daemons, pc'[d] # pc[d]
  PROVE  Start(d) \/ Main(d) \/ Crash(d)
<1> USE DEF IInv, TypeOK
<1>1. CASE UNCHANGED vars
  BY <1>1 DEF vars
<1>2. ASSUME NEW e \in Daemons, e # d, Start(e) \/ Main(e) \/ Crash(e) PROVE FALSE
  BY <1>2 DEF Start, Main, Crash, Mask, Stat, Probe, Unlink, Denied, Load, LoadFails, Bind, Shutdown,
     Wait, Check, Remove, Goto, Exit
<1>3. ASSUME NEW e \in Daemons, Accept(e) \/ Return(e) \/ Signal(e) PROVE FALSE
  BY <1>3 DEF Accept, Return, Signal
<1> QED BY <1>1, <1>2, <1>3 DEF Next

\* With the path to itself, a daemon gives up only on a file in its way or, with the path
\* cleared of whatever earlier runs left there, on a model that does not load or a
\* BuildAndStart that returns no server.
THEOREM StaleSocketsAreNoObstacle == Spec => StaleIsNoObstacle
<1>1. ASSUME IInv, [Next]_vars, NEW d \in Daemons, pc[d] # "off", alone[d], pc'[d] = "off", code'[d] = "1"
      PROVE  path.kind = "file" \/ (path.kind = "none" /\ pc[d] \in {"load", "bind"})
  <2>1. Main(d) \/ Crash(d)
    BY <1>1, OneMoves DEF Start, Goto
  <2>2. \A result : Exit(d, result) => code'[d] = result
    BY <1>1 DEF Exit, IInv, TypeOK
  <2>3. ~Crash(d) /\ ~Denied(d) /\ ~Check(d) /\ ~Remove(d)
    BY <1>1, <2>2 DEF Crash, Denied, Check, Remove, Goto, IInv, TypeOK
  <2>4. ~Mask(d) /\ ~Load(d) /\ ~Shutdown(d) /\ ~Wait(d)
    BY <1>1 DEF Mask, Load, Shutdown, Wait, Goto, IInv, TypeOK
  <2>5. CASE Stat(d)
    BY <1>1, <2>5 DEF Stat, NotOurs, Goto, IInv, TypeOK
  <2>6. CASE Probe(d)
    <3>1. InUse /\ pc[d] = "probe"
      BY <1>1, <2>6 DEF Probe, Goto, IInv, TypeOK
    <3>2. path.by \in Daemons /\ path.by # d /\ listening[path.by]
      BY <1>1, <3>1, LiveIsAnother
    <3> QED BY <1>1, <3>2 DEF IInv, AloneInv, ServingInv
  <2>7. CASE Unlink(d)
    BY <1>1, <2>7 DEF Unlink, Goto, IInv, TypeOK, AloneInv
  <2>8. CASE Bind(d)
    BY <1>1, <2>8, PathKinds DEF Bind, Goto, IInv, TypeOK, AloneInv
  <2>9. CASE LoadFails(d)
    BY <1>1, <2>9, PathKinds DEF LoadFails, IInv, AloneInv
  <2> QED BY <2>1, <2>3, <2>4, <2>5, <2>6, <2>7, <2>8, <2>9 DEF Main
<1>2. IInv /\ [Next]_vars =>
        [\A d \in Daemons : pc[d] # "off" /\ alone[d] /\ pc'[d] = "off" /\ code'[d] = "1" =>
           path.kind = "file" \/ (path.kind = "none" /\ pc[d] \in {"load", "bind"})]_vars
  BY <1>1
<1> QED BY <1>2, Invariance, PTL DEF Spec, StaleIsNoObstacle

\* No step of a daemon whose probe could be made takes the path from one that was
\* listening before it started.
THEOREM LateComersYield == Spec => LateComerYields
<1>1. ASSUME IInv, [Next]_vars, NEW d \in Daemons, NEW e \in Daemons,
             path = Socket(e), e \in elders[d], pc'[d] # pc[d]
      PROVE  path' = path
  <2>1. pc[d] \in {"off", "mask", "stat", "probe"}
    BY <1>1 DEF IInv, EldersInv
  <2>2. Start(d) \/ Main(d) \/ Crash(d)
    BY <1>1, OneMoves
  <2> QED BY <2>1, <2>2 DEF Start, Main, Crash, Mask, Stat, Probe, Unlink, Denied, Load, LoadFails,
             Bind, Shutdown, Wait, Check, Remove, Goto, state
<1>2. IInv /\ [Next]_vars =>
        [\A d, e \in Daemons : path = Socket(e) /\ e \in elders[d] /\ pc'[d] # pc[d] => path' = path]_vars
  BY <1>1
<1> QED BY <1>2, Invariance, PTL DEF Spec, LateComerYields

-----------------------------------------------------------------------------
(* A signal is not lost *)

\* The stages of main() that are still ahead of one.
Ahead == [mask |-> 10, stat |-> 9, probe |-> 8, unlink |-> 7, load |-> 6, bind |-> 5, serve |-> 4,
          drain |-> 3, check |-> 2, remove |-> 1, off |-> 0]

\* From a signal on, whenever it came, main() loses neither the signal nor ground: no
\* step of any daemon or client takes it back a stage, and once the listener is closed
\* the calls that Wait waits for only become fewer.
SignalSticks ==
  [][\A d \in Daemons : signalled[d] =>
       \/ pc'[d] = "off"
       \/ /\ signalled'[d]
          /\ pc'[d] = pc[d] \/ Ahead[pc'[d]] < Ahead[pc[d]]
          /\ pc[d] \in {"drain", "check", "remove"} => handlers'[d] <= handlers[d]]_vars

\* Only a process that runs has a signal to take.
SignalledInv == \A d \in Daemons : signalled[d] = TRUE => pc[d] # "off"

\* A step leaves d alone but for its listener and history, or is a step of d.
LEMMA OthersLeaveAlone ==
  ASSUME IInv, Next, NEW d \in Daemons
  PROVE  \/ Start(d) \/ Main(d) \/ Accept(d) \/ Return(d) \/ Signal(d) \/ Crash(d)
         \/ pc'[d] = pc[d] /\ signalled'[d] = signalled[d] /\ handlers'[d] = handlers[d]
<1>1. PICK e \in Daemons : Start(e) \/ Main(e) \/ Accept(e) \/ Return(e) \/ Signal(e) \/ Crash(e)
  BY DEF Next
<1>2. CASE e = d
  BY <1>1, <1>2
<1>3. CASE e # d
  <2>1. /\ pc \in [Daemons -> PCs] /\ signalled \in [Daemons -> BOOLEAN] /\ handlers \in [Daemons -> Nat]
    BY DEF IInv, TypeOK
  <2>2. CASE Start(e) \/ Accept(e) \/ Return(e) \/ Signal(e) \/ Crash(e)
    BY <1>3, <2>1, <2>2 DEF Start, Accept, Return, Signal, Crash, Goto, Exit
  <2>3. CASE Main(e)
    BY <1>3, <2>1, <2>3 DEF Main, Mask, Stat, Probe, Unlink, Denied, Load, Pending, LoadFails, Bind, Shutdown,
       Wait, Check, Remove, Goto, Exit, state
  <2> QED BY <1>1, <2>2, <2>3
<1> QED BY <1>2, <1>3

\* A stage of main() leads to one that is further on, with the signal still there, or
\* ends the process.
LEMMA MainGoesOn ==
  ASSUME IInv, NEW d \in Daemons, Main(d)
  PROVE  \/ pc'[d] = "off" /\ signalled'[d] = FALSE
         \/ /\ signalled'[d] = signalled[d] /\ handlers'[d] = handlers[d]
            /\ pc'[d] # "off" /\ pc[d] # "off" /\ Ahead[pc'[d]] < Ahead[pc[d]]
<1>1. /\ pc \in [Daemons -> PCs] /\ signalled \in [Daemons -> BOOLEAN] /\ handlers \in [Daemons -> Nat]
  BY DEF IInv, TypeOK
<1>2. \A result : Exit(d, result) => pc'[d] = "off" /\ signalled'[d] = FALSE
  BY <1>1 DEF Exit
<1>3. \A from, to : Goto(d, from, to) => pc[d] = from /\ pc'[d] = to
  BY <1>1 DEF Goto
<1>4. CASE Mask(d) \/ Load(d) \/ Shutdown(d) \/ Wait(d)
  BY <1>3, <1>4 DEF Mask, Load, Pending, Shutdown, Wait, state, Ahead
<1>5. CASE Denied(d) \/ LoadFails(d) \/ Remove(d)
  BY <1>2, <1>5 DEF Denied, LoadFails, Remove
<1>6. CASE Stat(d) \/ Probe(d) \/ Unlink(d)
  BY <1>2, <1>3, <1>6 DEF Stat, Probe, Unlink, state, Ahead
<1>7. CASE Bind(d) \/ Check(d)
  BY <1>2, <1>3, <1>7 DEF Bind, Check, state, Ahead
<1> QED BY <1>4, <1>5, <1>6, <1>7 DEF Main

\* A signal stays with the process, whatever the process and its clients do.
LEMMA SignalStays ==
  ASSUME IInv, SignalledInv, Next, NEW d \in Daemons
  PROVE  /\ signalled'[d] = TRUE => pc'[d] # "off"
         /\ signalled[d] = TRUE =>
              \/ pc'[d] = "off"
              \/ /\ signalled'[d] = TRUE
                 /\ pc'[d] = pc[d] \/ Ahead[pc'[d]] < Ahead[pc[d]]
                 /\ pc[d] \in {"drain", "check", "remove"} => handlers'[d] <= handlers[d]
<1>1. /\ pc \in [Daemons -> PCs] /\ signalled \in [Daemons -> BOOLEAN] /\ handlers \in [Daemons -> Nat]
      /\ signalled[d] = TRUE => pc[d] # "off"
      /\ handlers[d] <= handlers[d]
  BY DEF IInv, TypeOK, SignalledInv
<1>2. CASE pc'[d] = pc[d] /\ signalled'[d] = signalled[d] /\ handlers'[d] = handlers[d]
  BY <1>1, <1>2
<1>3. CASE Main(d)
  BY <1>1, <1>3, MainGoesOn
<1>4. CASE Start(d)
  BY <1>1, <1>4 DEF Start, Goto
<1>5. CASE Accept(d)
  <2>1. pc[d] = "serve" /\ UNCHANGED <<pc, signalled>>
    BY <1>5 DEF Accept, IInv, ServingInv
  <2> QED BY <1>1, <2>1
<1>6. CASE Return(d)
  <2>1. UNCHANGED <<pc, signalled>> /\ handlers'[d] = handlers[d] - 1
    BY <1>1, <1>6 DEF Return
  <2> QED BY <1>1, <2>1
<1>7. CASE Signal(d)
  BY <1>1, <1>7 DEF Signal
<1>8. CASE Crash(d)
  BY <1>1, <1>8 DEF Crash, Exit
<1> QED BY <1>2, <1>3, <1>4, <1>5, <1>6, <1>7, <1>8, OthersLeaveAlone

\* A signal is not lost, nor main() turned back, by anything that any number of daemons
\* and clients do; a drain only gets shorter.  With the fairness of FairSpec, which TLC
\* checks SignalStops under, the daemon ends.
THEOREM SignalsStick == Spec => SignalSticks
<1>1. Init => SignalledInv
  BY DEF Init, SignalledInv
<1>2. IInv /\ SignalledInv /\ [Next]_vars => SignalledInv'
  <2>1. ASSUME UNCHANGED vars, SignalledInv PROVE SignalledInv'
    BY <2>1 DEF vars, SignalledInv
  <2> QED BY <2>1, SignalStays DEF SignalledInv
<1>3. ASSUME IInv, SignalledInv, Next, NEW d \in Daemons, signalled[d]
      PROVE  \/ pc'[d] = "off"
             \/ /\ signalled'[d]
                /\ pc'[d] = pc[d] \/ Ahead[pc'[d]] < Ahead[pc[d]]
                /\ pc[d] \in {"drain", "check", "remove"} => handlers'[d] <= handlers[d]
  BY <1>3, SignalStays DEF IInv, TypeOK
<1>4. IInv /\ SignalledInv /\ [Next]_vars =>
        [\A d \in Daemons : signalled[d] =>
           \/ pc'[d] = "off"
           \/ /\ signalled'[d]
              /\ pc'[d] = pc[d] \/ Ahead[pc'[d]] < Ahead[pc[d]]
              /\ pc[d] \in {"drain", "check", "remove"} => handlers'[d] <= handlers[d]]_vars
  BY <1>3
<1> QED BY <1>1, <1>2, <1>4, Invariance, PTL DEF Spec, SignalSticks
=============================================================================
