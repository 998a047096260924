------------------------------ MODULE Network ------------------------------
(***************************************************************************)
(* The life of the network stack behind the HTTP API: POST /connect        *)
(* (api/routers/network.py) builds a NetworkManager, which opens the       *)
(* serial transport and starts the protocol; POST /disconnect takes it     *)
(* apart again, one background task after the other; the other requests    *)
(* use the manager that app.state.network_manager refers to.               *)
(*                                                                         *)
(* An action is everything a request does between two awaits.  A manager   *)
(* belongs to the request that connects; its name is free again when it    *)
(* is gone.  The device collection, which stop() clears, and the contents  *)
(* of the queues are left out.                                             *)
(***************************************************************************)

CONSTANTS
    Manager,    \* the NetworkManager objects that may exist at a time
    User,       \* requests that are served at a time (POST /dmx/send)
    None

ASSUME NetworkAssumption == None \notin Manager

VARIABLES
    serving,    \* the server has not begun its shutdown
    current,    \* app.state.network_manager
    pc,         \* what the connect or disconnect request of a manager awaits
    loop,       \* the task of DmxFrameScheduler
    receive,    \* the receive task of RDME120Protocol
    cleaner,    \* the cleanup task of ResponseCorrelator
    port,       \* AsyncSerialTransport: closed, connected, closing
    user,       \* the manager that get_network_manager gave to a request
    overlapped  \* history: a connect or disconnect began while another ran

life == <<loop, receive, cleaner, port>>
vars == <<serving, current, pc, life, user, overlapped>>

\* The awaits of stop(): the task that it has cancelled, and in the end the
\* two tasks of the transport.
Stopping == {"scheduler", "receive", "cleaner", "port"}

Task == {"none", "alive", "dying"}

\* is_active: true from the end of start() to the beginning of stop().
Active(m) == pc[m] = "up"

\* A connect or a disconnect is on its way.
Busy(m) == pc[m] \in Stopping \cup {"querying"}

Fresh(m) ==
    /\ pc[m] = "gone"
    /\ loop[m] = "none"
    /\ \A u \in User : user[u] # m

Init ==
    /\ serving = TRUE
    /\ current = None
    /\ pc = [m \in Manager |-> "gone"]
    /\ loop = [m \in Manager |-> "none"]
    /\ receive = [m \in Manager |-> "none"]
    /\ cleaner = [m \in Manager |-> "none"]
    /\ port = [m \in Manager |-> "closed"]
    /\ user = [u \in User |-> None]
    /\ overlapped = FALSE

-----------------------------------------------------------------------------
(* POST /connect                                                           *)

(* Mutant of Admitted: the check for an active manager is missing.         *)
AlwaysAdmitted == serving

\* No "Already connected".
Admitted == serving /\ \A m \in Manager : Active(m) => current # m

RequestBegins == overlapped' = (overlapped \/ \E n \in Manager : Busy(n))

(* Mutant of Assemble: active, but the protocol has not been started.      *)
AssembleUnstarted(m) ==
    /\ port' = [port EXCEPT ![m] = "connected"]
    /\ pc' = [pc EXCEPT ![m] = "up"]
    /\ current' = m
    /\ UNCHANGED <<serving, loop, receive, cleaner, user>>

\* The rest of start() and of connect(), in which nothing is awaited: the
\* port is opened, the tasks are created, the scheduler is built but not
\* started, and the manager becomes the one of the application.
Assemble(m) ==
    /\ port' = [port EXCEPT ![m] = "connected"]
    /\ cleaner' = [cleaner EXCEPT ![m] = "alive"]
    /\ receive' = [receive EXCEPT ![m] = "alive"]
    /\ pc' = [pc EXCEPT ![m] = "up"]
    /\ current' = m
    /\ UNCHANGED <<serving, loop, user>>

\* The controller UID is configured, so that start() has nothing to wait for.
ConnectAtOnce(m) == Admitted /\ Fresh(m) /\ RequestBegins /\ Assemble(m)

\* The UID is asked from the widget, over the same port and for seconds.
ConnectBegins(m) ==
    /\ Admitted
    /\ Fresh(m)
    /\ RequestBegins
    /\ pc' = [pc EXCEPT ![m] = "querying"]
    /\ UNCHANGED <<serving, current, life, user>>

ConnectEnds(m) ==
    /\ pc[m] = "querying"
    /\ Assemble(m)
    /\ UNCHANGED overlapped

\* The widget does not answer or the port cannot be opened: _cleanup() finds
\* nothing that runs, and the request ends with an error.
ConnectFails(m) ==
    /\ pc[m] = "querying"
    /\ pc' = [pc EXCEPT ![m] = "gone"]
    /\ UNCHANGED <<serving, current, life, user, overlapped>>

-----------------------------------------------------------------------------
(* POST /disconnect and the shutdown of the server                         *)

(* Mutant of StopReceive: the transport goes first, the protocol runs on.  *)
SkipReceive(m) ==
    /\ UNCHANGED receive
    /\ pc' = [pc EXCEPT ![m] = "cleaner"]

\* RDME120Protocol.stop, up to the await of the receive task.
StopReceive(m) ==
    /\ receive' = [receive EXCEPT ![m] = "dying"]
    /\ pc' = [pc EXCEPT ![m] = "receive"]

(* Mutant of BeginCleanup: the task of the scheduler is awaited, but it has *)
(* not been cancelled.                                                     *)
BeginWithoutCancel(m) ==
    /\ \/ /\ loop[m] = "alive"
          /\ pc' = [pc EXCEPT ![m] = "scheduler"]
          /\ UNCHANGED receive
       \/ /\ loop[m] # "alive"
          /\ StopReceive(m)
    /\ UNCHANGED <<loop, cleaner, port>>

\* _cleanup(), up to its first await.  A scheduler that does not run returns
\* at once, even if its last task is still dying.
BeginCleanup(m) ==
    /\ \/ /\ loop[m] = "alive"
          /\ loop' = [loop EXCEPT ![m] = "dying"]
          /\ pc' = [pc EXCEPT ![m] = "scheduler"]
          /\ UNCHANGED receive
       \/ /\ loop[m] # "alive"
          /\ StopReceive(m)
          /\ UNCHANGED loop
    /\ UNCHANGED <<cleaner, port>>

Disconnect(m) ==
    /\ serving
    /\ current = m
    /\ Active(m)
    /\ RequestBegins
    /\ BeginCleanup(m)
    /\ UNCHANGED <<serving, current, user>>

\* The lifespan handler, when the last request has been served.
Shutdown ==
    /\ serving
    /\ \A m \in Manager : ~Busy(m)
    /\ \A u \in User : user[u] = None
    /\ serving' = FALSE
    /\ \/ \E m \in Manager : current = m /\ Active(m) /\ BeginCleanup(m)
       \/ /\ \A m \in Manager : Active(m) => current # m
          /\ UNCHANGED <<pc, life>>
    /\ UNCHANGED <<current, user, overlapped>>

SchedulerStopped(m) ==
    /\ pc[m] = "scheduler"
    /\ loop[m] = "none"
    /\ StopReceive(m)
    /\ UNCHANGED <<serving, current, loop, cleaner, port, user, overlapped>>

ReceiveStopped(m) ==
    /\ pc[m] = "receive"
    /\ receive' = [receive EXCEPT ![m] = "none"]
    /\ cleaner' = [cleaner EXCEPT ![m] = "dying"]
    /\ pc' = [pc EXCEPT ![m] = "cleaner"]
    /\ UNCHANGED <<serving, current, loop, port, user, overlapped>>

\* AsyncSerialTransport.disconnect, up to the wait for its two tasks.
CleanerStopped(m) ==
    /\ pc[m] = "cleaner"
    /\ cleaner' = [cleaner EXCEPT ![m] = "none"]
    /\ port' = [port EXCEPT ![m] = "closing"]
    /\ pc' = [pc EXCEPT ![m] = "port"]
    /\ UNCHANGED <<serving, current, loop, receive, user, overlapped>>

\* The request ends: whatever the application refers to by now is forgotten.
PortClosed(m) ==
    /\ pc[m] = "port"
    /\ port' = [port EXCEPT ![m] = "closed"]
    /\ pc' = [pc EXCEPT ![m] = "gone"]
    /\ current' = IF serving THEN None ELSE current
    /\ UNCHANGED <<serving, loop, receive, cleaner, user, overlapped>>

-----------------------------------------------------------------------------
(* POST /dmx/send                                                          *)

\* get_network_manager is not a coroutine: it runs in a thread, and the
\* handler begins in a later turn of the event loop.
Resolve(u) ==
    /\ serving
    /\ user[u] = None
    /\ \E m \in Manager :
        /\ current = m
        /\ Active(m)
        /\ user' = [user EXCEPT ![u] = m]
    /\ UNCHANGED <<serving, current, pc, life, overlapped>>

(* Mutant of Usable: send_dmx() without _ensure_active().                  *)
AnyManager(m) == TRUE

\* _ensure_active
Usable(m) == Active(m)

SendRepeated(u) ==
    /\ user[u] # None
    /\ Usable(user[u])
    /\ loop' = [loop EXCEPT ![user[u]] = "alive"]
    /\ user' = [user EXCEPT ![u] = None]
    /\ UNCHANGED <<serving, current, pc, receive, cleaner, port, overlapped>>

SendOnce(u) ==
    /\ user[u] # None
    /\ Usable(user[u])
    /\ loop' = [loop EXCEPT ![user[u]] = IF @ = "alive" THEN "dying" ELSE @]
    /\ user' = [user EXCEPT ![u] = None]
    /\ UNCHANGED <<serving, current, pc, receive, cleaner, port, overlapped>>

Refused(u) ==
    /\ user[u] # None
    /\ ~Usable(user[u])
    /\ user' = [user EXCEPT ![u] = None]
    /\ UNCHANGED <<serving, current, pc, life, overlapped>>

\* The task of the scheduler takes its cancellation.
LoopDies(m) ==
    /\ loop[m] = "dying"
    /\ loop' = [loop EXCEPT ![m] = "none"]
    /\ UNCHANGED <<serving, current, pc, receive, cleaner, port, user, overlapped>>

-----------------------------------------------------------------------------
StopStep(m) ==
    SchedulerStopped(m) \/ ReceiveStopped(m) \/ CleanerStopped(m) \/ PortClosed(m)

ManagerStep(m) ==
    \/ ConnectAtOnce(m) \/ ConnectBegins(m) \/ ConnectEnds(m) \/ ConnectFails(m)
    \/ Disconnect(m) \/ StopStep(m) \/ LoopDies(m)

UserStep(u) == Resolve(u) \/ SendRepeated(u) \/ SendOnce(u) \/ Refused(u)

Next ==
    \/ \E m \in Manager : ManagerStep(m)
    \/ \E u \in User : UserStep(u)
    \/ Shutdown

Spec == Init /\ [][Next]_vars

\* A cancelled task ends and a task whose awaited task has ended goes on; the
\* query of the widget gives up after a number of attempts.
Fairness ==
    /\ \A m \in Manager :
        /\ WF_vars(StopStep(m))
        /\ WF_vars(LoopDies(m))
        /\ WF_vars(ConnectEnds(m) \/ ConnectFails(m))

FairSpec == Spec /\ Fairness

-----------------------------------------------------------------------------
TypeOK ==
    /\ serving \in BOOLEAN
    /\ current \in Manager \cup {None}
    /\ pc \in [Manager -> {"gone", "querying", "up"} \cup Stopping]
    /\ loop \in [Manager -> Task]
    /\ receive \in [Manager -> Task]
    /\ cleaner \in [Manager -> Task]
    /\ port \in [Manager -> {"closed", "connected", "closing"}]
    /\ user \in [User -> Manager \cup {None}]
    /\ overlapped \in BOOLEAN

\* The receive loop of a protocol that has not been stopped asks its transport
\* again as soon as receive() raises, without an await: over a transport that
\* is not connected it would spin and starve every other task.  The orders of
\* start() and of _cleanup() keep it from that.
ReceiverHasPort ==
    \A m \in Manager : receive[m] = "alive" => port[m] = "connected"

\* Whoever passes the check of is_active finds a manager that is whole: its
\* port is connected, its answers are received and its handlers are cleaned.
ActiveIsWhole ==
    \A m \in Manager :
        Active(m) => /\ port[m] = "connected"
                     /\ receive[m] = "alive"
                     /\ cleaner[m] = "alive"

\* When a connect has failed or a disconnect has returned, the port is closed
\* and nothing of the manager runs, also if a request had got hold of it
\* before: the scheduler cannot be started behind the back of stop().
GoneIsQuiet ==
    \A m \in Manager :
        pc[m] \in {"gone", "querying"} =>
            /\ loop[m] # "alive"
            /\ receive[m] = "none"
            /\ cleaner[m] = "none"
            /\ port[m] = "closed"

\* As long as connect and disconnect requests do not overlap, the manager of
\* the application is the only one that is active and that has a port open.
AppWide ==
    overlapped \/
        /\ \A m \in Manager : Active(m) => current = m
        /\ \A m, n \in Manager :
               port[m] # "closed" /\ port[n] # "closed" => m = n

\* get_network_manager calls it "the app-wide NetworkManager", and connect
\* refuses a second one: a manager that is active can be reached and stopped.
OneManager == \A m \in Manager : Active(m) => current = m

\* Every connect and every disconnect returns.
EveryRequestEnds == \A m \in Manager : Busy(m) ~> ~Busy(m)

=============================================================================
