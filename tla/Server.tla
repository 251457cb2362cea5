------------------------------- MODULE Server -------------------------------
(***************************************************************************)
(* The main thread (src/src/server/server.cpp, server_main.cpp): start,    *)
(* the accept loop, the SIGINT handler and shutdown, composed with the     *)
(* handler threads of ClientHandler.  Accept and the steps of shutdown_all *)
(* happen only where the main thread calls them.                           *)
(***************************************************************************)
EXTENDS ClientHandler

CONSTANT MaxSignals   \* bound: how often SIGINT is sent in a run

ASSUME SignalAssumption == MaxSignals \in Nat

VARIABLES
    main,      \* where the main thread is
    running,   \* running_
    tids,      \* thread_group_: the threads shutdown joins
    signals    \* how many SIGINTs have been delivered

mainVars == <<main, running, tids, signals>>
serverVars == <<vars, mainVars>>

\* "start" runs up to running_.store(true); "test" is the loop condition;
\* "enter" lies between the test and the blocking accept call.
MainLabels == {"start", "test", "enter", "accept", "shutdown", "closing",
               "join", "stopped", "failed"}

ServerTypeOK ==
    /\ TypeOK
    /\ main \in MainLabels
    /\ running \in BOOLEAN
    /\ tids \in SUBSET Session
    /\ signals \in 0..MaxSignals

ServerInit ==
    /\ Init
    /\ main = "start"
    /\ running = FALSE
    /\ tids = {}
    /\ signals = 0

Main(from, to) == ~fault /\ main = from /\ main' = to

\* The sockets are ready; the flag is set whatever happened to it before.
Start ==
    /\ Main("start", "test")
    /\ running' = TRUE
    /\ UNCHANGED <<vars, tids, signals>>

\* One of socket, bind and listen fails: start throws, the server is destroyed
\* without a shutdown and main returns EXIT_FAILURE.
SetUpFails ==
    /\ Main("start", "failed")
    /\ UNCHANGED <<vars, running, tids, signals>>

TestRunning ==
    /\ Main("test", IF running THEN "enter" ELSE "shutdown")
    /\ UNCHANGED <<vars, running, tids, signals>>

EnterAccept ==
    /\ Main("enter", "accept")
    /\ UNCHANGED <<vars, running, tids, signals>>

\* Mutant: the new thread is not recorded.
AcceptConnection_untracked(s) ==
    /\ Main("accept", "test")
    /\ AcceptStep(s)
    /\ UNCHANGED <<running, tids, signals>>

\* Mutant: the thread is recorded before its creation is known to succeed.
AcceptConnection_tracked_early(s) ==
    /\ Main("accept", "test")
    /\ AcceptStep(s)
    /\ tids' = tids \cup {s}
    /\ UNCHANGED <<running, signals>>

\* The thread, if it could be created, is recorded for the join.
AcceptConnection(s) ==
    /\ Main("accept", "test")
    /\ AcceptStep(s)
    /\ tids' = IF pc'[s] = "auth" THEN tids \cup {s} ELSE tids
    /\ UNCHANGED <<running, signals>>

\* Any accept error other than the interruption below: warn and go on, or
\* leave the loop when the flag is down.
AcceptError ==
    /\ Main("accept", IF running THEN "test" ELSE "shutdown")
    /\ UNCHANGED <<vars, running, tids, signals>>

\* The signal handler only clears the flag.  A thread that blocks in accept
\* and takes the signal itself returns with EINTR and leaves the loop; no
\* thread masks SIGINT, so a handler thread may take it instead, and then, as
\* when the main thread is not yet inside accept, nothing is interrupted.
Sigint(interrupted) ==
    /\ ~fault
    /\ signals < MaxSignals
    /\ main \notin {"stopped", "failed"}
    /\ interrupted => main = "accept"
    /\ signals' = signals + 1
    /\ running' = FALSE
    /\ main' = IF interrupted THEN "shutdown" ELSE main
    /\ UNCHANGED <<vars, tids>>

ShutdownStarts ==
    /\ Main("shutdown", "closing")
    /\ running' = FALSE
    /\ ShutdownBegin
    /\ UNCHANGED <<tids, signals>>

ShutdownCloses(s) ==
    /\ Main("closing", "closing")
    /\ ShutdownClose(s)
    /\ UNCHANGED <<running, tids, signals>>

\* Mutant: the lists are emptied without closing the sessions in them.
ShutdownEnds_unclosed ==
    /\ Main("closing", "join")
    /\ clients' = {}
    /\ by_name' = [u \in User |-> NoSession]
    /\ mutex' = "free"
    /\ Quiet
    /\ UNCHANGED <<sessionVars, shutdownUnchanged, running, tids, signals>>

\* The listening descriptor is closed on the way to join_all.
ShutdownEnds ==
    /\ Main("closing", "join")
    /\ ShutdownEnd
    /\ UNCHANGED <<running, tids, signals>>

\* join_all returns when the last recorded thread has ended.
JoinAll ==
    /\ Main("join", "stopped")
    /\ \A s \in tids : pc[s] = "done"
    /\ tids' = {}
    /\ UNCHANGED <<vars, running, signals>>

Handler(s) == HandlerStep(s) /\ UNCHANGED mainVars

\* The process has ended, normally or not.
Ended == (main \in {"stopped", "failed"} \/ fault) /\ UNCHANGED serverVars

\* A step of the main thread that does not wait for a client to connect.
MainStep ==
    \/ Start \/ SetUpFails \/ TestRunning \/ EnterAccept
    \/ ShutdownStarts \/ (\E s \in Session : ShutdownCloses(s)) \/ ShutdownEnds
    \/ JoinAll

ServerNext ==
    \/ MainStep
    \/ \E s \in Session : AcceptConnection(s) \/ Handler(s)
    \/ AcceptError
    \/ \E interrupted \in BOOLEAN : Sigint(interrupted)
    \/ Ended

ServerSpec == ServerInit /\ [][ServerNext]_serverVars

\* Both kinds of threads are scheduled: recv returns within SO_RCVTIMEO, peers
\* read what they are sent, and no thread keeps a mutex.  Nobody is obliged to
\* connect.
ThreadFairness ==
    /\ WF_serverVars(MainStep)
    /\ \A s \in Session : WF_serverVars(Handler(s))

FairServerSpec == ServerSpec /\ ThreadFairness

\* In addition no client talks for ever: every handler that keeps reading
\* lines from an open connection meets the end of the stream or the receive
\* timeout at last.
ClientsLeave ==
    \A s \in Session :
        SF_serverVars(~fault /\ fd_open[s] /\ Lost(s) /\ UNCHANGED mainVars)

LeavingServerSpec == FairServerSpec /\ ClientsLeave

-----------------------------------------------------------------------------
(* Safety.                                                                 *)

\* When the main thread has joined everybody and goes on to destroy the
\* managers, no handler thread can still use them (join_all, ~Server).
StoppedServerIsQuiet ==
    main = "stopped" =>
        \A s \in Session : pc[s] \in {"none", "abandoned", "done"}

\* A stopped server has released everything: no manager remembers a session
\* and no descriptor is open, whether a client authenticated before or after
\* shutdown_all emptied the lists and however its sends ended.  The exception
\* is a session whose thread could not be created.
StoppedServerIsClean ==
    main = "stopped" =>
        /\ clients = {} /\ rooms = [r \in {} |-> {}]
        /\ \A u \in User : by_name[u] = NoSession
        /\ \A s \in Session : fd_open[s] => pc[s] = "abandoned"

\* Nobody who chats is overlooked: a session whose handler has entered the chat
\* is in the client list, so that messages and shutdown_all reach it, or has
\* been deactivated.  Of the threads join_all waits for, only those still in the
\* dialogue, those that entered the chat after shutdown_all and those a failed
\* send has deactivated keep an open descriptor (add_client, shutdown_all).
InChat == {"ok", "join", "reply", "chat", "line", "send"}

ChattersListed ==
    \A s \in Session : pc[s] \in InChat /\ active[s] => s \in clients

\* The mutex of the client list is kept from one step to another by shutdown_all
\* alone, so a handler that waits for it waits for the main thread (shutdown_all).
ShutdownExclusive == mutex = IF main = "closing" THEN "shutdown_all" ELSE "free"

\* What shutdown_all goes through while the handlers run on: nobody enters or
\* leaves the list under it and no listed session becomes active again, so the
\* loop over clients_ comes to its end (shutdown_all, add_client, remove_client).
ShutdownAdvances ==
    [][main = "closing" =>
        \/ main' = "join"
        \/ /\ main' = "closing" /\ clients' = clients
           /\ \A s \in clients : active'[s] => active[s]]_serverVars

-----------------------------------------------------------------------------
(* Liveness.                                                               *)

\* A session whose descriptor was closed, by its handler or under it by
\* shutdown_all, is eventually deleted by its handler, whatever the handler was
\* doing, unless undefined behaviour comes first (recv_loop, cleanup_and_exit).
ClosedSessionsReaped ==
    \A s \in Session :
        (life[s] = "live" /\ ~fd_open[s]) ~> (life[s] = "freed" \/ fault)

\* Once the main thread has left the accept loop, the server stops, provided
\* that no client talks for ever.
ShutdownCompletes == main = "shutdown" ~> (main = "stopped" \/ fault)

-----------------------------------------------------------------------------
(* What the sources say and the code does not do.                          *)

\* server.h, shutdown sequence, steps 1 and 2: after SIGINT the flag is false,
\* accept returns and the loop exits.
StopRequestHonoured ==
    signals > 0 ~> (main \notin {"start", "test", "enter", "accept"} \/ fault)
=============================================================================
