----------------------------- MODULE ChatClient -----------------------------
(***************************************************************************)
(* The two threads of the client (src/src/client/client.cpp) over one      *)
(* connection: the main thread connects, goes through the authentication   *)
(* menu, reads the banner, starts the receiver and sends what the user     *)
(* types; the receiver shows what the server sends.  Both share the socket *)
(* and running_, and JoinableThread ties their ends together.  What the    *)
(* lines say is the subject of AuthDialogue; here the server may send      *)
(* anything, stop reading, or close whenever it likes.                     *)
(***************************************************************************)
EXTENDS Naturals, Sequences

CONSTANTS
    Capacity,   \* lines the kernels hold on the way, in each direction
    MaxTyped,   \* bound: lines the user types
    MaxBcast    \* bound: lines the server sends without being asked

ASSUME ClientAssumption ==
    Capacity \in Nat \ {0} /\ MaxTyped \in Nat /\ MaxBcast \in Nat

VARIABLES
    main,       \* where the main thread is
    receiver,   \* where the receiving thread is
    running,    \* running_
    started,    \* recv_thread_.started_
    socket,     \* sock_fd_ and the state of what it names
    input,      \* whether standard input has ended
    typed,      \* how many lines the user has typed
    outbox,     \* lines sent and not yet read by the server
    inbox,      \* lines of the server not yet read, oldest first
    peer,       \* the server's end of the connection
    owed,       \* answers the server writes before it reads again
    bcast       \* how many lines the server has sent without being asked

threadVars == <<main, receiver, running, started>>
inputVars == <<input, typed>>
serverVars == <<peer, owed, bcast>>
vars == <<threadVars, socket, inputVars, outbox, inbox, serverVars>>

\* What matters of a line of the server is whether it is an OK.
Line == {"OK", "other"}

\* The labels of the main thread at which it is in recv_line, in getline and
\* in send_encrypted, in the order in which a dialogue goes through them.
Reading == {"menu", "name_prompt", "password_prompt", "response", "banner"}
Typing == {"choice", "name", "password", "chat"}
Sending == {"send_choice", "send_wrong", "send_name", "send_password",
            "send_line", "send_exit"}
Ending == {"stop", "shutdown", "join", "destroy", "destroy_thread", "exited"}

TypeOK ==
    /\ main \in {"connect", "spawn"} \cup Reading \cup Typing \cup Sending \cup Ending
    /\ receiver \in {"none", "test", "recv", "ended"}
    /\ running \in BOOLEAN /\ started \in BOOLEAN
    /\ socket \in {"none", "open", "shut", "closed"}
    /\ input \in {"open", "ended"}
    /\ typed \in 0..MaxTyped
    /\ outbox \in 0..Capacity
    /\ inbox \in Seq(Line) /\ Len(inbox) <= Capacity
    /\ peer \in {"none", "connected", "closed"}
    /\ owed \in 0..3
    /\ bcast \in 0..MaxBcast

Init ==
    /\ main = "connect" /\ receiver = "none"
    /\ running = FALSE /\ started = FALSE
    /\ socket = "none"
    /\ input = "open" /\ typed = 0
    /\ outbox = 0 /\ inbox = <<>>
    /\ peer = "none" /\ owed = 0 /\ bcast = 0

-----------------------------------------------------------------------------
(* The main thread.                                                        *)

Main(from, to) == main = from /\ main' = to

\* The server accepts the connection and owes its menu.
Connect ==
    /\ Main("connect", "menu")
    /\ socket' = "open" /\ peer' = "connected" /\ owed' = 1
    /\ UNCHANGED <<receiver, running, started, inputVars, outbox, inbox, bcast>>

\* No socket, no such address or nobody there: an exception leaves run(), with
\* or without a descriptor in sock_fd_.
ConnectFails ==
    /\ Main("connect", "destroy")
    /\ socket' \in {"none", "open"}
    /\ UNCHANGED <<receiver, running, started, inputVars, outbox, inbox, serverVars>>

\* recv_line has nothing to return any more: the empty line.
AtEnd == inbox = <<>> /\ (peer = "closed" \/ socket = "shut")

\* The label after a line has been read in the authentication dialogue, with
\* send_loop following an OK.
AfterReading(line) ==
    CASE main = "menu" -> "choice"
      [] main = "name_prompt" -> "name"
      [] main = "password_prompt" -> "password"
      [] main = "response" -> IF line = "OK" THEN "banner" ELSE "menu"
      [] main = "banner" -> "spawn"

\* Mutant: the receiver is started before the banner has been read.
MainReads_beside_receiver ==
    /\ main \in Reading
    /\ inbox # <<>>
    /\ inbox' = Tail(inbox)
    /\ main' = AfterReading(Head(inbox))
    /\ running' = (running \/ main' = "banner")
    /\ receiver' = IF main' = "banner" THEN "test" ELSE receiver
    /\ UNCHANGED <<started, socket, inputVars, outbox, serverVars>>

MainReads ==
    /\ main \in Reading
    /\ inbox # <<>>
    /\ inbox' = Tail(inbox)
    /\ main' = AfterReading(Head(inbox))
    /\ running' = (running \/ main' = "banner")
    /\ UNCHANGED <<receiver, started, socket, inputVars, outbox, serverVars>>

\* An empty menu throws; every other empty line is shown and taken for the line
\* that was expected.
MainReadsNothing ==
    /\ main \in Reading
    /\ AtEnd
    /\ main' = IF main = "menu" THEN "destroy" ELSE AfterReading("other")
    /\ UNCHANGED <<receiver, running, started, socket, inputVars, outbox, inbox, serverVars>>

\* The user types a line; in the menu it may be a wrong choice, in the chat it
\* may be the one that ends it, or /help, which the client answers itself.
AfterTyping ==
    CASE main = "choice" -> {"send_choice", "send_wrong"}
      [] main = "name" -> {"send_name"}
      [] main = "password" -> {"send_password"}
      [] main = "chat" -> {"send_line", "send_exit", "chat"}

Type ==
    /\ main \in Typing
    /\ input = "open"
    /\ typed < MaxTyped
    /\ typed' = typed + 1
    /\ main' \in AfterTyping
    /\ UNCHANGED <<receiver, running, started, socket, input, outbox, inbox, serverVars>>

\* Mutant: the result of getline is not looked at, and an empty line is sent.
EndOfInput_unnoticed ==
    /\ main \in Typing
    /\ input' = "ended"
    /\ main' = CASE main = "choice" -> "send_wrong"
                 [] main = "name" -> "send_name"
                 [] main = "password" -> "send_password"
                 [] main = "chat" -> "send_line"
    /\ UNCHANGED <<receiver, running, started, socket, typed, outbox, inbox, serverVars>>

\* getline fails, now and ever after.  In the menu that leads into send_loop,
\* in the middle of a dialogue back to the menu, in the chat to its end.
EndOfInput ==
    /\ main \in Typing
    /\ input' = "ended"
    /\ main' = CASE main = "choice" -> "banner"
                 [] main = "chat" -> "stop"
                 [] OTHER -> "menu"
    /\ running' = (running \/ main' = "banner")
    /\ UNCHANGED <<receiver, started, socket, typed, outbox, inbox, serverVars>>

AfterSending ==
    [send_choice |-> "name_prompt", send_wrong |-> "menu",
     send_name |-> "password_prompt", send_password |-> "response",
     send_line |-> "chat", send_exit |-> "stop"]

\* The line goes to the kernel, which makes the thread wait if it has no room;
\* on a connection the server has closed the send fails, and nobody looks.
Send ==
    /\ main \in Sending
    /\ main' = AfterSending[main]
    /\ \/ peer = "closed" /\ UNCHANGED outbox
       \/ peer = "connected" /\ outbox < Capacity /\ outbox' = outbox + 1
    /\ UNCHANGED <<receiver, running, started, socket, inputVars, inbox, serverVars>>

Spawn ==
    /\ Main("spawn", "chat")
    /\ receiver' = "test"
    /\ started' = TRUE
    /\ UNCHANGED <<running, socket, inputVars, outbox, inbox, serverVars>>

\* pthread_create fails: send_loop returns, and with it run().
SpawnFails ==
    /\ Main("spawn", "destroy")
    /\ UNCHANGED <<receiver, running, started, socket, inputVars, outbox, inbox, serverVars>>

Stop ==
    /\ Main("stop", "shutdown")
    /\ running' = FALSE
    /\ UNCHANGED <<receiver, started, socket, inputVars, outbox, inbox, serverVars>>

\* Mutant: the socket is not shut down before the join.
Shutdown_forgotten ==
    /\ Main("shutdown", "join")
    /\ UNCHANGED <<receiver, running, started, socket, inputVars, outbox, inbox, serverVars>>

\* shutdown_rdwr wakes a thread that is blocked in recv.
Shutdown ==
    /\ Main("shutdown", "join")
    /\ socket' = "shut"
    /\ UNCHANGED <<receiver, running, started, inputVars, outbox, inbox, serverVars>>

\* Mutant: the thread is detached instead.
Join_detaching(from, to) ==
    /\ Main(from, to)
    /\ started' = FALSE
    /\ UNCHANGED <<receiver, running, socket, inputVars, outbox, inbox, serverVars>>

\* JoinableThread::join, here and in the destructor of recv_thread_.
Join(from, to) ==
    /\ Main(from, to)
    /\ started => receiver = "ended"
    /\ started' = FALSE
    /\ UNCHANGED <<receiver, running, socket, inputVars, outbox, inbox, serverVars>>

\* The body of ~Client; the members are destroyed after it.
Destroy ==
    /\ Main("destroy", "destroy_thread")
    /\ running' = FALSE
    /\ socket' = IF socket = "none" THEN "none" ELSE "closed"
    /\ UNCHANGED <<receiver, started, inputVars, outbox, inbox, serverVars>>

MainStep ==
    \/ Connect \/ ConnectFails
    \/ MainReads \/ MainReadsNothing \/ Send
    \/ Spawn \/ SpawnFails
    \/ Stop \/ Shutdown \/ Join("join", "destroy")
    \/ Destroy \/ Join("destroy_thread", "exited")

-----------------------------------------------------------------------------
(* The receiving thread.                                                   *)

ReceiverTests ==
    /\ receiver = "test"
    /\ receiver' = IF running THEN "recv" ELSE "ended"
    /\ UNCHANGED <<main, running, started, socket, inputVars, outbox, inbox, serverVars>>

\* Mutant: a line that is no broadcast ends the loop.
ReceiverReads_until_ok ==
    /\ receiver = "recv"
    /\ inbox # <<>>
    /\ inbox' = Tail(inbox)
    /\ receiver' = IF Head(inbox) = "OK" THEN "ended" ELSE "test"
    /\ UNCHANGED <<main, running, started, socket, inputVars, outbox, serverVars>>

\* A line is shown, or ignored when its tag is not known.
ReceiverReads ==
    /\ receiver = "recv"
    /\ inbox # <<>>
    /\ inbox' = Tail(inbox)
    /\ receiver' = "test"
    /\ UNCHANGED <<main, running, started, socket, inputVars, outbox, serverVars>>

\* Mutant: an empty line is skipped like an unknown one.
ReceiverReadsNothing_goes_on ==
    /\ receiver = "recv"
    /\ AtEnd
    /\ receiver' = "test"
    /\ UNCHANGED <<main, running, started, socket, inputVars, outbox, inbox, serverVars>>

ReceiverReadsNothing ==
    /\ receiver = "recv"
    /\ AtEnd
    /\ receiver' = "ended"
    /\ UNCHANGED <<main, running, started, socket, inputVars, outbox, inbox, serverVars>>

ReceiverStep == ReceiverTests \/ ReceiverReads \/ ReceiverReadsNothing

-----------------------------------------------------------------------------
(* The server's end.                                                       *)

\* The handler reads a line and answers it with up to three lines (the OK and the
\* two of the banner) before it reads another one.
ServerReads ==
    /\ peer = "connected" /\ owed = 0
    /\ outbox > 0
    /\ outbox' = outbox - 1
    /\ owed' \in 0..3
    /\ UNCHANGED <<threadVars, socket, inputVars, inbox, peer, bcast>>

\* A line finds room at the client.
Arrives(line) ==
    /\ peer = "connected"
    /\ socket # "closed"
    /\ Len(inbox) < Capacity
    /\ inbox' = Append(inbox, line)
    /\ UNCHANGED <<threadVars, socket, inputVars, outbox, peer>>

ServerAnswers(line) ==
    /\ owed > 0
    /\ owed' = owed - 1
    /\ Arrives(line)
    /\ UNCHANGED bcast

\* Another handler thread delivers a chat message.
Broadcast ==
    /\ bcast < MaxBcast
    /\ bcast' = bcast + 1
    /\ Arrives("other")
    /\ UNCHANGED owed

\* The handler leaves, or shutdown_all closes the session.
ServerCloses ==
    /\ peer = "connected"
    /\ peer' = "closed"
    /\ UNCHANGED <<threadVars, socket, inputVars, outbox, inbox, owed, bcast>>

ServerServes == ServerReads \/ \E line \in Line : ServerAnswers(line)

Exited == main = "exited" /\ UNCHANGED vars

Next ==
    \/ MainStep \/ Type \/ EndOfInput
    \/ ReceiverStep
    \/ ServerServes \/ Broadcast \/ ServerCloses
    \/ Exited

Spec == Init /\ [][Next]_vars

\* The two threads are scheduled, and getline returns at once when its input
\* has ended.  The user need not type, and the server need not do anything.
FairSpec ==
    /\ Spec
    /\ WF_vars(MainStep) /\ WF_vars(input = "ended" /\ EndOfInput)
    /\ WF_vars(ReceiverStep)

-----------------------------------------------------------------------------
(* Safety.                                                                 *)

\* The two threads never read from the socket at the same time: they would
\* take the bytes of one line from each other (send_loop, recv_line).
OneReader == ~(main \in Reading /\ receiver = "recv")

\* The socket is closed, and its number free for reuse, only when the receiver
\* cannot read from it any more, on whatever way run() is left (~Client).
DescriptorOutlivesReceiver ==
    socket \in {"none", "closed"} => receiver \in {"none", "ended"}

\* client.h: the user can be kept waiting for without missing messages.  While
\* the chat goes on, the receiver is there, or everything the server has sent
\* before it closed the connection has been read (recv_loop).
NothingMissed ==
    main \in {"chat", "send_line", "send_exit"} /\ receiver = "ended" =>
        peer = "closed" /\ inbox = <<>>

(* Liveness.                                                               *)

\* Once the user has left the chat the program ends, whatever the server does
\* or does not: the receiver does not stay in recv (send_loop, ~Client).
ProgramEnds == main = "stop" ~> main = "exited"

\* The receiver ends by itself when the server has gone, although the main
\* thread still waits for the user (recv_loop).
ReceiverFollowsServer == peer = "closed" ~> receiver \in {"none", "ended"}

\* The program also ends when standard input does, in the middle of the
\* authentication too, as soon as the server says something or closes: the way
\* there leads through send_loop (auth_loop, do_register, do_login).
EndOfInputEnds ==
    WF_vars(ServerServes) /\ []<>(inbox # <<>> \/ peer = "closed") =>
        (input = "ended" ~> main = "exited")

\* Client and handler do not block each other with full buffers in the chat:
\* a typed line gets through as long as the handler goes on serving, because
\* the receiver makes room for its answers meanwhile (send_loop, recv_loop).
TypedLinesGetThrough ==
    WF_vars(ServerServes) => (main = "send_line" ~> main # "send_line")

-----------------------------------------------------------------------------
(* The inductive invariant.                                                *)

\* The receiver runs only between its start and the join in send_loop.
ReceiverWithin ==
    /\ receiver # "none" => main \in {"chat", "send_line", "send_exit"} \cup Ending
    /\ receiver \in {"test", "recv"} => started
    /\ started => receiver # "none" /\ main \in
            {"chat", "send_line", "send_exit", "stop", "shutdown", "join"}
    /\ main \in {"destroy", "destroy_thread", "exited"} => ~started

\* What the threads may rely on while they use the socket.
SocketWithin ==
    /\ socket = "none" => main \in {"connect", "destroy", "destroy_thread", "exited"}
    /\ socket = "shut" => main \in {"join", "destroy"}
    /\ socket = "closed" => main \in {"destroy_thread", "exited"}
    /\ main \in {"banner", "spawn", "chat", "send_line", "send_exit", "stop"} => running

ClientInv == TypeOK /\ ReceiverWithin /\ SocketWithin /\ NothingMissed

-----------------------------------------------------------------------------
(* The safety half of ProgramEnds.                                         *)

\* The join finds a receiver that has ended or will: it has been told to stop,
\* and if it is in recv there is something to read or the end (send_loop).
JoinReturns ==
    /\ main \in {"shutdown", "join"} => ~running
    /\ main = "join" => socket = "shut" /\ (receiver = "recv" => inbox # <<>> \/ AtEnd)

MainLeft == [stop |-> 5, shutdown |-> 4, join |-> 3, destroy |-> 2,
             destroy_thread |-> 1, exited |-> 0]
ReceiverLeft == [recv |-> 2, test |-> 1, ended |-> 0, none |-> 0]

\* Once running_ is false each of the two threads only comes nearer to its end,
\* however many lines the server still sends (send_loop, recv_loop, ~Client).
EndingAdvances ==
    [][(main \in Ending \ {"stop"}) =>
        \/ MainLeft[main'] < MainLeft[main] /\ receiver' = receiver
        \/ /\ main' = main
           /\ receiver' = receiver \/ ReceiverLeft[receiver'] < ReceiverLeft[receiver]]_vars
=============================================================================
