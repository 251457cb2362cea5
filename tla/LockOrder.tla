------------------------------ MODULE LockOrder ------------------------------
(***************************************************************************)
(* The server's mutexes and what is called with one held: the managers'    *)
(* and the thread group's, each session's username mutex, and the logger's *)
(* (LockGuard, Session, Logger, ThreadGroup).  BroadcastManager asks       *)
(* sessions for their names inside its critical sections, UserRegistry     *)
(* logs inside its own, and the logger writes a line to two streams.       *)
(*                                                                         *)
(* The other modules take the critical sections for steps; that nobody     *)
(* waits for ever for their mutexes is shown here.                         *)
(***************************************************************************)
EXTENDS Naturals, Sequences

CONSTANTS
    Handler,      \* handler threads, and the username mutexes of their sessions
    MainThread,
    Nobody,       \* no thread, no mutex
    MinLevel,     \* min_level_ of the logger
    MaxCalls      \* bound: calls made in a run

Level == 0..3     \* FATAL, WARNING, INFO, DEBUG
WARNING == 1

Thread == Handler \cup {MainThread}
Manager == {"clients", "rooms", "users", "tids"}
Mutex == Manager \cup {"log"} \cup Handler

\* Where the logger writes: log_file_, and std::cout or std::cerr.
Console == {"out", "err"}
Stream == {"file"} \cup Console

ASSUME LockAssumption ==
    /\ Handler \cap (Manager \cup {"log"}) = {}
    /\ Nobody \notin Thread \cup Mutex
    /\ MinLevel \in Level /\ MaxCalls \in Nat

VARIABLES
    owner,     \* who holds each mutex
    at,        \* where each thread is in its call
    outer,     \* the manager's mutex its call takes
    inner,     \* the mutex it wants or holds inside, or on its own
    names,     \* the sessions whose names it has still to ask for
    warns,     \* whether it has still to log a warning
    good,      \* the streams that still take lines
    lines,     \* how many lines have been logged: a line is its number
    line,      \* the line a thread has logged and not yet mirrored, or 0
    written,   \* the lines each stream has taken
    calls      \* how many calls have been made

threadVars == <<at, outer, inner, names, warns>>
logVars == <<good, lines, line, written>>
vars == <<owner, threadVars, logVars, calls>>

TypeOK ==
    /\ owner \in [Mutex -> Thread \cup {Nobody}]
    /\ at \in [Thread -> {"idle", "outer", "inside", "inner", "nested", "console"}]
    /\ outer \in [Thread -> Manager \cup {Nobody}]
    /\ inner \in [Thread -> Handler \cup {"log", Nobody}]
    /\ names \in [Thread -> SUBSET Handler]
    /\ warns \in [Thread -> BOOLEAN]
    /\ good \in SUBSET Stream
    /\ lines \in Nat /\ line \in [Thread -> Nat]
    /\ written \in [Stream -> Seq(Nat)]
    /\ calls \in 0..MaxCalls

\* The constructor may fail to open the file: the console is all there is then.
Init ==
    /\ owner = [m \in Mutex |-> Nobody]
    /\ at = [t \in Thread |-> "idle"]
    /\ outer = [t \in Thread |-> Nobody]
    /\ inner = [t \in Thread |-> Nobody]
    /\ names = [t \in Thread |-> {}]
    /\ warns = [t \in Thread |-> FALSE]
    /\ good \in {Stream, Console}
    /\ lines = 0 /\ line = [t \in Thread |-> 0]
    /\ written = [s \in Stream |-> <<>>]
    /\ calls = 0

-----------------------------------------------------------------------------
(* What a thread calls.                                                    *)

Begins(t, place) ==
    /\ at[t] = "idle" /\ calls < MaxCalls
    /\ at' = [at EXCEPT ![t] = place]
    /\ calls' = calls + 1

\* A manager's operation takes its mutex, asks some sessions for their names
\* inside, and may log a line inside.
CallManager(t, m, asked, warning) ==
    /\ Begins(t, "outer")
    /\ outer' = [outer EXCEPT ![t] = m]
    /\ names' = [names EXCEPT ![t] = asked]
    /\ warns' = [warns EXCEPT ![t] = warning]
    /\ UNCHANGED <<owner, inner, logVars>>

\* add_client and remove_client ask the session they are called for.
ListCall(t) == t \in Handler /\ CallManager(t, "clients", {t}, FALSE)

\* broadcast asks the listed sessions that are active; send_private none, and
\* so does shutdown_all.
SnapshotCall(t) ==
    \/ t \in Handler /\ \E listed \in SUBSET Handler : CallManager(t, "clients", listed, FALSE)
    \/ t = MainThread /\ CallManager(t, "clients", {}, FALSE)

\* join_room, leave_room, leave_all, and broadcast_to_room up to its sends.
RoomCall(t) == t \in Handler /\ CallManager(t, "rooms", {}, FALSE)

\* register_user warns inside its critical section when it cannot save; it and
\* the other two operations of the registry log nothing else.
RegistryCall(t) ==
    t \in Handler /\ \E unsaved \in BOOLEAN : CallManager(t, "users", {}, unsaved)

\* add, and the swap of join_all, which joins without the mutex.
GroupCall(t) == t = MainThread /\ CallManager(t, "tids", {}, FALSE)

\* get_username and set_username, of any session a handler has a pointer to.
NameCall(t) ==
    /\ t \in Handler
    /\ Begins(t, "inner")
    /\ \E s \in Handler : inner' = [inner EXCEPT ![t] = s]
    /\ UNCHANGED <<owner, outer, names, warns, logVars>>

\* log: a line above the minimum level is dropped before the mutex is asked for.
LogCall(t) ==
    \E l \in Level :
        /\ Begins(t, IF l > MinLevel THEN "idle" ELSE "inner")
        /\ inner' = IF l > MinLevel THEN inner ELSE [inner EXCEPT ![t] = "log"]
        /\ UNCHANGED <<owner, outer, names, warns, logVars>>

-----------------------------------------------------------------------------
(* The mutexes.                                                            *)

\* pthread_mutex_lock returns when the mutex is free, and not before.
Lock(t, m) == owner[m] = Nobody /\ owner' = [owner EXCEPT ![m] = t]

Unlock(m) == owner' = [owner EXCEPT ![m] = Nobody]

LockOuter(t) ==
    /\ at[t] = "outer"
    /\ Lock(t, outer[t])
    /\ at' = [at EXCEPT ![t] = "inside"]
    /\ UNCHANGED <<outer, inner, names, warns, logVars, calls>>

AskName(t) ==
    /\ at[t] = "inside"
    /\ \E s \in names[t] :
        /\ names' = [names EXCEPT ![t] = @ \ {s}]
        /\ inner' = [inner EXCEPT ![t] = s]
    /\ at' = [at EXCEPT ![t] = "inner"]
    /\ UNCHANGED <<owner, outer, warns, logVars, calls>>

AskLog(t) ==
    /\ at[t] = "inside"
    /\ names[t] = {} /\ warns[t]
    /\ warns' = [warns EXCEPT ![t] = FALSE]
    /\ IF WARNING > MinLevel
         THEN UNCHANGED <<at, inner>>
         ELSE inner' = [inner EXCEPT ![t] = "log"] /\ at' = [at EXCEPT ![t] = "inner"]
    /\ UNCHANGED <<owner, outer, names, logVars, calls>>

LockInner(t) ==
    /\ at[t] = "inner"
    /\ Lock(t, inner[t])
    /\ at' = [at EXCEPT ![t] = "nested"]
    /\ UNCHANGED <<outer, inner, names, warns, logVars, calls>>

\* The inner call is over: back to the manager that made it, if one did.
Back(t) ==
    /\ at' = [at EXCEPT ![t] = IF outer[t] = Nobody THEN "idle" ELSE "inside"]
    /\ inner' = [inner EXCEPT ![t] = Nobody]

\* Mutant: get_username returns between its lock and its unlock.
UnlockName_forgotten(t) ==
    /\ at[t] = "nested" /\ inner[t] # "log"
    /\ Back(t)
    /\ UNCHANGED <<owner, outer, names, warns, logVars, calls>>

UnlockName(t) ==
    /\ at[t] = "nested" /\ inner[t] # "log"
    /\ Unlock(inner[t])
    /\ Back(t)
    /\ UNCHANGED <<outer, names, warns, logVars, calls>>

UnlockOuter(t) ==
    /\ at[t] = "inside"
    /\ names[t] = {} /\ ~warns[t]
    /\ Unlock(outer[t])
    /\ at' = [at EXCEPT ![t] = "idle"]
    /\ outer' = [outer EXCEPT ![t] = Nobody]
    /\ UNCHANGED <<inner, names, warns, logVars, calls>>

-----------------------------------------------------------------------------
(* Logger::log with its mutex held.                                        *)

\* A stream that has failed once, on a full disk for instance, is never cleared
\* and takes no line any more.
Writes(s, n) ==
    \/ s \in good /\ written' = [written EXCEPT ![s] = Append(@, n)] /\ UNCHANGED good
    \/ good' = good \ {s} /\ UNCHANGED written

\* Mutant: the mutex protects the file alone.
WriteFile_unlocking(t) ==
    /\ at[t] = "nested" /\ inner[t] = "log"
    /\ lines' = lines + 1
    /\ line' = [line EXCEPT ![t] = lines + 1]
    /\ Writes("file", lines + 1)
    /\ Unlock("log")
    /\ at' = [at EXCEPT ![t] = "console"]
    /\ UNCHANGED <<outer, inner, names, warns, calls>>

WriteFile(t) ==
    /\ at[t] = "nested" /\ inner[t] = "log"
    /\ lines' = lines + 1
    /\ line' = [line EXCEPT ![t] = lines + 1]
    /\ Writes("file", lines + 1)
    /\ at' = [at EXCEPT ![t] = "console"]
    /\ UNCHANGED <<owner, outer, inner, names, warns, calls>>

\* Mutant: the mutex stays locked.
WriteConsole_locked(t) ==
    /\ at[t] = "console"
    /\ \E s \in Console : Writes(s, line[t])
    /\ line' = [line EXCEPT ![t] = 0]
    /\ Back(t)
    /\ UNCHANGED <<owner, outer, names, warns, lines, calls>>

\* stderr or stdout, whichever the level; then the guard's destructor unlocks.
WriteConsole(t) ==
    /\ at[t] = "console"
    /\ \E s \in Console : Writes(s, line[t])
    /\ line' = [line EXCEPT ![t] = 0]
    /\ Unlock("log")
    /\ Back(t)
    /\ UNCHANGED <<outer, names, warns, lines, calls>>

-----------------------------------------------------------------------------
Calls(t) ==
    \/ ListCall(t) \/ SnapshotCall(t) \/ RoomCall(t) \/ RegistryCall(t)
    \/ GroupCall(t) \/ NameCall(t) \/ LogCall(t)

Step(t) ==
    \/ LockOuter(t) \/ AskName(t) \/ AskLog(t) \/ LockInner(t)
    \/ UnlockName(t) \/ UnlockOuter(t) \/ WriteFile(t) \/ WriteConsole(t)

Rest ==
    /\ calls = MaxCalls /\ \A t \in Thread : at[t] = "idle"
    /\ UNCHANGED vars

Next == (\E t \in Thread : Calls(t) \/ Step(t)) \/ Rest

Spec == Init /\ [][Next]_vars

\* Threads are scheduled; nobody is obliged to make a call.
FairSpec == Spec /\ \A t \in Thread : WF_vars(Step(t))

-----------------------------------------------------------------------------
(* Safety.                                                                 *)

\* A mutex is held by the thread that is in its critical section, and by one.
Holds(t, m) ==
    \/ outer[t] = m /\ at[t] \in {"inside", "inner", "nested", "console"}
    \/ inner[t] = m /\ at[t] \in {"nested", "console"}

\* The mutexes are held as the threads' places say, so an inner mutex is held
\* only by a thread that waits for nothing.
LocksInv ==
    /\ TypeOK
    /\ \A t \in Thread, m \in Mutex : owner[m] = t <=> Holds(t, m)
    /\ \A t \in Thread :
        /\ at[t] = "idle" => outer[t] = Nobody
        /\ at[t] \in {"outer", "inside"} => outer[t] # Nobody
        /\ at[t] \in {"inner", "nested", "console"} <=> inner[t] # Nobody
        /\ at[t] = "console" => inner[t] = "log"

Awaited(t) == IF at[t] = "outer" THEN outer[t] ELSE inner[t]

Waiting(t) == at[t] \in {"outer", "inner"} /\ owner[Awaited(t)] # Nobody

\* No threads wait for one another in a circle, whatever they call and however
\* their calls nest (add_client, broadcast, register_user, log).
NoWaitCycle ==
    \A circle \in (SUBSET Thread) \ {{}} :
        \E t \in circle : Waiting(t) => owner[Awaited(t)] \notin circle

\* Stronger: whoever is waited for goes on without waiting, or waits for one
\* who does.
WaitsAreShort ==
    \A t \in Thread : Waiting(t) =>
        LET first == owner[Awaited(t)]
            second == owner[Awaited(first)]
        IN  /\ first \in Thread
            /\ Waiting(first) => second \in Thread /\ ~Waiting(second)

\* How far a call is from its end, between two of the inner calls it makes.
Distance ==
    [outer |-> 5, inner |-> 4, nested |-> 3, console |-> 2, inside |-> 1, idle |-> 0]

Nearer(t) ==
    \/ names'[t] # names[t] /\ names'[t] \subseteq names[t]
    \/ names'[t] = names[t] /\ warns[t] /\ ~warns'[t]
    \/ names'[t] = names[t] /\ warns'[t] = warns[t] /\ Distance[at'[t]] < Distance[at[t]]

\* A call under way comes nearer to its end with every step of its thread, and
\* no other thread does anything to it but hold a mutex it wants.
CallsAdvance ==
    [][\A t \in Thread : at[t] # "idle" =>
        \/ Nearer(t)
        \/ /\ at'[t] = at[t] /\ outer'[t] = outer[t] /\ inner'[t] = inner[t]
           /\ names'[t] = names[t] /\ warns'[t] = warns[t]]_vars

\* logger.h: all writes are serialized.  Whatever streams fail on the way, each
\* takes its lines in the order in which they were logged; a file that has not
\* failed has them all, and a console that has not failed all but the one just
\* being written.
On(s) == {written[s][i] : i \in 1..Len(written[s])}

LinesInOrder ==
    /\ \A s \in Stream : \A i, j \in 1..Len(written[s]) :
          i < j => written[s][i] < written[s][j]
    /\ \A n \in 1..lines :
        /\ "file" \in good => n \in On("file")
        /\ Console \subseteq good =>
            \/ n \in On("out") \cup On("err")
            \/ \E t \in Thread : at[t] = "console" /\ line[t] = n

\* Why: the line being written is the last one, and no console has it yet.
LogInv ==
    /\ LinesInOrder
    /\ \A s \in Stream : On(s) \subseteq 1..lines
    /\ \A t \in Thread : at[t] = "console" =>
        line[t] = lines /\ lines > 0 /\ \A s \in Console : lines \notin On(s)

(* Liveness.                                                               *)

\* Every call returns: every mutex that is taken is given back (LockGuard, and
\* by hand in get_username, set_username and shutdown_all).  A run has finitely
\* many calls; without that a mutex could go to the others for ever.
CallsReturn == \A t \in Thread : at[t] # "idle" ~> at[t] = "idle"
=============================================================================
