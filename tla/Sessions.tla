------------------------------ MODULE Sessions ------------------------------
(***************************************************************************)
(* The Session class (src/src/core/session.cpp) and the descriptor it owns *)
(* (src/include/mpcc/core/unique_fd.h).  A session is one accepted         *)
(* connection: it is constructed by the accept loop, shared by raw pointer *)
(* with the managers and with other handler threads, and deleted by its    *)
(* own handler thread.                                                     *)
(*                                                                         *)
(* This module has the state of the session objects and one operator per   *)
(* operation.  The operators are composed into steps by ClientHandler.     *)
(***************************************************************************)
CONSTANTS
    Session,          \* the session objects a run may allocate, never reused
    User,             \* user names
    Unauthenticated   \* the placeholder name "(unauthenticated)"

ASSUME UnauthenticatedIsNoUser == Unauthenticated \notin User

VARIABLES
    life,      \* life[s]: "unallocated", "live" after new, "freed" after delete
    active,    \* active_: the atomic flag every sender tests
    fd_open,   \* client_fd_.valid(): the descriptor has not been closed
    username   \* username_, written once

sessionVars == <<life, active, fd_open, username>>

SessionTypeOK ==
    /\ life \in [Session -> {"unallocated", "live", "freed"}]
    /\ active \in [Session -> BOOLEAN]
    /\ fd_open \in [Session -> BOOLEAN]
    /\ username \in [Session -> User \cup {Unauthenticated}]

SessionInit ==
    /\ life = [s \in Session |-> "unallocated"]
    /\ active = [s \in Session |-> FALSE]
    /\ fd_open = [s \in Session |-> FALSE]
    /\ username = [s \in Session |-> Unauthenticated]

construct(s) ==
    /\ life[s] = "unallocated"
    /\ life' = [life EXCEPT ![s] = "live"]
    /\ active' = [active EXCEPT ![s] = TRUE]
    /\ fd_open' = [fd_open EXCEPT ![s] = TRUE]
    /\ username' = [username EXCEPT ![s] = Unauthenticated]

\* The name is immutable after the first call; later calls are ignored.
set_username(s, u) ==
    username' = [username EXCEPT ![s] = IF @ = Unauthenticated THEN u ELSE @]

\* The compare-and-swap on active_ picks one closer.  A session that a failed
\* send has already deactivated is NOT closed here: its descriptor stays open.
close_session(s) ==
    /\ active' = [active EXCEPT ![s] = FALSE]
    /\ fd_open' = [fd_open EXCEPT ![s] = @ /\ ~active[s]]

\* ~Session calls close_session, then ~UniqueFd closes what is still open.
destroy(s) ==
    /\ life' = [life EXCEPT ![s] = "freed"]
    /\ active' = [active EXCEPT ![s] = FALSE]
    /\ fd_open' = [fd_open EXCEPT ![s] = FALSE]

\* The three ways send_msg ends.  A failed send (peer reset, or EINTR, which is
\* not retried) clears active_ and leaves the descriptor open.
send_refused(s)   == ~active[s] /\ UNCHANGED active
send_delivered(s) == active[s] /\ UNCHANGED active
send_failed(s)    == active[s] /\ active' = [active EXCEPT ![s] = FALSE]

\* A send whose result the caller ignores.
send_msg(s) == send_refused(s) \/ send_delivered(s) \/ send_failed(s)

-----------------------------------------------------------------------------
(* The class by itself: whoever holds the pointer, a session does nothing  *)
(* but this.  ClientHandler is built on it, and Wire, which has numbers    *)
(* instead of a flag and closes in two steps, implements it.               *)

SessionStep(s) ==
    \/ construct(s)
    \/ life[s] = "live" /\
        \/ (\E u \in User : set_username(s, u)) /\ UNCHANGED <<life, active, fd_open>>
        \/ send_failed(s) /\ UNCHANGED <<life, fd_open, username>>
        \/ close_session(s) /\ UNCHANGED <<life, username>>
        \/ destroy(s) /\ UNCHANGED username

SessionSpec == SessionInit /\ [][\E s \in Session : SessionStep(s)]_sessionVars
=============================================================================
