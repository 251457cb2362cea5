--------------------------- MODULE Authentication ---------------------------
(***************************************************************************)
(* What try_authenticate (src/src/server/client_handler.cpp) promises about *)
(* one connection: it is let in under a name it has registered while the   *)
(* name was free or that was registered before, or it is sent away, after  *)
(* at most MaxAttempts attempts; and it is let in at most once.            *)
(*                                                                         *)
(* AuthDialogue, with its two programs that lose each other, implements    *)
(* this for one connection, and ClientHandler, where an attempt is a       *)
(* single step, for each of its connections.                               *)
(***************************************************************************)
EXTENDS Naturals

CONSTANTS
    User,          \* the names an account can have
    Nobody,        \* the name of a connection that has not been let in
    MaxAttempts    \* MAX_AUTH_ATTEMPTS

VARIABLES
    state,         \* "trying", then "in" and "out", or at once "out"
    failures,      \* the attempts that have failed, while trying
    name,          \* the user the connection has been let in as
    registered     \* the names in the user store

authVars == <<state, failures, name, registered>>

AuthInit ==
    /\ state = "trying" /\ failures = 0 /\ name = Nobody
    /\ registered \in SUBSET User

Fails ==
    /\ state = "trying"
    /\ failures + 1 < MaxAttempts
    /\ failures' = failures + 1
    /\ UNCHANGED <<state, name, registered>>

\* The last attempt fails, or the connection is lost before that.
GivesUp ==
    /\ state = "trying"
    /\ state' = "out" /\ failures' = 0
    /\ UNCHANGED <<name, registered>>

LetIn(u) ==
    /\ state = "trying"
    /\ state' = "in" /\ failures' = 0
    /\ name' = u

Registers(u) ==
    /\ u \notin registered
    /\ registered' = registered \cup {u}
    /\ LetIn(u)

LogsIn(u) ==
    /\ u \in registered
    /\ UNCHANGED registered
    /\ LetIn(u)

Leaves ==
    /\ state = "in"
    /\ state' = "out"
    /\ UNCHANGED <<failures, name, registered>>

\* Other connections register names; no name is ever lost.
OthersRegister ==
    /\ registered' \in SUBSET User
    /\ registered \subseteq registered'
    /\ UNCHANGED <<state, failures, name>>

AuthNext ==
    \/ Fails \/ GivesUp \/ Leaves \/ OthersRegister
    \/ \E u \in User : Registers(u) \/ LogsIn(u)

AuthSpec == AuthInit /\ [][AuthNext]_authVars
=============================================================================
