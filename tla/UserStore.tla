----------------------------- MODULE UserStore -----------------------------
(***************************************************************************)
(* What IUserStore (src/include/mpcc/core/interfaces.h) promises its       *)
(* callers, the handler threads: a table of users whose operations take    *)
(* effect at one moment between call and return, which a crash of the      *)
(* process neither loses nor half-performs.  A registration may fail       *)
(* although the name is free, when the disk refuses it; then nothing has   *)
(* happened.  UserRegistry implements this with a file.                    *)
(***************************************************************************)
CONSTANTS
    Thread,     \* handler threads
    User,       \* user names
    Password    \* passwords, as encrypted by the caller

VARIABLES
    users,      \* the table: a function from registered names to passwords
    phase,      \* phase[t]: "idle", "called" or "performed"
    call,       \* call[t]: the operation and its arguments
    answer      \* answer[t]: what the operation will return

storeVars == <<users, phase, call, answer>>

Call ==
    [op : {"register_user", "authenticate"}, name : User, password : Password]
        \cup [op : {"user_exists"}, name : User]

NoCall == [op |-> "none"]

StoreInit ==
    /\ users = [u \in {} |-> NoCall]
    /\ phase = [t \in Thread |-> "idle"]
    /\ call = [t \in Thread |-> NoCall]
    /\ answer = [t \in Thread |-> FALSE]

StoreCall(t, c) ==
    /\ phase[t] = "idle"
    /\ phase' = [phase EXCEPT ![t] = "called"]
    /\ call' = [call EXCEPT ![t] = c]
    /\ UNCHANGED <<users, answer>>

Answers(t, result) ==
    /\ phase[t] = "called"
    /\ phase' = [phase EXCEPT ![t] = "performed"]
    /\ answer' = [answer EXCEPT ![t] = result]
    /\ UNCHANGED call

\* The name was free and has been taken.
Registered(t) ==
    /\ call[t].op = "register_user"
    /\ call[t].name \notin DOMAIN users
    /\ users' = [u \in DOMAIN users \cup {call[t].name} |->
                    IF u = call[t].name THEN call[t].password ELSE users[u]]
    /\ Answers(t, TRUE)

\* The name was taken, or the disk failed.
RegistrationRefused(t) ==
    /\ call[t].op = "register_user"
    /\ UNCHANGED users
    /\ Answers(t, FALSE)

Authenticated(t) ==
    /\ call[t].op = "authenticate"
    /\ UNCHANGED users
    /\ Answers(t, /\ call[t].name \in DOMAIN users
                  /\ users[call[t].name] = call[t].password)

Looked(t) ==
    /\ call[t].op = "user_exists"
    /\ UNCHANGED users
    /\ Answers(t, call[t].name \in DOMAIN users)

StoreReturn(t) ==
    /\ phase[t] = "performed"
    /\ phase' = [phase EXCEPT ![t] = "idle"]
    /\ call' = [call EXCEPT ![t] = NoCall]
    /\ answer' = [answer EXCEPT ![t] = FALSE]
    /\ UNCHANGED users

\* The process dies: pending calls are gone, the table stays.
StoreCrash ==
    /\ phase' = [t \in Thread |-> "idle"]
    /\ call' = [t \in Thread |-> NoCall]
    /\ answer' = [t \in Thread |-> FALSE]
    /\ UNCHANGED users

StoreNext ==
    \/ \E t \in Thread :
        \/ \E c \in Call : StoreCall(t, c)
        \/ Registered(t) \/ RegistrationRefused(t)
        \/ Authenticated(t) \/ Looked(t)
        \/ StoreReturn(t)
    \/ StoreCrash

StoreSpec == StoreInit /\ [][StoreNext]_storeVars
=============================================================================
