-------------------------- MODULE BroadcastManager --------------------------
(***************************************************************************)
(* The BroadcastManager (src/src/server/broadcast_manager.cpp): the list   *)
(* of authenticated sessions and the index by name for private messages,   *)
(* both under one mutex.  The order of clients_ only decides the order of  *)
(* the sends, which no property tells apart, so the list is a set.         *)
(*                                                                         *)
(* Every operation but shutdown_all is one critical section without other  *)
(* visible effects and is one operator here.  shutdown_all closes sessions *)
(* one by one while it holds the mutex, and handlers can see a session     *)
(* closed before the next one is: it is split into three steps.            *)
(***************************************************************************)
EXTENDS Sessions

CONSTANT NoSession   \* by_name_ has no entry

ASSUME NoSessionIsNoSession == NoSession \notin Session

VARIABLES
    clients,   \* clients_
    by_name,   \* by_name_: the session that logged in last under a name
    mutex      \* mutex_: "free", or held across the steps of shutdown_all

managerVars == <<clients, by_name, mutex>>

BroadcastTypeOK ==
    /\ clients \in SUBSET Session
    /\ by_name \in [User -> Session \cup {NoSession}]
    /\ mutex \in {"free", "shutdown_all"}

BroadcastInit ==
    /\ clients = {}
    /\ by_name = [u \in User |-> NoSession]
    /\ mutex = "free"

add_client(s) ==
    /\ mutex = "free"
    /\ clients' = clients \cup {s}
    /\ by_name' = [by_name EXCEPT ![username[s]] = s]
    /\ UNCHANGED mutex

\* Mutant: the name index is not cleaned up.
remove_client_keeping_name(s) ==
    /\ mutex = "free"
    /\ clients' = clients \ {s}
    /\ UNCHANGED <<by_name, mutex>>

\* Mutant: the name is dropped whichever session it points at.
remove_client_dropping_name(s) ==
    /\ mutex = "free"
    /\ clients' = clients \ {s}
    /\ by_name' = [u \in User |-> IF u = username[s] THEN NoSession ELSE by_name[u]]
    /\ UNCHANGED mutex

\* The name is dropped only when it still points at this session.
remove_client(s) ==
    /\ mutex = "free"
    /\ clients' = clients \ {s}
    /\ by_name' = [u \in User |-> IF u = username[s] /\ by_name[u] = s
                                    THEN NoSession
                                    ELSE by_name[u]]
    /\ UNCHANGED mutex

\* The copy broadcast() takes under the mutex.
broadcast_snapshot(sender) ==
    {t \in clients : active[t] /\ username[t] # sender}

\* The target send_private() finds under the mutex: one session or none.
private_target(to) ==
    {t \in {by_name[to]} \ {NoSession} : active[t]}

shutdown_all_begin ==
    /\ mutex = "free"
    /\ mutex' = "shutdown_all"
    /\ UNCHANGED <<clients, by_name>>

shutdown_all_close(s) ==
    /\ mutex = "shutdown_all"
    /\ s \in clients /\ active[s]
    /\ close_session(s)
    /\ UNCHANGED <<clients, by_name, mutex>>

\* active_ never becomes true again, so the loop over clients_ is over exactly
\* when no listed session is active.
shutdown_all_end ==
    /\ mutex = "shutdown_all"
    /\ \A s \in clients : ~active[s]
    /\ clients' = {}
    /\ by_name' = [u \in User |-> NoSession]
    /\ mutex' = "free"
=============================================================================
