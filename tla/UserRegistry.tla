---------------------------- MODULE UserRegistry ----------------------------
(***************************************************************************)
(* The user store in a flat file (src/src/server/user_registry.cpp) over   *)
(* FileIO (src/src/core/file_io.cpp).  Handler threads call it; one mutex  *)
(* serialises the operations; every operation reads the whole file, and a  *)
(* registration writes all of it to a temporary file that is then renamed  *)
(* over it.  The process can be killed between any two steps, after which  *)
(* it is started again on what is on the disk.                             *)
(*                                                                         *)
(* A line of the file is a name and the password in hex.  The hex form is  *)
(* kept apart from the password it encodes.                                *)
(***************************************************************************)
EXTENDS Naturals, Sequences

CONSTANTS
    Thread, User, Password,   \* as in UserStore
    Faults,                   \* what the file system may do wrong in a run
    MaxLines                  \* bound: a longer file gets no new registration

\* "write" is an error that fails an open, a write or the rename, so that the
\* code sees it.  "flush" is an error when the closing stream flushes its
\* buffer, after good() has been asked.  "read" is a file that exists and
\* cannot be opened for reading.
ASSUME FaultsAssumption == Faults \subseteq {"write", "flush", "read"}

ASSUME BoundAssumption == MaxLines \in Nat

VARIABLES
    file,      \* the lines of filepath_; the empty sequence if there is no file
    tmp,       \* the lines in filepath_.tmp that have reached the disk
    mutex,     \* mutex_: the thread that holds it, or Free
    pc,        \* where each thread is inside the registry
    call,      \* the operation each thread performs, as in UserStore
    records,   \* the local variable of register_user
    answer,    \* the result to be returned
    promised,  \* history: the registrations acknowledged before a silent fault
    damage     \* history: the silent faults that have had an effect

diskVars == <<file, tmp>>
threadVars == <<mutex, pc, call, records, answer>>
historyVars == <<promised, damage>>
vars == <<diskVars, threadVars, historyVars>>

Free == "free"

ASSUME FreeAssumption == Free \notin Thread

Call ==
    [op : {"register_user", "authenticate"}, name : User, password : Password]
        \cup [op : {"user_exists"}, name : User]
NoCall == [op |-> "none"]

to_hex(password) == [hex |-> password]
from_hex(stored) == stored.hex
Record == [name : User, stored : {to_hex(p) : p \in Password}]

\* The labels at which a thread holds the mutex.
Critical == {"find", "load", "open", "write", "rename"}

TypeOK ==
    /\ file \in Seq(Record) /\ tmp \in Seq(Record)
    /\ pc \in [Thread -> {"idle", "lock", "return"} \cup Critical]
    /\ mutex \in Thread \cup {Free}
    /\ \A t \in Thread : pc[t] \in Critical <=> mutex = t
    /\ call \in [Thread -> Call \cup {NoCall}]
    /\ \A t \in Thread : pc[t] # "idle" => call[t] \in Call
    /\ records \in [Thread -> Seq(Record)]
    /\ answer \in [Thread -> BOOLEAN]
    /\ promised \in SUBSET [name : User, password : Password]
    /\ damage \in SUBSET {"flush", "read"}

Init ==
    /\ file = <<>> /\ tmp = <<>>
    /\ mutex = Free
    /\ pc = [t \in Thread |-> "idle"]
    /\ call = [t \in Thread |-> NoCall]
    /\ records = [t \in Thread |-> <<>>]
    /\ answer = [t \in Thread |-> FALSE]
    /\ promised = {} /\ damage = {}

-----------------------------------------------------------------------------
(* The file.                                                               *)

Names(lines) == {lines[i].name : i \in DOMAIN lines}

\* find_user_locked takes the first line with the name.
Stored(lines, u) ==
    LET first == CHOOSE i \in DOMAIN lines :
                    /\ lines[i].name = u
                    /\ \A j \in 1..(i - 1) : lines[j].name # u
    IN  lines[first].stored

\* What read_all_lines can return: a file that cannot be opened reads as empty.
Readings == {file} \cup (IF "read" \in Faults THEN {<<>>} ELSE {})

\* The program does not notice that a reading is not the file; damage does.
ReadAs(lines) ==
    damage' = IF lines = file THEN damage ELSE damage \cup {"read"}

-----------------------------------------------------------------------------
(* The steps of an operation.                                              *)

Enter(t, from, to) == pc[t] = from /\ pc' = [pc EXCEPT ![t] = to]

\* The operation is over and the mutex released, with the result to return.
Answer(t, from, result) ==
    /\ Enter(t, from, "return")
    /\ mutex' = Free
    /\ answer' = [answer EXCEPT ![t] = result]
    /\ UNCHANGED <<call, records, promised>>

Continue(t, from, to) ==
    /\ Enter(t, from, to)
    /\ UNCHANGED <<mutex, call, answer, promised>>

Invoke(t, c) ==
    /\ Enter(t, "idle", "lock")
    /\ c.op = "register_user" => Len(file) < MaxLines
    /\ call' = [call EXCEPT ![t] = c]
    /\ UNCHANGED <<diskVars, mutex, records, answer, historyVars>>

\* Mutant: the mutex is not waited for.
Lock_without_waiting(t) ==
    /\ Enter(t, "lock", "find")
    /\ mutex' = t
    /\ UNCHANGED <<diskVars, call, records, answer, historyVars>>

Lock(t) ==
    /\ Enter(t, "lock", "find")
    /\ mutex = Free
    /\ mutex' = t
    /\ UNCHANGED <<diskVars, call, records, answer, historyVars>>

\* Mutant: any password will do.
Find_any_password(t) ==
    \E lines \in Readings :
        LET found == call[t].name \in Names(lines)
        IN  /\ UNCHANGED diskVars
            /\ ReadAs(lines)
            /\ IF call[t].op = "register_user" /\ ~found
                 THEN Continue(t, "find", "load") /\ UNCHANGED records
                 ELSE Answer(t, "find", found /\ call[t].op # "register_user")

\* The first reading of the file decides everything but a registration of a
\* free name.
Find(t) ==
    \E lines \in Readings :
        LET found == call[t].name \in Names(lines)
            matches == from_hex(Stored(lines, call[t].name)) = call[t].password
        IN  /\ UNCHANGED diskVars
            /\ ReadAs(lines)
            /\ \/ /\ call[t].op = "register_user" /\ ~found
                  /\ Continue(t, "find", "load")
                  /\ UNCHANGED records
               \/ /\ call[t].op = "register_user" /\ found
                  /\ Answer(t, "find", FALSE)
               \/ /\ call[t].op = "authenticate"
                  /\ Answer(t, "find", found /\ matches)
               \/ /\ call[t].op = "user_exists"
                  /\ Answer(t, "find", found)

NewRecord(t) == [name |-> call[t].name, stored |-> to_hex(call[t].password)]

\* Mutant: the other records are forgotten.
Load_new_only(t) ==
    /\ Continue(t, "load", "open")
    /\ records' = [records EXCEPT ![t] = <<NewRecord(t)>>]
    /\ UNCHANGED <<diskVars, damage>>

\* register_user reads the file a second time and appends the new record.
Load(t) ==
    /\ Continue(t, "load", "open")
    /\ \E lines \in Readings :
            /\ records' = [records EXCEPT ![t] = Append(lines, NewRecord(t))]
            /\ ReadAs(lines)
    /\ UNCHANGED diskVars

\* The directory is there and the temporary file is opened, which empties it.
OpenTmp(t) ==
    /\ Continue(t, "open", "write")
    /\ tmp' = <<>>
    /\ UNCHANGED <<file, records, damage>>

\* A line reaches the disk.
WriteLine(t) ==
    /\ Continue(t, "write", "write")
    /\ Len(tmp) < Len(records[t])
    /\ tmp' = Append(tmp, records[t][Len(tmp) + 1])
    /\ UNCHANGED <<file, records, damage>>

\* The stream is good and its closing flush works.
CloseTmp(t) ==
    /\ Continue(t, "write", "rename")
    /\ tmp = records[t]
    /\ UNCHANGED <<diskVars, records, damage>>

\* The stream was good, but the closing flush cannot write what it holds; the
\* destructor of the stream tells nobody.
CloseLosesLines(t) ==
    /\ "flush" \in Faults
    /\ Continue(t, "write", "rename")
    /\ Len(tmp) < Len(records[t])
    /\ damage' = damage \cup {"flush"}
    /\ UNCHANGED <<diskVars, records>>

Rename(t) ==
    /\ Answer(t, "rename", TRUE)
    /\ file' = tmp /\ tmp' = <<>>
    /\ UNCHANGED damage

\* Mutant: the result of the failed system call is not looked at.
IoFails_unnoticed(t) ==
    /\ "write" \in Faults
    /\ \E label \in {"open", "write", "rename"} : Answer(t, label, TRUE)
    /\ UNCHANGED <<diskVars, damage>>

\* Mutant: the early return leaves the mutex locked.
IoFails_locked(t) ==
    /\ "write" \in Faults
    /\ \E label \in {"open", "write", "rename"} : Enter(t, label, "return")
    /\ answer' = [answer EXCEPT ![t] = FALSE]
    /\ UNCHANGED <<diskVars, mutex, call, records, historyVars>>

\* mkdir, open, a write or the rename fails: the registration is refused and
\* the temporary file stays as it is.
IoFails(t) ==
    /\ "write" \in Faults
    /\ \E label \in {"open", "write", "rename"} : Answer(t, label, FALSE)
    /\ UNCHANGED <<diskVars, damage>>

Return(t) ==
    /\ Enter(t, "return", "idle")
    /\ promised' = IF call[t].op = "register_user" /\ answer[t] /\ damage = {}
                     THEN promised \cup {[name |-> call[t].name,
                                          password |-> call[t].password]}
                     ELSE promised
    /\ call' = [call EXCEPT ![t] = NoCall]
    /\ records' = [records EXCEPT ![t] = <<>>]
    /\ answer' = [answer EXCEPT ![t] = FALSE]
    /\ UNCHANGED <<diskVars, mutex, damage>>

\* The process is killed and started again.
Crash ==
    /\ mutex' = Free
    /\ pc' = [t \in Thread |-> "idle"]
    /\ call' = [t \in Thread |-> NoCall]
    /\ records' = [t \in Thread |-> <<>>]
    /\ answer' = [t \in Thread |-> FALSE]
    /\ UNCHANGED <<diskVars, historyVars>>

Operation(t) ==
    \/ Lock(t) \/ Find(t) \/ Load(t)
    \/ OpenTmp(t) \/ WriteLine(t) \/ CloseTmp(t) \/ CloseLosesLines(t)
    \/ Rename(t) \/ IoFails(t) \/ Return(t)

Next ==
    \/ \E t \in Thread : (\E c \in Call : Invoke(t, c)) \/ Operation(t)
    \/ Crash

Spec == Init /\ [][Next]_vars

\* A thread inside an operation is scheduled and its system calls return.
FairSpec == Spec /\ \A t \in Thread : WF_vars(Operation(t))

-----------------------------------------------------------------------------
(* Properties.                                                             *)

\* A name has one line, however registrations of it interleave and whatever a
\* crash or a lost flush leaves of one, unless a file that could not be opened
\* was taken for an empty one (register_user, read_all_lines).
NamesUnique ==
    "read" \notin damage =>
        \A i, j \in DOMAIN file : file[i].name = file[j].name => i = j

\* A registration that was acknowledged survives everything that happens later,
\* other registrations, reported write errors and crashes; only the two silent
\* faults lose one (register_user, FileIO).
AcknowledgedUsersKept ==
    damage = {} =>
        \A r \in promised :
            r.name \in Names(file) /\ from_hex(Stored(file, r.name)) = r.password

\* No step removes an account or changes its password, acknowledged or not,
\* before a silent fault (register_user, FileIO).
AccountsPermanent ==
    [][damage' = {} =>
         \A u \in Names(file) :
            u \in Names(file') /\ Stored(file', u) = Stored(file, u)]_vars

\* Whatever fails on the way, an operation gives the mutex back, so that the
\* handlers waiting for it can go on (LockGuard, register_user, authenticate).
MutexReleased == \A t \in Thread : mutex = t ~> mutex # t

\* How far an operation is from giving the mutex back.
Remaining == [find |-> 5, load |-> 4, open |-> 3, write |-> 2, rename |-> 1,
              return |-> 0, idle |-> 0]

\* While a thread holds the mutex each step of its own brings it nearer to
\* giving it back, or writes one more of its lines, and short of a kill nobody
\* else moves it or touches the files (LockGuard, FileIO).
HolderAdvances ==
    [][\A t \in Thread : mutex = t =>
        \/ Remaining[pc'[t]] < Remaining[pc[t]]
        \/ /\ pc'[t] = pc[t] /\ records'[t] = records[t]
           /\ Len(tmp') = Len(tmp) + 1 /\ Len(tmp') <= Len(records[t])
        \/ mutex' = t /\ pc'[t] = pc[t] /\ records'[t] = records[t] /\ UNCHANGED diskVars]_vars

\* The temporary file holds the first of the lines being written, so that there
\* is one more to write or the file can be closed and renamed, even after an
\* earlier registration failed half-way (atomic_write_lines).
WritingResumes ==
    \A t \in Thread : pc[t] = "write" =>
        /\ Len(tmp) <= Len(records[t])
        /\ \A i \in DOMAIN tmp : tmp[i] = records[t][i]
        /\ Len(tmp) < Len(records[t]) \/ tmp = records[t]

\* The registry implements the atomic store until a silent fault: a
\* registration takes effect with the rename, everything else with the first
\* reading of the file.
users == [u \in Names(file) |-> from_hex(Stored(file, u))]

phase == [t \in Thread |-> CASE pc[t] = "idle" -> "idle"
                             [] pc[t] = "return" -> "performed"
                             [] OTHER -> "called"]

Store == INSTANCE UserStore WITH users <- users, phase <- phase

ImplementsUserStore ==
    Store!StoreInit /\ [][Store!StoreNext \/ damage' # {}]_(Store!storeVars)

-----------------------------------------------------------------------------
(* The inductive invariant.                                                *)

Lines(lines) == {lines[i] : i \in DOMAIN lines}

\* A registration that goes on has read the current file, and nobody changes
\* the file or the temporary file until its rename.
RegistrationLocal ==
    "read" \notin damage => \A t \in Thread :
        /\ pc[t] \in {"load", "open", "write", "rename"} =>
                call[t].op = "register_user" /\ call[t].name \notin Names(file)
        /\ pc[t] \in {"open", "write", "rename"} =>
                records[t] = Append(file, NewRecord(t))
        /\ pc[t] \in {"write", "rename"} =>
                /\ Len(tmp) <= Len(records[t])
                /\ \A i \in DOMAIN tmp : tmp[i] = records[t][i]
        /\ pc[t] = "rename" /\ damage = {} => tmp = records[t]

\* A registration that returns true, or did, is in the file.
RegistrationsInFile ==
    damage = {} =>
        /\ \A t \in Thread :
                pc[t] = "return" /\ call[t].op = "register_user" /\ answer[t] =>
                    NewRecord(t) \in Lines(file)
        /\ \A r \in promised :
                [name |-> r.name, stored |-> to_hex(r.password)] \in Lines(file)

\* Only a registration gets past the first reading.
RegistrationOnly ==
    \A t \in Thread :
        pc[t] \in {"load", "open", "write", "rename"} => call[t].op = "register_user"

RegistryInv ==
    TypeOK /\ NamesUnique /\ RegistrationOnly /\ RegistrationLocal /\ RegistrationsInFile

-----------------------------------------------------------------------------
(* What the sources say and the code does not do.                          *)

\* The tests: the registry persists its records.  Nothing but a file that
\* could not be opened once is needed to lose them.
RecordsPersist ==
    \A r \in promised :
        r.name \in Names(file) /\ from_hex(Stored(file, r.name)) = r.password
=============================================================================
