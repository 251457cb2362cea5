------------------------- MODULE UserRegistryProofs -------------------------
(***************************************************************************)
(* Proofs about UserRegistry for any number of threads, names and          *)
(* passwords and for every fault of the file system.  The invariant that   *)
(* carries everything is that a registration under way holds a copy of the *)
(* current file and a part of it in the temporary file: it is why the      *)
(* rename can only add one line, and why the registry is the atomic        *)
(* UserStore as long as no fault goes unnoticed.                           *)
(***************************************************************************)
EXTENDS UserRegistry, SequenceTheorems, TLAPS

\* Abbreviations that every proof below looks through.
USE FreeAssumption
USE DEF Free, Critical, NoCall, Call, Record, to_hex, from_hex, diskVars, threadVars,
        Enter, NewRecord, historyVars, ReadAs

-----------------------------------------------------------------------------
(* The lines of the file.                                                  *)

\* Copying one element more of a sequence.
LEMMA CopyNext ==
    ASSUME NEW S, NEW a \in Seq(S), NEW b \in Seq(S), Len(a) < Len(b)
    PROVE  Append(a, b[Len(a) + 1]) \in Seq(S)
<1>1. Len(a) + 1 \in 1..Len(b)
  OBVIOUS
<1>2. b[Len(a) + 1] \in S
  BY <1>1, ElementOfSeq
<1>3. QED
  BY <1>2, AppendProperties

\* One more element in one of several sequences.
LEMMA AppendTyped ==
    ASSUME NEW S, NEW T, NEW f \in [T -> Seq(S)],
           NEW t \in T, NEW a \in Seq(S), NEW r \in S
    PROVE  [f EXCEPT ![t] = Append(a, r)] \in [T -> Seq(S)]
  BY AppendProperties

\* Under unique names the search of find_user_locked finds the only line.
LEMMA StoredIsTheLine ==
    ASSUME NEW lines \in Seq(Record),
           \A i, j \in DOMAIN lines : lines[i].name = lines[j].name => i = j,
           NEW k \in DOMAIN lines
    PROVE  Stored(lines, lines[k].name) = lines[k].stored
<1> DEFINE P(i) == /\ lines[i].name = lines[k].name
                   /\ \A j \in 1..(i - 1) : lines[j].name # lines[k].name
<1>1. \A j \in 1..(k - 1) : j \in DOMAIN lines /\ j # k
  OBVIOUS
<1>2. P(k)
  BY <1>1
<1>3. \A i \in DOMAIN lines : P(i) => i = k
  OBVIOUS
<1>4. (CHOOSE i \in DOMAIN lines : P(i)) = k
  BY <1>2, <1>3
<1>5. QED
  BY <1>4 DEF Stored

\* A record with a new name at the end leaves the other records as they are.
LEMMA AppendFresh ==
    ASSUME NEW lines \in Seq(Record), NEW r \in Record,
           \A i, j \in DOMAIN lines : lines[i].name = lines[j].name => i = j,
           r.name \notin Names(lines)
    PROVE  LET longer == Append(lines, r)
           IN  /\ longer \in Seq(Record)
               /\ \A i, j \in DOMAIN longer : longer[i].name = longer[j].name => i = j
               /\ Lines(longer) = Lines(lines) \cup {r}
               /\ Names(longer) = Names(lines) \cup {r.name}
               /\ Stored(longer, r.name) = r.stored
               /\ \A u \in Names(lines) : Stored(longer, u) = Stored(lines, u)
<1> DEFINE longer == Append(lines, r)
<1>1. /\ longer \in Seq(Record)
      /\ DOMAIN longer = 1..(Len(lines) + 1)
      /\ DOMAIN lines = 1..Len(lines)
      /\ \A i \in 1..Len(lines) : longer[i] = lines[i]
      /\ longer[Len(lines) + 1] = r
      /\ Len(lines) \in Nat
  OBVIOUS
<1> HIDE DEF longer
<1>2. \A i \in 1..Len(lines) : lines[i].name # r.name
  BY <1>1 DEF Names
<1>3. \A i, j \in DOMAIN longer : longer[i].name = longer[j].name => i = j
  BY <1>1, <1>2
<1>4. Lines(longer) = Lines(lines) \cup {r}
  <2>1. ASSUME NEW x
        PROVE  x \in Lines(longer) <=> x \in Lines(lines) \/ x = r
    <3>1. x \in Lines(longer) <=> \E i \in 1..(Len(lines) + 1) : x = longer[i]
      BY <1>1 DEF Lines
    <3>2. x \in Lines(lines) <=> \E i \in 1..Len(lines) : x = lines[i]
      BY <1>1 DEF Lines
    <3>3. 1..(Len(lines) + 1) = (1..Len(lines)) \cup {Len(lines) + 1}
      BY <1>1
    <3>4. QED
      BY <1>1, <3>1, <3>2, <3>3, Zenon
  <2>2. QED
    BY <2>1
<1>5. Names(longer) = Names(lines) \cup {r.name}
  <2>1. ASSUME NEW u
        PROVE  u \in Names(longer) <=> u \in Names(lines) \/ u = r.name
    <3>1. u \in Names(longer) <=> \E i \in 1..(Len(lines) + 1) : u = longer[i].name
      BY <1>1 DEF Names
    <3>2. u \in Names(lines) <=> \E i \in 1..Len(lines) : u = lines[i].name
      BY <1>1 DEF Names
    <3>3. 1..(Len(lines) + 1) = (1..Len(lines)) \cup {Len(lines) + 1}
      BY <1>1
    <3>4. QED
      BY <1>1, <3>1, <3>2, <3>3, Zenon
  <2>2. QED
    BY <2>1
<1>6. Stored(longer, r.name) = r.stored
  <2>1. Len(lines) + 1 \in DOMAIN longer
    BY <1>1
  <2>2. Stored(longer, longer[Len(lines) + 1].name) = longer[Len(lines) + 1].stored
    BY <1>1, <1>3, <2>1, StoredIsTheLine
  <2>3. QED
    BY <1>1, <2>2, Zenon
<1>7. ASSUME NEW u \in Names(lines)
      PROVE  Stored(longer, u) = Stored(lines, u)
  <2>1. PICK k \in DOMAIN lines : lines[k].name = u
    BY DEF Names
  <2>2. Stored(lines, u) = lines[k].stored
    BY <2>1, StoredIsTheLine
  <2>3. k \in DOMAIN longer /\ longer[k] = lines[k]
    BY <1>1
  <2>4. Stored(longer, longer[k].name) = longer[k].stored
    BY <1>1, <1>3, <2>3, StoredIsTheLine
  <2>5. QED
    BY <2>1, <2>2, <2>3, <2>4
<1>8. QED
  BY <1>1, <1>3, <1>4, <1>5, <1>6, <1>7 DEF longer

-----------------------------------------------------------------------------
(* The invariant.                                                          *)

\* Initially the file is empty and nobody uses it.
LEMMA InitEstablishesInv == Init => RegistryInv
<1> SUFFICES ASSUME Init PROVE RegistryInv
  OBVIOUS
<1> USE DEF Init
<1>1. file \in Seq(Record) /\ tmp \in Seq(Record) /\ DOMAIN file = {}
  OBVIOUS
<1>2. TypeOK
  <2>1. records \in [Thread -> Seq(Record)]
    OBVIOUS
  <2>2. /\ pc \in [Thread -> {"idle", "lock", "return"} \cup Critical]
        /\ call \in [Thread -> Call \cup {NoCall}]
        /\ answer \in [Thread -> BOOLEAN]
        /\ promised \in SUBSET [name : User, password : Password]
        /\ mutex \in Thread \cup {Free}
    OBVIOUS
  <2>3. \A t \in Thread : pc[t] = "idle" /\ mutex # t
    OBVIOUS
  <2>4. damage \in SUBSET {"flush", "read"}
    OBVIOUS
  <2>5. QED
    BY <1>1, <2>1, <2>2, <2>3, <2>4, Zenon DEF TypeOK
<1>3. NamesUnique /\ RegistrationOnly /\ RegistrationLocal /\ RegistrationsInFile
  BY <1>1 DEF NamesUnique, RegistrationOnly, RegistrationLocal, RegistrationsInFile
<1>4. QED
  BY <1>2, <1>3 DEF RegistryInv

\* Whatever a reading returns, it is a list of records.
LEMMA ReadingTyped ==
    ASSUME TypeOK, NEW lines \in Readings
    PROVE  lines \in Seq(Record)
<1>1. lines = file \/ lines = <<>>
  BY DEF Readings
<1> HIDE DEF Record
<1>2. CASE lines = file
  BY <1>2 DEF TypeOK
<1>3. CASE lines = <<>>
  BY <1>3
<1>4. QED
  BY <1>1, <1>2, <1>3

\* What a registration appends is a record.
LEMMA NewRecordTyped ==
    ASSUME NEW t \in Thread, TypeOK, pc[t] # "idle", call[t].op = "register_user"
    PROVE  NewRecord(t) \in Record
<1>1. call[t] \in Call
  BY DEF TypeOK
<1>2. call[t] \in [op : {"register_user", "authenticate"}, name : User, password : Password]
  BY <1>1
<1>3. QED
  BY <1>2

\* The step that changes the file adds the line of a fresh name to it.
LEMMA RenameAppends ==
    ASSUME NEW t \in Thread, RegistryInv, Rename(t), damage = {}
    PROVE  /\ call[t].op = "register_user" /\ call[t].name \notin Names(file)
           /\ file' \in Seq(Record)
           /\ Lines(file') = Lines(file) \cup {NewRecord(t)}
           /\ Names(file') = Names(file) \cup {call[t].name}
           /\ Stored(file', call[t].name) = to_hex(call[t].password)
           /\ \A u \in Names(file) : Stored(file', u) = Stored(file, u)
<1>1. call[t].op = "register_user" /\ call[t].name \notin Names(file)
  BY DEF RegistryInv, RegistrationLocal, Rename, Answer
<1>2. file' = Append(file, NewRecord(t))
  BY DEF RegistryInv, RegistrationLocal, Rename, Answer
<1>3. NewRecord(t) \in Record
  BY <1>1, NewRecordTyped DEF RegistryInv, Rename, Answer
<1>4. NewRecord(t).name = call[t].name /\ NewRecord(t).stored = to_hex(call[t].password)
  OBVIOUS
<1>5. /\ file \in Seq(Record)
      /\ \A i, j \in DOMAIN file : file[i].name = file[j].name => i = j
  BY DEF RegistryInv, TypeOK, NamesUnique
<1> HIDE DEF NewRecord, Record, to_hex
<1>6. QED
  BY <1>1, <1>2, <1>3, <1>4, <1>5, AppendFresh

\* Even if the closing flush has lost lines, those that are left have
\* different names.
LEMMA RenameKeepsUnique ==
    ASSUME NEW t \in Thread, RegistryInv, Rename(t)
    PROVE  NamesUnique'
<1> SUFFICES ASSUME "read" \notin damage
             PROVE  \A i, j \in DOMAIN file' : file'[i].name = file'[j].name => i = j
  BY DEF NamesUnique, Rename
<1> DEFINE longer == Append(file, NewRecord(t))
<1>1. /\ records[t] = longer /\ call[t].name \notin Names(file)
      /\ Len(tmp) <= Len(records[t])
      /\ \A i \in DOMAIN tmp : tmp[i] = records[t][i]
      /\ file' = tmp
  BY DEF RegistryInv, RegistrationLocal, Rename, Answer
<1>2. NewRecord(t) \in Record /\ NewRecord(t).name = call[t].name
  BY NewRecordTyped DEF RegistryInv, RegistrationOnly, Rename, Answer
<1>3. /\ file \in Seq(Record) /\ tmp \in Seq(Record)
      /\ \A i, j \in DOMAIN file : file[i].name = file[j].name => i = j
  BY DEF RegistryInv, TypeOK, NamesUnique
<1> HIDE DEF NewRecord, Record, to_hex
<1>4. \A i, j \in DOMAIN longer : longer[i].name = longer[j].name => i = j
  BY <1>1, <1>2, <1>3, AppendFresh
<1>5. longer \in Seq(Record)
  BY <1>2, <1>3
<1> HIDE DEF longer
<1>6. DOMAIN tmp \subseteq DOMAIN longer
  BY <1>1, <1>3, <1>5
<1>7. QED
  BY <1>1, <1>4, <1>6

\* Every step preserves the invariant, whatever the file system does.
LEMMA StepPreservesInv ==
    ASSUME RegistryInv, [Next]_vars
    PROVE  RegistryInv'
<1> USE DEF RegistryInv, TypeOK, Answer, Continue
<1>1. ASSUME NEW t \in Thread, NEW c \in Call, Invoke(t, c)
      PROVE  RegistryInv'
  BY <1>1 DEF Invoke, NamesUnique, RegistrationOnly, RegistrationLocal, RegistrationsInFile
<1>2. ASSUME NEW t \in Thread, Lock(t)
      PROVE  RegistryInv'
  <2> USE <1>2 DEF Lock
  <2>1. TypeOK'
    OBVIOUS
  <2>2. NamesUnique'
    BY DEF NamesUnique
  <2>3. RegistrationLocal' /\ RegistrationOnly'
    BY DEF RegistrationLocal, RegistrationOnly
  <2>4. RegistrationsInFile'
    <3>1. UNCHANGED <<file, call, answer, promised>>
      OBVIOUS
    <3>2. \A s \in Thread : pc'[s] = "return" => pc[s] = "return"
      OBVIOUS
    <3>3. QED
      BY <3>1, <3>2 DEF RegistrationsInFile
  <2> QED
    BY <2>1, <2>2, <2>3, <2>4
<1>3. ASSUME NEW t \in Thread, Find(t)
      PROVE  RegistryInv'
  <2> USE <1>3 DEF Find, Readings
  <2>1. TypeOK'
    <3>1. PICK lines \in Readings :
            \/ Continue(t, "find", "load") /\ UNCHANGED records
            \/ Answer(t, "find", FALSE)
            \/ Answer(t, "find", call[t].name \in Names(lines))
            \/ Answer(t, "find",
                      /\ call[t].name \in Names(lines)
                      /\ from_hex(Stored(lines, call[t].name)) = call[t].password)
      OBVIOUS
    <3>2. answer' \in [Thread -> BOOLEAN]
      <4>1. CASE UNCHANGED answer
        BY <4>1
      <4>2. ASSUME NEW result \in BOOLEAN, Answer(t, "find", result)
            PROVE  answer' \in [Thread -> BOOLEAN]
        BY <4>2
      <4>3. Continue(t, "find", "load") => UNCHANGED answer
        OBVIOUS
      <4> DEFINE found == call[t].name \in Names(lines)
                 matches == from_hex(Stored(lines, call[t].name)) = call[t].password
      <4>4. found \in BOOLEAN /\ (found /\ matches) \in BOOLEAN /\ FALSE \in BOOLEAN
        OBVIOUS
      <4>5. \/ UNCHANGED answer
            \/ Answer(t, "find", FALSE)
            \/ Answer(t, "find", found)
            \/ Answer(t, "find", found /\ matches)
        BY <3>1, <4>3
      <4> HIDE DEF Answer, found, matches
      <4>6. \A result \in BOOLEAN :
               Answer(t, "find", result) => answer' \in [Thread -> BOOLEAN]
        BY <4>2, Zenon
      <4>7. QED
        BY <4>1, <4>4, <4>5, <4>6, Zenon
    <3>3. /\ pc' \in [Thread -> {"idle", "lock", "return"} \cup Critical]
          /\ mutex' \in Thread \cup {Free}
          /\ \A s \in Thread : pc'[s] \in Critical <=> mutex' = s
          /\ \A s \in Thread : pc'[s] # "idle" => call'[s] \in Call
      BY <3>1, SMTT(20)
    <3>4. UNCHANGED <<file, tmp, call, promised, records>>
      <4>1. UNCHANGED records
        BY <3>1
      <4>2. QED
        BY <4>1
    <3>5. QED
      BY <3>2, <3>3, <3>4
  <2>2. NamesUnique'
    BY DEF NamesUnique
  <2>3. RegistrationLocal' /\ RegistrationOnly'
    BY DEF RegistrationLocal, RegistrationOnly
  <2>4. RegistrationsInFile'
    BY DEF RegistrationsInFile
  <2> QED
    BY <2>1, <2>2, <2>3, <2>4
<1>4. ASSUME NEW t \in Thread, Load(t)
      PROVE  RegistryInv'
  <2> USE <1>4 DEF Load, Readings
  <2>1. NewRecord(t) \in Record
    BY NewRecordTyped DEF RegistrationOnly
  <2>2. records' \in [Thread -> Seq(Record)]
    <3>1. PICK lines \in Readings :
            records' = [records EXCEPT ![t] = Append(lines, NewRecord(t))]
      BY Zenon
    <3>2. lines \in Seq(Record)
      BY ReadingTyped, Zenon
    <3> HIDE DEF NewRecord, Record
    <3>3. records \in [Thread -> Seq(Record)]
      BY Zenon
    <3>4. QED
      BY <2>1, <3>1, <3>2, <3>3, AppendTyped, Zenon
  <2>3. TypeOK'
    BY <2>2
  <2>4. NamesUnique'
    BY DEF NamesUnique
  <2>5. RegistrationLocal' /\ RegistrationOnly'
    BY DEF RegistrationLocal, RegistrationOnly
  <2>6. RegistrationsInFile'
    BY DEF RegistrationsInFile
  <2> QED
    BY <2>3, <2>4, <2>5, <2>6
<1>5. ASSUME NEW t \in Thread, OpenTmp(t)
      PROVE  RegistryInv'
  BY <1>5 DEF OpenTmp, NamesUnique, RegistrationOnly, RegistrationLocal, RegistrationsInFile
<1>6. ASSUME NEW t \in Thread, WriteLine(t)
      PROVE  RegistryInv'
  <2> USE <1>6 DEF WriteLine
  <2>1. TypeOK'
    <3>1. /\ tmp \in Seq(Record) /\ records[t] \in Seq(Record)
          /\ Len(tmp) < Len(records[t])
          /\ tmp' = Append(tmp, records[t][Len(tmp) + 1])
      OBVIOUS
    <3>2. tmp' \in Seq(Record)
      <4> HIDE DEF Record, RegistryInv, TypeOK, Continue, WriteLine
      <4>1. Append(tmp, records[t][Len(tmp) + 1]) \in Seq(Record)
        BY <3>1, CopyNext
      <4>2. QED
        BY <3>1, <4>1, Zenon
    <3>3. QED
      BY <3>2
  <2>2. NamesUnique'
    BY DEF NamesUnique
  <2>3. RegistrationLocal' /\ RegistrationOnly'
    BY DEF RegistrationLocal, RegistrationOnly
  <2>4. RegistrationsInFile'
    BY DEF RegistrationsInFile
  <2> QED
    BY <2>1, <2>2, <2>3, <2>4
<1>7. ASSUME NEW t \in Thread, CloseTmp(t)
      PROVE  RegistryInv'
  BY <1>7 DEF CloseTmp, NamesUnique, RegistrationOnly, RegistrationLocal, RegistrationsInFile
<1>8. ASSUME NEW t \in Thread, CloseLosesLines(t)
      PROVE  RegistryInv'
  BY <1>8 DEF CloseLosesLines, NamesUnique, RegistrationOnly, RegistrationLocal, RegistrationsInFile
<1>9. ASSUME NEW t \in Thread, Rename(t)
      PROVE  RegistryInv'
  <2> USE <1>9 DEF Rename
  <2>1. TypeOK'
    <3>1. file' \in Seq(Record) /\ tmp' \in Seq(Record)
      OBVIOUS
    <3>2. QED
      BY <3>1
  <2>2. NamesUnique'
    BY RenameKeepsUnique
  <2>3. RegistrationLocal' /\ RegistrationOnly'
    BY DEF RegistrationLocal, RegistrationOnly
  <2>4. RegistrationsInFile'
    <3>1. damage = {} => Lines(file') = Lines(file) \cup {NewRecord(t)}
      BY RenameAppends
    <3>2. QED
      BY <3>1 DEF RegistrationsInFile
  <2> QED
    BY <2>1, <2>2, <2>3, <2>4
<1>10. ASSUME NEW t \in Thread, IoFails(t)
       PROVE  RegistryInv'
  <2> USE <1>10 DEF IoFails
  <2>1. TypeOK'
    OBVIOUS
  <2>2. NamesUnique'
    BY DEF NamesUnique
  <2>3. RegistrationLocal' /\ RegistrationOnly'
    BY DEF RegistrationLocal, RegistrationOnly
  <2>4. RegistrationsInFile'
    BY DEF RegistrationsInFile
  <2> QED
    BY <2>1, <2>2, <2>3, <2>4
<1>11. ASSUME NEW t \in Thread, Return(t)
       PROVE  RegistryInv'
  <2> USE <1>11 DEF Return
  <2>1. TypeOK'
    OBVIOUS
  <2>2. NamesUnique'
    BY DEF NamesUnique
  <2>3. RegistrationLocal' /\ RegistrationOnly'
    BY DEF RegistrationLocal, RegistrationOnly
  <2>4. RegistrationsInFile'
    BY DEF RegistrationsInFile
  <2> QED
    BY <2>1, <2>2, <2>3, <2>4
<1>12. CASE Crash
  BY <1>12 DEF Crash, NamesUnique, RegistrationOnly, RegistrationLocal, RegistrationsInFile
<1>13. CASE UNCHANGED vars
  BY <1>13 DEF vars, NamesUnique, RegistrationOnly, RegistrationLocal, RegistrationsInFile
<1>14. QED
  BY <1>1, <1>2, <1>3, <1>4, <1>5, <1>6, <1>7, <1>8, <1>9, <1>10, <1>11, <1>12, <1>13
     DEF Next, Operation

\* The registry keeps its invariant, whatever the file system does wrong
\* (register_user, authenticate, FileIO).
THEOREM RegistryInvariant ==
    Spec => []RegistryInv
<1>1. Init => RegistryInv
  BY InitEstablishesInv
<1>2. RegistryInv /\ [Next]_vars => RegistryInv'
  BY StepPreservesInv
<1>3. QED
  BY <1>1, <1>2, PTL DEF Spec

\* What the invariant says of a registration that has been acknowledged.
LEMMA InvKeepsAcknowledged == RegistryInv => AcknowledgedUsersKept
<1>1. SUFFICES ASSUME RegistryInv, damage = {}, NEW r \in promised
               PROVE  /\ r.name \in Names(file)
                      /\ from_hex(Stored(file, r.name)) = r.password
  BY DEF AcknowledgedUsersKept
<1>2. PICK k \in DOMAIN file :
        file[k] = [name |-> r.name, stored |-> to_hex(r.password)]
  BY <1>1 DEF RegistryInv, RegistrationsInFile, Lines
<1>3. file[k].name = r.name /\ from_hex(file[k].stored) = r.password
  BY <1>2
<1>4. Stored(file, file[k].name) = file[k].stored
  BY <1>1, StoredIsTheLine DEF RegistryInv, TypeOK, NamesUnique
<1>5. QED
  BY <1>3, <1>4 DEF Names

\* A name never gets a second line (register_user).
THEOREM NamesStayUnique ==
    Spec => []NamesUnique
<1>1. RegistryInv => NamesUnique
  BY DEF RegistryInv
<1>2. QED
  BY <1>1, RegistryInvariant, PTL

\* A registration that was acknowledged is never lost, in spite of concurrent
\* registrations, reported write errors and crashes (register_user, FileIO).
THEOREM AcknowledgedKept ==
    Spec => []AcknowledgedUsersKept
  BY InvKeepsAcknowledged, RegistryInvariant, PTL

\* Only the rename changes the file, and it keeps every account as it is.
LEMMA StepKeepsAccounts ==
    ASSUME RegistryInv, [Next]_vars, damage' = {}, NEW u \in Names(file)
    PROVE  u \in Names(file') /\ Stored(file', u) = Stored(file, u)
<1>1. ASSUME NEW t \in Thread, Rename(t)
      PROVE  u \in Names(file') /\ Stored(file', u) = Stored(file, u)
  BY <1>1, RenameAppends DEF Rename
<1>2. CASE file' = file
  BY <1>2
<1>3. file' = file \/ \E t \in Thread : Rename(t)
  BY DEF Next, Operation, Invoke, Lock, Find, Answer, Continue, Load, OpenTmp, WriteLine,
         CloseTmp, CloseLosesLines, IoFails, Return, Crash, vars
<1>4. QED
  BY <1>1, <1>2, <1>3

\* No account is removed or gets another password (register_user, FileIO).
THEOREM AccountsKept ==
    Spec => AccountsPermanent
<1>1. RegistryInv /\ [Next]_vars =>
        [damage' = {} => \A u \in Names(file) :
            u \in Names(file') /\ Stored(file', u) = Stored(file, u)]_vars
  BY StepKeepsAccounts
<1>2. QED
  BY <1>1, RegistryInvariant, PTL DEF Spec, AccountsPermanent

-----------------------------------------------------------------------------
(* Progress.                                                               *)

\* A thread that does not hold the mutex touches neither the files nor what the
\* thread that holds it is doing.
LEMMA OthersKeepAway ==
    ASSUME RegistryInv, NEW t \in Thread, mutex = t, NEW u \in Thread \ {t},
           (\E c \in Call : Invoke(u, c)) \/ Operation(u)
    PROVE  mutex' = t /\ pc'[t] = pc[t] /\ records'[t] = records[t] /\ UNCHANGED diskVars
<1>1. pc[u] \notin Critical /\ pc[t] \in Critical
  BY DEF RegistryInv, TypeOK
<1>2. (\E c \in Call : Invoke(u, c)) \/ Return(u)
  BY <1>1 DEF Operation, Lock, Find, Load, OpenTmp, WriteLine, CloseTmp, CloseLosesLines,
              Rename, IoFails, Answer, Continue
<1>3. QED
  BY <1>2 DEF RegistryInv, TypeOK, Invoke, Return

LEMMA HolderComesNearer ==
    ASSUME RegistryInv, NEW t \in Thread, mutex = t, Operation(t)
    PROVE  \/ Remaining[pc'[t]] < Remaining[pc[t]]
           \/ /\ pc'[t] = pc[t] /\ records'[t] = records[t]
              /\ Len(tmp') = Len(tmp) + 1 /\ Len(tmp') <= Len(records[t])
<1> USE DEF RegistryInv, TypeOK, Remaining, Answer, Continue
<1>1. pc[t] \in Critical
  OBVIOUS
<1>2. CASE Find(t)
  <2>1. pc[t] = "find" /\ pc'[t] \in {"load", "return"}
    BY <1>2 DEF Find
  <2>2. QED
    BY <2>1
<1>3. CASE WriteLine(t)
  BY <1>3, AppendProperties DEF WriteLine
<1>4. CASE IoFails(t)
  <2>1. pc[t] \in {"open", "write", "rename"} /\ pc'[t] = "return"
    BY <1>4 DEF IoFails
  <2>2. QED
    BY <2>1
<1>5. CASE Load(t) \/ OpenTmp(t) \/ CloseTmp(t) \/ CloseLosesLines(t) \/ Rename(t)
  <2>1. \/ pc[t] = "load" /\ pc'[t] = "open"
        \/ pc[t] = "open" /\ pc'[t] = "write"
        \/ pc[t] = "write" /\ pc'[t] = "rename"
        \/ pc[t] = "rename" /\ pc'[t] = "return"
    BY <1>5 DEF Load, OpenTmp, CloseTmp, CloseLosesLines, Rename
  <2>2. QED
    BY <2>1
<1>6. CASE Lock(t) \/ Return(t)
  BY <1>1, <1>6 DEF Lock, Return
<1>7. QED
  BY <1>2, <1>3, <1>4, <1>5, <1>6 DEF Operation

\* Nothing stands between a thread that holds the mutex and giving it back but a
\* number of steps of its own, bounded by the length of the file: what is left
\* of MutexReleased is that the thread is scheduled (LockGuard, register_user,
\* authenticate, FileIO).
THEOREM HolderComesToAnEnd ==
    Spec => HolderAdvances
<1>1. RegistryInv /\ [Next]_vars =>
        [\A t \in Thread : mutex = t =>
            \/ Remaining[pc'[t]] < Remaining[pc[t]]
            \/ /\ pc'[t] = pc[t] /\ records'[t] = records[t]
               /\ Len(tmp') = Len(tmp) + 1 /\ Len(tmp') <= Len(records[t])
            \/ mutex' = t /\ pc'[t] = pc[t] /\ records'[t] = records[t]
               /\ UNCHANGED diskVars]_vars
  <2>1. SUFFICES ASSUME RegistryInv, Next, NEW t \in Thread, mutex = t
                 PROVE  \/ Remaining[pc'[t]] < Remaining[pc[t]]
                        \/ /\ pc'[t] = pc[t] /\ records'[t] = records[t]
                           /\ Len(tmp') = Len(tmp) + 1 /\ Len(tmp') <= Len(records[t])
                        \/ mutex' = t /\ pc'[t] = pc[t] /\ records'[t] = records[t]
                           /\ UNCHANGED diskVars
    OBVIOUS
  <2>2. pc[t] \in Critical
    BY <2>1 DEF RegistryInv, TypeOK
  <2>3. CASE Crash
    <3>1. pc'[t] = "idle"
      BY <2>3 DEF Crash
    <3>2. QED
      BY <2>2, <3>1 DEF Remaining
  <2>4. ASSUME NEW u \in Thread \ {t}, (\E c \in Call : Invoke(u, c)) \/ Operation(u)
        PROVE  mutex' = t /\ pc'[t] = pc[t] /\ records'[t] = records[t] /\ UNCHANGED diskVars
    BY <2>1, <2>4, OthersKeepAway
  <2>5. CASE Operation(t)
    BY <2>1, <2>5, HolderComesNearer
  <2>6. ~\E c \in Call : Invoke(t, c)
    BY <2>2 DEF Invoke
  <2>7. QED
    BY <2>1, <2>3, <2>4, <2>5, <2>6 DEF Next
<1>2. QED
  BY <1>1, RegistryInvariant, PTL DEF Spec, HolderAdvances

\* A registration in the middle of its file can go on, whatever was left behind
\* by others and whatever was misread (register_user, atomic_write_lines).
THEOREM WritersCanGoOn ==
    Spec => []WritingResumes
<1>1. Init => WritingResumes
  BY DEF Init, WritingResumes
<1>2. RegistryInv /\ WritingResumes /\ [Next]_vars => WritingResumes'
  <2>1. SUFFICES ASSUME RegistryInv, WritingResumes, [Next]_vars,
                        NEW t \in Thread, pc'[t] = "write"
                 PROVE  /\ Len(tmp') <= Len(records'[t])
                        /\ \A i \in DOMAIN tmp' : tmp'[i] = records'[t][i]
                        /\ Len(tmp') < Len(records'[t]) \/ tmp' = records'[t]
    BY DEF WritingResumes
  <2> USE DEF RegistryInv, TypeOK, WritingResumes
  <2>2. CASE WriteLine(t)
    <3>1. /\ tmp \in Seq(Record) /\ records[t] \in Seq(Record) /\ records'[t] = records[t]
          /\ Len(tmp) < Len(records[t]) /\ tmp' = Append(tmp, records[t][Len(tmp) + 1])
          /\ \A i \in DOMAIN tmp : tmp[i] = records[t][i]
      BY <2>1, <2>2 DEF WriteLine, Continue
    <3>2. /\ tmp' \in Seq(Record) /\ Len(tmp') = Len(tmp) + 1
          /\ \A i \in 1..Len(tmp') : tmp'[i] = records[t][i]
      <4>1. tmp' \in Seq(Record)
        BY <3>1, CopyNext
      <4>2. /\ Len(tmp') = Len(tmp) + 1 /\ Len(tmp) \in Nat /\ DOMAIN tmp = 1..Len(tmp)
            /\ \A i \in 1..Len(tmp) : tmp'[i] = tmp[i]
            /\ tmp'[Len(tmp) + 1] = records[t][Len(tmp) + 1]
        BY <3>1
      <4>3. QED
        BY <3>1, <4>1, <4>2
    <3>3. Len(tmp') = Len(records[t]) => tmp' = records[t]
      BY <3>1, <3>2, SeqEqual
    <3>4. QED
      BY <3>1, <3>2, <3>3
  <2>3. CASE OpenTmp(t)
    <3>1. tmp' = <<>> /\ records'[t] = records[t] /\ records[t] \in Seq(Record)
      BY <2>1, <2>3 DEF OpenTmp
    <3>2. Len(records[t]) = 0 => records[t] = <<>>
      BY <3>1, EmptySeq
    <3>3. QED
      BY <3>1, <3>2
  <2>4. CASE pc[t] = "write" /\ UNCHANGED tmp /\ records'[t] = records[t]
    BY <2>1, <2>4
  <2>5. CASE pc[t] = "write"
    <3>1. mutex = t
      BY <2>1, <2>5
    <3>2. CASE Operation(t)
      BY <2>1, <2>2, <2>4, <2>5, <3>2 DEF Operation, Lock, Find, Load, OpenTmp, CloseTmp,
         CloseLosesLines, Rename, IoFails, Return, Answer, Continue
    <3>3. ASSUME NEW u \in Thread \ {t}, (\E c \in Call : Invoke(u, c)) \/ Operation(u)
          PROVE  UNCHANGED tmp /\ records'[t] = records[t]
      BY <2>1, <3>1, <3>3, OthersKeepAway
    <3>4. CASE Crash \/ (\E c \in Call : Invoke(t, c))
      BY <2>1, <2>5, <3>4 DEF Crash, Invoke
    <3>5. CASE UNCHANGED vars
      BY <2>4, <2>5, <3>5 DEF vars
    <3>6. QED
      BY <2>1, <2>4, <2>5, <3>2, <3>3, <3>4, <3>5 DEF Next
  <2>6. CASE pc[t] # "write"
    <3>1. PICK u \in Thread : (\E c \in Call : Invoke(u, c)) \/ Operation(u)
      BY <2>1, <2>6 DEF Next, Crash, vars
    <3>2. u = t
      BY <2>1, <2>6, <3>1 DEF Operation, Invoke, Lock, Find, Load, OpenTmp, WriteLine,
         CloseTmp, CloseLosesLines, Rename, IoFails, Return, Answer, Continue
    <3>3. OpenTmp(t)
      BY <2>1, <2>6, <3>1, <3>2 DEF Operation, Invoke, Lock, Find, Load, WriteLine,
         CloseTmp, CloseLosesLines, Rename, IoFails, Return, Answer, Continue
    <3>4. QED
      BY <2>3, <3>3
  <2>7. QED
    BY <2>5, <2>6
<1>3. QED
  BY <1>1, <1>2, RegistryInvariant, PTL DEF Spec

-----------------------------------------------------------------------------
(* The registry implements the atomic store.                               *)

\* A step that leaves the accounts and the phases alone is a stutter.
LEMMA Stutters ==
    ASSUME UNCHANGED <<file, call, answer>>,
           \A t \in Thread : /\ pc'[t] = "idle" <=> pc[t] = "idle"
                             /\ pc'[t] = "return" <=> pc[t] = "return"
    PROVE  UNCHANGED Store!storeVars
<1>1. users' = users
  BY DEF users
<1>2. phase' = phase
  BY DEF phase
<1>3. QED
  BY <1>1, <1>2 DEF Store!storeVars

\* How the phase of a thread follows its label.
LEMMA PhaseFollows ==
    ASSUME NEW t \in Thread, TypeOK, NEW from, NEW to, Enter(t, from, to)
    PROVE  /\ from = "idle" => phase[t] = "idle"
           /\ from = "return" => phase[t] = "performed"
           /\ from \notin {"idle", "return"} => phase[t] = "called"
           /\ to = "idle" => phase' = [phase EXCEPT ![t] = "idle"]
           /\ to = "return" => phase' = [phase EXCEPT ![t] = "performed"]
           /\ to \notin {"idle", "return"} => phase' = [phase EXCEPT ![t] = "called"]
  BY DEF phase, TypeOK

\* The rename is the moment at which a registration takes effect.
LEMMA RenameRegisters ==
    ASSUME NEW t \in Thread, RegistryInv, Rename(t), damage = {}
    PROVE  Store!Registered(t)
<1>1. /\ phase[t] = "called" /\ phase' = [phase EXCEPT ![t] = "performed"]
      /\ answer' = [answer EXCEPT ![t] = TRUE] /\ call' = call
  BY PhaseFollows DEF Rename, Answer, RegistryInv
<1>2. users' = [u \in DOMAIN users \cup {call[t].name} |->
                    IF u = call[t].name THEN call[t].password ELSE users[u]]
  <2>1. DOMAIN users = Names(file)
    BY DEF users
  <2>2. from_hex(Stored(file', call[t].name)) = call[t].password
    <3>1. Stored(file', call[t].name) = to_hex(call[t].password)
      BY RenameAppends
    <3>2. from_hex(to_hex(call[t].password)) = call[t].password
      OBVIOUS
    <3>3. QED
      BY <3>1, <3>2
  <2>3. \A u \in Names(file) : from_hex(Stored(file', u)) = users[u]
    BY RenameAppends DEF users
  <2>4. Names(file') = Names(file) \cup {call[t].name}
    BY RenameAppends
  <2> HIDE DEF from_hex
  <2>5. QED
    BY <2>1, <2>2, <2>3, <2>4 DEF users
<1>3. DOMAIN users = Names(file)
  BY DEF users
<1>4. QED
  BY <1>1, <1>2, <1>3, RenameAppends DEF Store!Registered, Store!Answers

\* The first reading of the file is the moment at which everything else does.
LEMMA FindPerforms ==
    ASSUME NEW t \in Thread, RegistryInv, Find(t), damage' = {}
    PROVE  \/ Store!RegistrationRefused(t) \/ Store!Authenticated(t) \/ Store!Looked(t)
           \/ UNCHANGED Store!storeVars
<1> USE DEF RegistryInv, TypeOK
<1> DEFINE found == call[t].name \in Names(file)
           matches == from_hex(Stored(file, call[t].name)) = call[t].password
<1>1. CASE Continue(t, "find", "load") /\ UNCHANGED file
  BY <1>1, Stutters DEF Continue
<1>2. DOMAIN users = Names(file) /\ \A u \in Names(file) : users[u] = from_hex(Stored(file, u))
  BY DEF users
<1>3. ASSUME NEW result, Answer(t, "find", result), UNCHANGED file
      PROVE  /\ users' = users /\ call' = call
             /\ phase[t] = "called" /\ phase' = [phase EXCEPT ![t] = "performed"]
             /\ answer' = [answer EXCEPT ![t] = result]
  BY <1>3, PhaseFollows DEF users, Answer
<1>4. CASE call[t].op = "register_user" /\ Answer(t, "find", FALSE) /\ UNCHANGED file
  BY <1>3, <1>4 DEF Store!RegistrationRefused, Store!Answers
<1>5. CASE call[t].op = "authenticate" /\ Answer(t, "find", found /\ matches) /\ UNCHANGED file
  <2> DEFINE granted == /\ call[t].name \in DOMAIN users
                        /\ users[call[t].name] = call[t].password
  <2>1. found /\ matches <=> granted
    <3>1. CASE call[t].name \in Names(file)
      BY <1>2, <3>1, Zenon
    <3>2. CASE call[t].name \notin Names(file)
      BY <1>2, <3>2, Zenon
    <3>3. QED
      BY <3>1, <3>2
  <2>2. (found /\ matches) = granted
    BY <2>1, Zenon
  <2> HIDE DEF found, matches, users, phase
  <2>3. /\ users' = users /\ call' = call
        /\ phase[t] = "called" /\ phase' = [phase EXCEPT ![t] = "performed"]
        /\ answer' = [answer EXCEPT ![t] = found /\ matches]
    BY <1>3, <1>5, Zenon
  <2>4. QED
    BY <1>5, <2>2, <2>3, Zenon DEF Store!Authenticated, Store!Answers
<1>6. CASE call[t].op = "user_exists" /\ Answer(t, "find", found) /\ UNCHANGED file
  BY <1>2, <1>3, <1>6 DEF Store!Looked, Store!Answers
<1>7. QED
  BY <1>1, <1>4, <1>5, <1>6 DEF Find, Readings

\* Every step of the registry is a step of the store or a stutter.
LEMMA StepSimulates ==
    ASSUME RegistryInv, [Next]_vars, damage' = {}
    PROVE  [Store!StoreNext]_(Store!storeVars)
<1> USE DEF RegistryInv
<1>1. ASSUME NEW t \in Thread, NEW c \in Call, Invoke(t, c)
      PROVE  Store!StoreCall(t, c)
  <2>1. phase[t] = "idle" /\ phase' = [phase EXCEPT ![t] = "called"]
    <3>1. Enter(t, "idle", "lock")
      BY <1>1 DEF Invoke
    <3> HIDE DEF Enter
    <3>2. QED
      BY <3>1, PhaseFollows
  <2>2. users' = users
    BY <1>1 DEF Invoke, users
  <2>3. QED
    BY <1>1, <2>1, <2>2 DEF Invoke, Store!StoreCall
<1>2. ASSUME NEW t \in Thread,
             Lock(t) \/ Load(t) \/ OpenTmp(t) \/ WriteLine(t) \/ CloseTmp(t)
      PROVE  UNCHANGED Store!storeVars
  BY <1>2, Stutters DEF Lock, Load, OpenTmp, WriteLine, CloseTmp, Continue, TypeOK
<1>3. ASSUME NEW t \in Thread, IoFails(t)
      PROVE  Store!RegistrationRefused(t)
  <2>1. PICK label \in {"open", "write", "rename"} : Answer(t, label, FALSE)
    BY <1>3 DEF IoFails
  <2>2. phase[t] = "called" /\ phase' = [phase EXCEPT ![t] = "performed"]
    BY <2>1, PhaseFollows DEF Answer
  <2>3. call[t].op = "register_user"
    BY <2>1 DEF Answer, RegistrationOnly
  <2>4. users' = users
    BY <1>3 DEF IoFails, users
  <2>5. QED
    BY <2>1, <2>2, <2>3, <2>4 DEF Answer, Store!RegistrationRefused, Store!Answers
<1>4. ASSUME NEW t \in Thread, Return(t)
      PROVE  Store!StoreReturn(t)
  <2>1. phase[t] = "performed" /\ phase' = [phase EXCEPT ![t] = "idle"]
    BY <1>4, PhaseFollows DEF Return
  <2>2. users' = users
    BY <1>4 DEF Return, users
  <2>3. QED
    BY <1>4, <2>1, <2>2 DEF Return, Store!StoreReturn, Store!NoCall
<1>5. CASE Crash
  <2>1. users' = users /\ phase' = [t \in Thread |-> "idle"]
    BY <1>5 DEF Crash, users, phase
  <2>2. Store!StoreCrash
    BY <1>5, <2>1 DEF Crash, Store!StoreCrash, Store!NoCall
  <2>3. QED
    BY <2>2 DEF Store!StoreNext
<1>6. CASE UNCHANGED vars
  BY <1>6, Stutters DEF vars
<1>7. ASSUME NEW t \in Thread, CloseLosesLines(t)
      PROVE  FALSE
  BY <1>7 DEF CloseLosesLines
<1>8. ASSUME NEW t \in Thread, Rename(t)
      PROVE  Store!Registered(t)
  BY <1>8, RenameRegisters DEF Rename
<1>9. \/ Crash \/ UNCHANGED vars
      \/ \E t \in Thread : \E c \in Call : Invoke(t, c)
      \/ \E t \in Thread :
            \/ Lock(t) \/ Load(t) \/ OpenTmp(t) \/ WriteLine(t) \/ CloseTmp(t)
            \/ CloseLosesLines(t) \/ Rename(t) \/ Find(t) \/ IoFails(t) \/ Return(t)
  BY DEF Next, Operation
<1> HIDE DEF Call, RegistryInv
<1>10. Store!Call = Call
  BY DEF Call, Store!Call
<1>11. \A t \in Thread : Find(t) => [Store!StoreNext]_(Store!storeVars)
  BY FindPerforms DEF Store!StoreNext
<1>12. QED
  BY <1>1, <1>2, <1>3, <1>4, <1>5, <1>6, <1>7, <1>8, <1>9, <1>10, <1>11
     DEF Store!StoreNext

\* To its callers the registry is a table with atomic operations that crashes
\* do not damage (UserRegistry against IUserStore).
THEOREM RegistryRefinesStore ==
    Spec => ImplementsUserStore
<1>1. Init => Store!StoreInit
  <2> SUFFICES ASSUME Init PROVE Store!StoreInit
    OBVIOUS
  <2>1. Names(file) = {}
    BY DEF Init, Names
  <2>2. users = [u \in {} |-> NoCall]
    BY <2>1 DEF users
  <2>3. phase = [t \in Thread |-> "idle"]
    BY DEF Init, phase
  <2>4. QED
    BY <2>2, <2>3 DEF Init, Store!StoreInit, Store!NoCall
<1>2. RegistryInv /\ [Next]_vars =>
        [Store!StoreNext \/ damage' # {}]_(Store!storeVars)
  BY StepSimulates
<1>3. QED
  BY <1>1, <1>2, RegistryInvariant, PTL DEF Spec, ImplementsUserStore
=============================================================================
