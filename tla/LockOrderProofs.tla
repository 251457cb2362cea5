--------------------------- MODULE LockOrderProofs ---------------------------
(***************************************************************************)
(* Proofs about LockOrder for any number of handlers and calls.  Calls     *)
(* nest two deep: who waits inside a manager waits for a username or the   *)
(* logger, and who holds one of those waits for nothing.                   *)
(***************************************************************************)
EXTENDS LockOrder, TLAPS

USE LockAssumption
USE DEF Thread, Manager, Mutex, Console, Stream, Level, WARNING

LEMMA InitEstablishesInv == Init => LocksInv /\ LogInv
BY DEF Init, LocksInv, TypeOK, Holds, LogInv, LinesInOrder, On

LEMMA StutterPreservesInv ==
    ASSUME LocksInv, LogInv, UNCHANGED vars
    PROVE  LocksInv' /\ LogInv'
<1> USE DEF vars, threadVars, logVars
<1>1. LocksInv'
  BY DEF LocksInv, TypeOK, Holds
<1>2. LogInv'
  BY DEF LogInv, LinesInOrder, On
<1>3. QED
  BY <1>1, <1>2

-----------------------------------------------------------------------------
(* The mutexes.                                                            *)

LEMMA CallsPreserveLocks ==
    ASSUME LocksInv, NEW t \in Thread, Calls(t)
    PROVE  LocksInv'
<1> USE DEF LocksInv, TypeOK, Holds, Begins, CallManager, logVars
<1>1. ASSUME NEW m \in Manager, NEW asked \in SUBSET Handler, NEW warning \in BOOLEAN,
             CallManager(t, m, asked, warning)
      PROVE  LocksInv'
  BY <1>1
<1>2. CASE NameCall(t)
  BY <1>2 DEF NameCall
<1>3. CASE LogCall(t)
  BY <1>3 DEF LogCall
<1>4. QED
  <2> HIDE DEF LocksInv, CallManager
  <2>1. CASE ListCall(t)
    BY <1>1, <2>1 DEF ListCall
  <2>2. CASE SnapshotCall(t)
    BY <1>1, <2>2 DEF SnapshotCall
  <2>3. CASE RoomCall(t)
    BY <1>1, <2>3 DEF RoomCall
  <2>4. CASE RegistryCall(t)
    BY <1>1, <2>4 DEF RegistryCall
  <2>5. CASE GroupCall(t)
    BY <1>1, <2>5 DEF GroupCall
  <2>6. QED
    BY <1>2, <1>3, <2>1, <2>2, <2>3, <2>4, <2>5 DEF Calls

\* A stream takes a line or none.
LEMMA WritingKeepsTypes ==
    ASSUME LocksInv, NEW s \in Stream, NEW n \in Nat, Writes(s, n)
    PROVE  good' \in SUBSET Stream /\ written' \in [Stream -> Seq(Nat)]
<1>1. written \in [Stream -> Seq(Nat)] /\ good \in SUBSET Stream
  BY DEF LocksInv, TypeOK
<1>2. Append(written[s], n) \in Seq(Nat)
  BY <1>1
<1>3. CASE written' = [written EXCEPT ![s] = Append(@, n)] /\ UNCHANGED good
  BY <1>1, <1>2, <1>3
<1>4. CASE good' = good \ {s} /\ UNCHANGED written
  BY <1>1, <1>4
<1>5. QED
  BY <1>3, <1>4 DEF Writes

LEMMA StepPreservesLocks ==
    ASSUME LocksInv, NEW t \in Thread, Step(t)
    PROVE  LocksInv'
<1> USE DEF LocksInv, TypeOK, Holds, Lock, Unlock, Back, logVars
<1>1. CASE LockOuter(t)
  BY <1>1 DEF LockOuter
<1>2. CASE AskName(t)
  BY <1>2 DEF AskName
<1>3. CASE AskLog(t)
  <2>1. /\ at[t] = "inside" /\ warns' = [warns EXCEPT ![t] = FALSE]
        /\ UNCHANGED <<owner, outer, names, logVars, calls>>
    BY <1>3 DEF AskLog
  <2>2. \/ UNCHANGED <<at, inner>>
        \/ at' = [at EXCEPT ![t] = "inner"] /\ inner' = [inner EXCEPT ![t] = "log"]
    BY <1>3 DEF AskLog
  <2>3. TypeOK'
    <3>1. warns' \in [Thread -> BOOLEAN]
      BY <2>1
    <3>2. /\ at' \in [Thread -> {"idle", "outer", "inside", "inner", "nested", "console"}]
          /\ inner' \in [Thread -> Handler \cup {"log", Nobody}]
      <4>1. CASE UNCHANGED <<at, inner>>
        BY <4>1
      <4>2. CASE at' = [at EXCEPT ![t] = "inner"] /\ inner' = [inner EXCEPT ![t] = "log"]
        BY <4>2
      <4>3. QED
        BY <2>2, <4>1, <4>2
    <3>3. UNCHANGED <<owner, outer, names, good, lines, line, written, calls>>
      BY <2>1
    <3>4. QED
      <4> HIDE DEF LocksInv, Holds
      <4>1. TypeOK
        BY DEF LocksInv
      <4>2. QED
        BY <3>1, <3>2, <3>3, <4>1
  <2>4. \A u \in Thread, m \in Mutex : Holds(u, m)' <=> Holds(u, m)
    BY <2>1, <2>2
  <2>5. \A u \in Thread :
          /\ at'[u] = "idle" => outer'[u] = Nobody
          /\ at'[u] \in {"outer", "inside"} => outer'[u] # Nobody
          /\ at'[u] \in {"inner", "nested", "console"} <=> inner'[u] # Nobody
          /\ at'[u] = "console" => inner'[u] = "log"
    BY <2>1, <2>2
  <2>6. QED
    <3> HIDE DEF TypeOK, Holds
    <3>1. QED
      BY <2>1, <2>3, <2>4, <2>5
<1>4. CASE LockInner(t)
  BY <1>4 DEF LockInner
<1>5. CASE UnlockName(t)
  BY <1>5 DEF UnlockName
<1>6. CASE UnlockOuter(t)
  BY <1>6 DEF UnlockOuter
<1>7. CASE WriteFile(t)
  <2>1. lines' = lines + 1 /\ Writes("file", lines + 1) /\ lines + 1 \in Nat
    BY <1>7 DEF WriteFile
  <2>2. /\ at[t] = "nested" /\ inner[t] = "log" /\ at' = [at EXCEPT ![t] = "console"]
        /\ line' = [line EXCEPT ![t] = lines + 1]
        /\ UNCHANGED <<owner, outer, inner, names, warns, calls>>
    BY <1>7 DEF WriteFile
  <2>3. good' \in SUBSET Stream /\ written' \in [Stream -> Seq(Nat)]
    <3> HIDE DEF LocksInv
    <3>1. QED
      BY <2>1, WritingKeepsTypes
  <2>4. TypeOK'
    BY <2>1, <2>2, <2>3
  <2>5. \A u \in Thread, m \in Mutex : Holds(u, m)' <=> Holds(u, m)
    BY <2>2
  <2>6. \A u \in Thread :
          /\ at'[u] = "idle" => outer'[u] = Nobody
          /\ at'[u] \in {"outer", "inside"} => outer'[u] # Nobody
          /\ at'[u] \in {"inner", "nested", "console"} <=> inner'[u] # Nobody
          /\ at'[u] = "console" => inner'[u] = "log"
    BY <2>2
  <2>7. QED
    <3> HIDE DEF TypeOK, Holds
    <3>1. QED
      BY <2>2, <2>4, <2>5, <2>6
<1>8. CASE WriteConsole(t)
  <2>1. PICK s \in Console : Writes(s, line[t])
    BY <1>8 DEF WriteConsole
  <2>2. good' \in SUBSET Stream /\ written' \in [Stream -> Seq(Nat)]
    <3>1. line[t] \in Nat
      OBVIOUS
    <3> HIDE DEF LocksInv
    <3>2. QED
      BY <2>1, <3>1, WritingKeepsTypes
  <2>3. /\ line' = [line EXCEPT ![t] = 0] /\ UNCHANGED lines
        /\ at[t] = "console" /\ Unlock("log") /\ Back(t)
        /\ UNCHANGED <<outer, names, warns, calls>>
    BY <1>8 DEF WriteConsole
  <2>4. line' \in [Thread -> Nat] /\ lines' \in Nat
    BY <2>3
  <2>5. TypeOK'
    BY <2>2, <2>3, <2>4
  <2>6. owner["log"] = t /\ inner[t] = "log"
    BY <2>3
  <2>7. \A u \in Thread, m \in Mutex : owner'[m] = u <=> Holds(u, m)'
    BY <2>3, <2>6
  <2>8. \A u \in Thread :
          /\ at'[u] = "idle" => outer'[u] = Nobody
          /\ at'[u] \in {"outer", "inside"} => outer'[u] # Nobody
          /\ at'[u] \in {"inner", "nested", "console"} <=> inner'[u] # Nobody
          /\ at'[u] = "console" => inner'[u] = "log"
    BY <2>3
  <2>9. QED
    <3> HIDE DEF TypeOK, Holds
    <3>1. QED
      BY <2>5, <2>7, <2>8
<1>9. QED
  BY <1>1, <1>2, <1>3, <1>4, <1>5, <1>6, <1>7, <1>8 DEF Step

\* Who is waited for either waits for nothing or, holding a manager's mutex,
\* waits for somebody who waits for nothing.
LEMMA InnerOwnersDoNotWait ==
    ASSUME LocksInv, NEW t \in Thread, at[t] = "inner", Waiting(t)
    PROVE  owner[inner[t]] \in Thread /\ ~Waiting(owner[inner[t]])
<1>1. inner[t] \in Handler \cup {"log"} /\ owner[inner[t]] \in Thread
  BY DEF LocksInv, TypeOK, Waiting, Awaited
<1>2. PICK u \in Thread : u = owner[inner[t]]
  BY <1>1
<1>3. Holds(u, inner[t])
  BY <1>1, <1>2 DEF LocksInv
<1>4. outer[u] # inner[t]
  BY <1>1 DEF LocksInv, TypeOK
<1>5. at[u] \in {"nested", "console"}
  BY <1>3, <1>4 DEF Holds
<1>6. QED
  BY <1>2, <1>5 DEF Waiting

LEMMA OuterOwnersWaitInside ==
    ASSUME LocksInv, NEW t \in Thread, at[t] = "outer", Waiting(t)
    PROVE  /\ owner[outer[t]] \in Thread
           /\ at[owner[outer[t]]] # "outer"
BY DEF LocksInv, TypeOK, Holds, Waiting, Awaited

LEMMA InvImpliesNoCycle == LocksInv => NoWaitCycle
<1> SUFFICES ASSUME LocksInv,
                    NEW circle \in (SUBSET Thread) \ {{}},
                    \A t \in circle : Waiting(t) /\ owner[Awaited(t)] \in circle
             PROVE  FALSE
  BY DEF NoWaitCycle
<1>1. PICK t \in circle : TRUE
  OBVIOUS
<1>2. \A u \in circle : u \in Thread /\ at[u] # "inner"
  BY InnerOwnersDoNotWait DEF Awaited
<1>3. at[t] = "outer" /\ Waiting(t)
  BY <1>1, <1>2 DEF Waiting
<1>4. owner[outer[t]] \in circle /\ at[owner[outer[t]]] # "outer"
  BY <1>1, <1>3, OuterOwnersWaitInside DEF Awaited
<1>5. QED
  BY <1>2, <1>4 DEF Waiting

LEMMA InvImpliesShortWaits == LocksInv => WaitsAreShort
<1> SUFFICES ASSUME LocksInv, NEW t \in Thread, Waiting(t)
             PROVE  /\ owner[Awaited(t)] \in Thread
                    /\ Waiting(owner[Awaited(t)]) =>
                        /\ owner[Awaited(owner[Awaited(t)])] \in Thread
                        /\ ~Waiting(owner[Awaited(owner[Awaited(t)])])
  BY DEF WaitsAreShort
<1>1. CASE at[t] = "inner"
  BY <1>1, InnerOwnersDoNotWait DEF Awaited
<1>2. CASE at[t] = "outer"
  <2>1. owner[Awaited(t)] \in Thread /\ at[owner[Awaited(t)]] # "outer"
    BY <1>2, OuterOwnersWaitInside DEF Awaited
  <2>2. ASSUME NEW u \in Thread, at[u] # "outer", Waiting(u)
        PROVE  owner[Awaited(u)] \in Thread /\ ~Waiting(owner[Awaited(u)])
    <3>1. at[u] = "inner"
      BY <2>2 DEF Waiting
    <3>2. QED
      BY <2>2, <3>1, InnerOwnersDoNotWait DEF Awaited
  <2>3. QED
    BY <2>1, <2>2
<1>3. QED
  BY <1>1, <1>2 DEF Waiting

-----------------------------------------------------------------------------
(* Progress.                                                               *)

\* A call is begun by a thread that has none under way.
LEMMA CallsFromIdle ==
    ASSUME LocksInv, NEW t \in Thread, Calls(t)
    PROVE  /\ at[t] = "idle"
           /\ \A u \in Thread \ {t} :
                /\ at'[u] = at[u] /\ outer'[u] = outer[u] /\ inner'[u] = inner[u]
                /\ names'[u] = names[u] /\ warns'[u] = warns[u]
<1> USE DEF LocksInv, TypeOK, Begins
<1>1. ASSUME NEW m, NEW asked, NEW warning, CallManager(t, m, asked, warning)
      PROVE  /\ at[t] = "idle"
             /\ \A u \in Thread \ {t} :
                  /\ at'[u] = at[u] /\ outer'[u] = outer[u] /\ inner'[u] = inner[u]
                  /\ names'[u] = names[u] /\ warns'[u] = warns[u]
  BY <1>1 DEF CallManager
<1>2. CASE NameCall(t) \/ LogCall(t)
  BY <1>2 DEF NameCall, LogCall
<1>3. CASE ListCall(t) \/ SnapshotCall(t) \/ RoomCall(t) \/ RegistryCall(t) \/ GroupCall(t)
  BY <1>1, <1>3 DEF ListCall, SnapshotCall, RoomCall, RegistryCall, GroupCall
<1>4. QED
  BY <1>2, <1>3 DEF Calls

LEMMA StepComesNearer ==
    ASSUME LocksInv, NEW t \in Thread, Step(t)
    PROVE  /\ Nearer(t)
           /\ \A u \in Thread \ {t} :
                /\ at'[u] = at[u] /\ outer'[u] = outer[u] /\ inner'[u] = inner[u]
                /\ names'[u] = names[u] /\ warns'[u] = warns[u]
<1> USE DEF LocksInv, TypeOK, Nearer, Distance, Back
<1>1. CASE LockOuter(t) \/ LockInner(t)
  BY <1>1 DEF LockOuter, LockInner
<1>2. CASE AskName(t)
  BY <1>2 DEF AskName
<1>3. CASE AskLog(t)
  <2>1. warns[t] /\ warns' = [warns EXCEPT ![t] = FALSE] /\ names' = names /\ outer' = outer
    BY <1>3 DEF AskLog
  <2>2. \A u \in Thread \ {t} : at'[u] = at[u] /\ inner'[u] = inner[u]
    BY <1>3 DEF AskLog
  <2>3. ~warns'[t] /\ \A u \in Thread \ {t} : warns'[u] = warns[u]
    BY <2>1
  <2>4. QED
    BY <2>1, <2>2, <2>3
<1>4. CASE UnlockName(t) \/ UnlockOuter(t)
  BY <1>4 DEF UnlockName, UnlockOuter
<1>5. CASE WriteFile(t) \/ WriteConsole(t)
  BY <1>5 DEF WriteFile, WriteConsole
<1>6. QED
  BY <1>1, <1>2, <1>3, <1>4, <1>5 DEF Step

-----------------------------------------------------------------------------
(* The log.                                                                *)

\* The order of the lines is left alone by whoever does not log.
LEMMA NoLinePreservesLog ==
    ASSUME LogInv, UNCHANGED logVars,
           \A u \in Thread : at'[u] = "console" <=> at[u] = "console"
    PROVE  LogInv'
BY DEF LogInv, LinesInOrder, On, logVars

LEMMA CallsPreserveLog ==
    ASSUME LocksInv, LogInv, NEW t \in Thread, Calls(t)
    PROVE  LogInv'
<1>1. /\ UNCHANGED logVars
      /\ \A u \in Thread : at'[u] = "console" <=> at[u] = "console"
  BY DEF Calls, ListCall, SnapshotCall, RoomCall, RegistryCall, GroupCall, NameCall,
     LogCall, CallManager, Begins, LocksInv, TypeOK
<1>2. QED
  BY <1>1, NoLinePreservesLog

\* A line later than all that a stream has leaves the stream in order, and no
\* other stream is touched.
LEMMA WritingKeepsOrder ==
    ASSUME LocksInv, LogInv, NEW s \in Stream, NEW n \in Nat, Writes(s, n),
           \A k \in On(s) : k < n
    PROVE  /\ \A r \in Stream : \A i, j \in 1..Len(written'[r]) :
                  i < j => written'[r][i] < written'[r][j]
           /\ \A r \in Stream \ {s} : On(r)' = On(r)
           /\ On(s) \subseteq On(s)' /\ On(s)' \subseteq On(s) \cup {n}
           /\ s \in good' => n \in On(s)'
           /\ good' \subseteq good
<1>1. written \in [Stream -> Seq(Nat)] /\ good \in SUBSET Stream
  BY DEF LocksInv, TypeOK
<1>2. \A r \in Stream : \A i, j \in 1..Len(written[r]) :
          i < j => written[r][i] < written[r][j]
  BY DEF LogInv, LinesInOrder
<1>3. CASE s \in good /\ written' = [written EXCEPT ![s] = Append(@, n)] /\ UNCHANGED good
  <2>1. written'[s] = Append(written[s], n) /\ written[s] \in Seq(Nat)
    BY <1>1, <1>3
  <2>2. /\ Len(written[s]) \in Nat
        /\ Len(written'[s]) = Len(written[s]) + 1
        /\ written'[s][Len(written[s]) + 1] = n
        /\ \A i \in 1..Len(written[s]) : written'[s][i] = written[s][i]
    BY <2>1
  <2>3. \A r \in Stream \ {s} : written'[r] = written[r]
    BY <1>1, <1>3
  <2>4. \A i \in 1..Len(written[s]) : written[s][i] < n
    BY DEF On
  <2>5. \A i, j \in 1..Len(written'[s]) : i < j => written'[s][i] < written'[s][j]
    <3> SUFFICES ASSUME NEW i \in 1..Len(written'[s]), NEW j \in 1..Len(written'[s]),
                        i < j
                 PROVE  written'[s][i] < written'[s][j]
      OBVIOUS
    <3>1. i \in 1..Len(written[s]) /\ (j \in 1..Len(written[s]) \/ j = Len(written[s]) + 1)
      BY <2>2
    <3>2. QED
      BY <1>2, <2>2, <2>4, <3>1
  <2>6. On(s) \subseteq On(s)' /\ n \in On(s)' /\ On(s)' \subseteq On(s) \cup {n}
    <3>1. \A i \in 1..Len(written[s]) : i \in 1..Len(written'[s])
      BY <2>2
    <3>2. \A i \in 1..Len(written'[s]) :
            i \in 1..Len(written[s]) \/ i = Len(written[s]) + 1
      BY <2>2
    <3>3. Len(written[s]) + 1 \in 1..Len(written'[s])
      BY <2>2
    <3>4. QED
      BY <2>2, <3>1, <3>2, <3>3 DEF On
  <2>7. QED
    BY <1>2, <1>3, <2>3, <2>5, <2>6 DEF On
<1>4. CASE good' = good \ {s} /\ UNCHANGED written
  BY <1>1, <1>2, <1>4 DEF On
<1>5. QED
  BY <1>3, <1>4 DEF Writes

LEMMA StepPreservesLog ==
    ASSUME LocksInv, LogInv, NEW t \in Thread, Step(t)
    PROVE  LogInv'
<1>1. CASE \/ LockOuter(t) \/ AskName(t) \/ AskLog(t) \/ LockInner(t)
           \/ UnlockName(t) \/ UnlockOuter(t)
  <2>1. /\ UNCHANGED logVars
        /\ \A u \in Thread : at'[u] = "console" <=> at[u] = "console"
    BY <1>1 DEF LockOuter, AskName, AskLog, LockInner, UnlockName, UnlockOuter, Back,
       LocksInv, TypeOK
  <2>2. QED
    BY <2>1, NoLinePreservesLog
<1>2. /\ lines \in Nat /\ line \in [Thread -> Nat]
      /\ at \in [Thread -> {"idle", "outer", "inside", "inner", "nested", "console"}]
  BY DEF LocksInv, TypeOK
<1>3. /\ \A s \in Stream : On(s) \subseteq 1..lines
      /\ \A n \in 1..lines : "file" \in good => n \in On("file")
      /\ \A n \in 1..lines : Console \subseteq good =>
            \/ n \in On("out") \cup On("err")
            \/ \E u \in Thread : at[u] = "console" /\ line[u] = n
  BY DEF LogInv, LinesInOrder
<1>4. CASE WriteFile(t)
  <2>1. \A u \in Thread : at[u] # "console"
    BY <1>4 DEF WriteFile, Holds, LocksInv, TypeOK
  <2>2. /\ at' = [at EXCEPT ![t] = "console"] /\ line' = [line EXCEPT ![t] = lines + 1]
        /\ lines' = lines + 1 /\ Writes("file", lines + 1)
    BY <1>4 DEF WriteFile
  <2>3. \A k \in On("file") : k < lines + 1
    BY <1>2, <1>3
  <2>4. /\ \A r \in Stream : \A i, j \in 1..Len(written'[r]) :
                i < j => written'[r][i] < written'[r][j]
        /\ \A r \in Console : On(r)' = On(r)
        /\ On("file") \subseteq On("file")'
        /\ On("file")' \subseteq On("file") \cup {lines + 1}
        /\ "file" \in good' => lines + 1 \in On("file")'
        /\ good' \subseteq good
    BY <1>2, <2>2, <2>3, WritingKeepsOrder
  <2>5. 1..lines' = (1..lines) \cup {lines'}
    BY <1>2, <2>2
  <2>6. at'[t] = "console" /\ line'[t] = lines'
        /\ \A u \in Thread \ {t} : at'[u] # "console"
    BY <1>2, <2>1, <2>2
  <2>7. \A s \in Stream : On(s)' \subseteq 1..lines'
    BY <1>3, <2>2, <2>4, <2>5
  <2>8. \A s \in Console : lines' \notin On(s)'
    BY <1>2, <1>3, <2>2, <2>4
  <2>9. \A n \in 1..lines' :
          /\ "file" \in good' => n \in On("file")'
          /\ Console \subseteq good' =>
              \/ n \in On("out")' \cup On("err")'
              \/ \E u \in Thread : at'[u] = "console" /\ line'[u] = n
    BY <1>3, <2>1, <2>2, <2>4, <2>5, <2>6
  <2>10. QED
    BY <1>2, <2>2, <2>4, <2>6, <2>7, <2>8, <2>9 DEF LogInv, LinesInOrder
<1>5. CASE WriteConsole(t)
  <2>1. \A u \in Thread : at[u] = "console" => u = t
    BY <1>5 DEF WriteConsole, Holds, LocksInv, TypeOK
  <2>2. line[t] = lines /\ lines > 0 /\ \A s \in Console : lines \notin On(s)
    BY <1>5 DEF WriteConsole, LogInv
  <2>3. PICK s \in Console : Writes(s, lines)
    BY <1>5, <2>2 DEF WriteConsole
  <2>4. lines' = lines /\ \A u \in Thread : at'[u] # "console"
    BY <1>5, <2>1 DEF WriteConsole, Back, LocksInv, TypeOK
  <2>5. \A k \in On(s) : k < lines
    BY <1>2, <1>3, <2>2
  <2>6. /\ \A r \in Stream : \A i, j \in 1..Len(written'[r]) :
                i < j => written'[r][i] < written'[r][j]
        /\ \A r \in Stream \ {s} : On(r)' = On(r)
        /\ On(s) \subseteq On(s)' /\ On(s)' \subseteq On(s) \cup {lines}
        /\ s \in good' => lines \in On(s)'
        /\ good' \subseteq good
    BY <1>2, <2>3, <2>5, WritingKeepsOrder
  <2>7. \A r \in Stream : On(r)' \subseteq 1..lines'
    BY <1>2, <1>3, <2>2, <2>4, <2>6
  <2>8. \A n \in 1..lines' :
          /\ "file" \in good' => n \in On("file")'
          /\ Console \subseteq good' => n \in On("out")' \cup On("err")'
    <3> SUFFICES ASSUME NEW n \in 1..lines
                 PROVE  /\ "file" \in good' => n \in On("file")'
                        /\ Console \subseteq good' => n \in On("out")' \cup On("err")'
      BY <2>4
    <3>1. "file" \in good' => n \in On("file")'
      BY <1>3, <2>6
    <3>2. ASSUME Console \subseteq good' PROVE n \in On("out")' \cup On("err")'
      <4>1. n \in On("out") \cup On("err") \/ n = lines
        BY <1>3, <2>1, <2>2, <2>6, <3>2
      <4>2. QED
        BY <2>6, <3>2, <4>1
    <3>3. QED
      BY <3>1, <3>2
  <2>9. QED
    BY <2>4, <2>6, <2>7, <2>8 DEF LogInv, LinesInOrder
<1>6. QED
  BY <1>1, <1>4, <1>5 DEF Step

-----------------------------------------------------------------------------
(* The theorems.                                                           *)

LEMMA NextPreservesInv ==
    ASSUME LocksInv, LogInv, Next
    PROVE  LocksInv' /\ LogInv'
<1>1. ASSUME NEW t \in Thread, Calls(t) \/ Step(t)
      PROVE  LocksInv' /\ LogInv'
  BY <1>1, CallsPreserveLocks, StepPreservesLocks, CallsPreserveLog, StepPreservesLog
<1>2. CASE Rest
  BY <1>2, StutterPreservesInv DEF Rest
<1>3. QED
  BY <1>1, <1>2 DEF Next

LEMMA InvariantsHold == Spec => [](LocksInv /\ LogInv)
<1>1. LocksInv /\ LogInv /\ [Next]_vars => (LocksInv /\ LogInv)'
  BY NextPreservesInv, StutterPreservesInv
<1>2. QED
  BY <1>1, InitEstablishesInv, PTL DEF Spec

\* Each mutex is held by the one thread in its critical section (LockGuard).
THEOREM LocksInvariant == Spec => []LocksInv
BY InvariantsHold, PTL

\* The server's threads never wait for one another in a circle (LockGuard,
\* add_client, broadcast, register_user, log).
THEOREM NoDeadlockOfLocks == Spec => []NoWaitCycle
<1>1. LocksInv /\ LogInv => NoWaitCycle
  BY InvImpliesNoCycle
<1>2. QED
  BY <1>1, InvariantsHold, PTL

\* A thread that waits has at most two ahead of it in its chain of waits: the
\* owner of the mutex and the one that owner waits for (LockGuard, add_client,
\* broadcast, register_user, log).
THEOREM ShortWaits == Spec => []WaitsAreShort
<1>1. LocksInv /\ LogInv => WaitsAreShort
  BY InvImpliesShortWaits
<1>2. QED
  BY <1>1, InvariantsHold, PTL

\* Each call takes finitely many steps and nothing ever sets it back: with
\* ShortWaits, what is left of CallsReturn is that threads are scheduled
\* (LockGuard, get_username, register_user, log).
THEOREM CallsComeNearer == Spec => CallsAdvance
<1>1. LocksInv /\ [Next]_vars =>
        [\A t \in Thread : at[t] # "idle" =>
            \/ Nearer(t)
            \/ /\ at'[t] = at[t] /\ outer'[t] = outer[t] /\ inner'[t] = inner[t]
               /\ names'[t] = names[t] /\ warns'[t] = warns[t]]_vars
  <2>1. SUFFICES ASSUME LocksInv, Next, NEW t \in Thread, at[t] # "idle", ~UNCHANGED vars
                 PROVE  \/ Nearer(t)
                        \/ /\ at'[t] = at[t] /\ outer'[t] = outer[t] /\ inner'[t] = inner[t]
                           /\ names'[t] = names[t] /\ warns'[t] = warns[t]
    OBVIOUS
  <2>2. PICK u \in Thread : Calls(u) \/ Step(u)
    BY <2>1 DEF Next, Rest
  <2>3. QED
    BY <2>1, <2>2, CallsFromIdle, StepComesNearer
<1>2. QED
  BY <1>1, LocksInvariant, PTL DEF Spec, CallsAdvance

\* The lines of the log are in one order wherever they are written, and none is
\* missing where writing has not failed (Logger::log).
THEOREM LogSerialized == Spec => []LinesInOrder
<1>1. LocksInv /\ LogInv => LinesInOrder
  BY DEF LogInv
<1>2. QED
  BY <1>1, InvariantsHold, PTL
=============================================================================
