------------------------- MODULE LogMessagesProofs -------------------------
(***************************************************************************)
(* Proofs, for any number of threads and messages, about threads that log  *)
(* through glog: no sink is removed while a thread is inside, its worker   *)
(* leaves nothing undone, the first fatal message is the crash reason, and *)
(* not all threads wait for each other.                                    *)
(***************************************************************************)
EXTENDS LogMessages, TLAPS

\* The part of TypeOK that is about places, locks and numbers.
Places ==
  /\ pc \in [Threads -> Place]
  /\ log_mutex \in Threads \cup {Nobody} /\ readers \subseteq Threads
  /\ sinks \subseteq Users /\ queue \in Nat /\ duty \in 0 .. 2 /\ logs \in 0 .. MaxLogs

\* The part of TypeOK that is about truth values and whose message is kept.
Flags ==
  /\ fatal \in [Threads -> BOOLEAN] /\ first \in [Threads -> BOOLEAN]
  /\ exclusive \in BOOLEAN /\ dead \in BOOLEAN
  /\ text \in Threads \cup {Nobody} /\ reason \in Threads \cup {Nobody}

\* Who holds which lock is who is at the statements between taking and releasing it.
LocksHeld ==
  /\ \A t \in Threads : t \in readers <=> pc[t] \in {"send", "wait"}
  /\ \A t \in Threads : log_mutex = t <=> pc[t] \in {"locked", "send"}

\* The worker has no sink, and only the owner has a worker to stop.
Roles ==
  /\ pc[Worker] \notin {"add", "remove", "stop", "join"}
  /\ \A t \in Users : pc[t] # "gone" /\ (t # Owner => pc[t] \notin {"stop", "join"})

\* The worker is there from the constructor of the sink to the end of the destructor,
\* and leaves nothing undone.
WorkerLives ==
  /\ pc[Owner] = "remove" => Owner \in sinks
  /\ pc[Owner] \in {"add", "stop", "join"} => Owner \notin sinks
  /\ Owner \in sinks \/ pc[Owner] = "add" => pc[Worker] # "gone"
  /\ pc[Worker] = "gone" => queue = 0 /\ duty = 0
  /\ Owner \notin sinks /\ pc[Owner] \notin {"add", "stop", "join"} => pc[Worker] = "gone"

\* What is queued is the message in which the owner is, and its sink is registered.
QueueOwned ==
  /\ queue <= 1
  /\ queue > 0 => Owner \in sinks /\ pc[Owner] \in {"send", "unlocked", "wait"}

\* Only the message in the exclusive buffer counts as the first, and only it is recorded.
FirstIsText ==
  /\ exclusive => text = Nobody /\ \A t \in Threads : ~first[t]
  /\ \A t \in Threads : first[t] => text = t
  /\ reason \in {Nobody, text}

Inv == Places /\ LocksHeld /\ Roles /\ WorkerLives /\ QueueOwned

\* Every thread step and every user's decision is one of these.
LEMMA StepCases ==
  [Next]_vars =>
    \/ \E t \in Threads : \/ Lock(t) \/ LogToSinks(t) \/ Unlock(t) \/ WaitForSinks(t)
                          \/ Waited(t) \/ Fail(t) \/ AddLogSink(t) \/ RemoveLogSink(t)
                          \/ Stop(t) \/ Join(t)
    \/ WorkerExits \/ WorkerTakes \/ WorkerLogs
    \/ \E t \in Users : Construct(t) \/ Destroy(t) \/ \E f \in BOOLEAN : UserLogs(t, f)
    \/ UNCHANGED vars
BY Zenon DEF Next, Step

\* The users and the worker are different threads.
LEMMA Cast ==
  /\ Owner \in Users /\ Owner \in Threads /\ Worker \in Threads /\ Worker \notin Users
  /\ Worker # Owner /\ Users \subseteq Threads /\ Threads = Users \cup {Worker}
  /\ Nobody \notin Threads /\ MaxLogs \in Nat
BY LogMessagesAssumption DEF Threads

(***************************************************************************)
(* Types.                                                                  *)
(***************************************************************************)

\* Every step keeps the places, the locks and the counters in their ranges.
LEMMA PlacesStep == Places /\ Roles /\ [Next]_vars => Places'
<1> SUFFICES ASSUME Places, Roles, [Next]_vars PROVE Places'
  OBVIOUS
<1> USE Cast DEF Places, Roles, Goes, Place, sinkVars
<1>1. ASSUME NEW t \in Threads, Lock(t) \/ LogToSinks(t) PROVE Places'
  BY <1>1 DEF Lock, LogToSinks, Shares
<1>2. ASSUME NEW t \in Threads, Unlock(t) PROVE Places'
  BY <1>2 DEF Unlock, Unlocked
<1>3. ASSUME NEW t \in Threads, WaitForSinks(t) PROVE Places'
  BY <1>3 DEF WaitForSinks, Shares
<1>4. ASSUME NEW t \in Threads, Waited(t) PROVE Places'
  BY <1>4 DEF Waited, AllSent
<1>5. ASSUME NEW t \in Threads, Fail(t) PROVE Places'
  BY <1>5 DEF Fail
<1>6. ASSUME NEW t \in Threads, AddLogSink(t) PROVE Places'
  BY <1>6 DEF AddLogSink
<1>7. ASSUME NEW t \in Threads, RemoveLogSink(t) PROVE Places'
  BY <1>7 DEF RemoveLogSink
<1>8. ASSUME NEW t \in Threads, Stop(t) \/ Join(t) PROVE Places'
  BY <1>8 DEF Stop, Join, Joined
<1>9. CASE WorkerExits
  BY <1>9 DEF WorkerExits, should_exit
<1>10. CASE WorkerTakes
  BY <1>10 DEF WorkerTakes, HaveWork, should_exit
<1>11. CASE WorkerLogs
  BY <1>11 DEF WorkerLogs, InitMessage
<1>12. ASSUME NEW t \in Users, Construct(t) PROVE Places'
  BY <1>12 DEF Construct
<1>13. ASSUME NEW t \in Users, Destroy(t) PROVE Places'
  BY <1>13 DEF Destroy
<1>14. ASSUME NEW t \in Users, NEW f \in BOOLEAN, UserLogs(t, f) PROVE Places'
  BY <1>14 DEF UserLogs, InitMessage
<1>15. CASE UNCHANGED vars
  BY <1>15 DEF vars
<1> QED  BY StepCases, <1>1, <1>2, <1>3, <1>4, <1>5, <1>6, <1>7, <1>8, <1>9, <1>10, <1>11, <1>12, <1>13, <1>14, <1>15

\* A new message takes the exclusive buffer if it is fatal and the buffer is free.
LEMMA InitFlags ==
  ASSUME Flags, NEW t \in Threads, NEW f \in BOOLEAN, InitMessage(t, f)
  PROVE  Flags'
<1> USE DEF Flags, InitMessage
<1>1. (f /\ exclusive) \in BOOLEAN
  BY Zenon
<1>2. fatal' \in [Threads -> BOOLEAN] /\ first' \in [Threads -> BOOLEAN]
  BY <1>1, Zenon
<1>3. exclusive' \in BOOLEAN /\ text' \in Threads \cup {Nobody}
  BY Zenon DEF TakesExclusive
<1> QED  BY <1>2, <1>3, Zenon

\* Every step keeps the truth values and whose message is kept.
LEMMA FlagsStep == Flags /\ [Next]_vars => Flags'
<1> SUFFICES ASSUME Flags, [Next]_vars PROVE Flags'
  OBVIOUS
<1>1. ASSUME UNCHANGED <<fatalVars, dead>> PROVE Flags'
  BY <1>1, Zenon DEF Flags, fatalVars
<1>2. ASSUME NEW t \in Threads, Lock(t) \/ LogToSinks(t) \/ WaitForSinks(t) \/ Waited(t) PROVE Flags'
  BY <1>1, <1>2, Zenon DEF Lock, LogToSinks, WaitForSinks, Waited
<1>3. ASSUME NEW t \in Threads, Unlock(t) \/ Fail(t) PROVE Flags'
  BY <1>3, Zenon DEF Flags, fatalVars, Unlock, Fail
<1>4. ASSUME NEW t \in Threads, AddLogSink(t) \/ RemoveLogSink(t) \/ Stop(t) \/ Join(t) PROVE Flags'
  BY <1>1, <1>4, Zenon DEF AddLogSink, RemoveLogSink, Stop, Join
<1>5. CASE WorkerExits \/ WorkerTakes \/ UNCHANGED vars
  BY <1>1, <1>5, Zenon DEF WorkerExits, WorkerTakes, vars
<1>6. CASE WorkerLogs
  BY <1>6, Cast, InitFlags DEF WorkerLogs
<1>7. ASSUME NEW t \in Users, Construct(t) \/ Destroy(t) PROVE Flags'
  BY <1>1, <1>7, Zenon DEF Construct, Destroy
<1>8. ASSUME NEW t \in Users, NEW f \in BOOLEAN, UserLogs(t, f) PROVE Flags'
  BY <1>8, Cast, InitFlags DEF UserLogs
<1> QED  BY StepCases, <1>2, <1>3, <1>4, <1>5, <1>6, <1>7, <1>8

(***************************************************************************)
(* Locks, the sinks and the worker.                                        *)
(***************************************************************************)

\* Every step takes and releases the locks it is at.
LEMMA LocksStep == Places /\ Roles /\ WorkerLives /\ LocksHeld /\ [Next]_vars => LocksHeld'
<1> SUFFICES ASSUME Places, Roles, WorkerLives, LocksHeld, [Next]_vars PROVE LocksHeld'
  OBVIOUS
<1> USE Cast DEF Places, Roles, WorkerLives, LocksHeld, Goes, Place, sinkVars
<1>1. ASSUME NEW t \in Threads, Lock(t) \/ LogToSinks(t) PROVE LocksHeld'
  BY <1>1 DEF Lock, LogToSinks, Shares
<1>2. ASSUME NEW t \in Threads, Unlock(t) PROVE LocksHeld'
  BY <1>2 DEF Unlock, Unlocked
<1>3. ASSUME NEW t \in Threads, WaitForSinks(t) PROVE LocksHeld'
  BY <1>3 DEF WaitForSinks, Shares
<1>4. ASSUME NEW t \in Threads, Waited(t) PROVE LocksHeld'
  BY <1>4 DEF Waited, AllSent
<1>5. ASSUME NEW t \in Threads, Fail(t) PROVE LocksHeld'
  BY <1>5 DEF Fail
<1>6. ASSUME NEW t \in Threads, AddLogSink(t) PROVE LocksHeld'
  BY <1>6 DEF AddLogSink
<1>7. ASSUME NEW t \in Threads, RemoveLogSink(t) PROVE LocksHeld'
  BY <1>7 DEF RemoveLogSink
<1>8. ASSUME NEW t \in Threads, Stop(t) \/ Join(t) PROVE LocksHeld'
  BY <1>8 DEF Stop, Join, Joined
<1>9. CASE WorkerExits
  BY <1>9 DEF WorkerExits, should_exit
<1>10. CASE WorkerTakes
  BY <1>10 DEF WorkerTakes, HaveWork, should_exit
<1>11. CASE WorkerLogs
  BY <1>11 DEF WorkerLogs, InitMessage
<1>12. ASSUME NEW t \in Users, Construct(t) PROVE LocksHeld'
  BY <1>12 DEF Construct
<1>13. ASSUME NEW t \in Users, Destroy(t) PROVE LocksHeld'
  BY <1>13 DEF Destroy
<1>14. ASSUME NEW t \in Users, NEW f \in BOOLEAN, UserLogs(t, f) PROVE LocksHeld'
  BY <1>14 DEF UserLogs, InitMessage
<1>15. CASE UNCHANGED vars
  BY <1>15 DEF vars
<1> QED  BY StepCases, <1>1, <1>2, <1>3, <1>4, <1>5, <1>6, <1>7, <1>8, <1>9, <1>10, <1>11, <1>12, <1>13, <1>14, <1>15

\* No step takes the worker or a user to a place of the other.
LEMMA RolesStep == Places /\ Roles /\ [Next]_vars => Roles'
<1> SUFFICES ASSUME Places, Roles, [Next]_vars PROVE Roles'
  OBVIOUS
<1> USE Cast DEF Places, Roles, Goes, Place, sinkVars
<1>1. ASSUME NEW t \in Threads, Lock(t) \/ LogToSinks(t) PROVE Roles'
  BY <1>1 DEF Lock, LogToSinks, Shares
<1>2. ASSUME NEW t \in Threads, Unlock(t) PROVE Roles'
  BY <1>2 DEF Unlock, Unlocked
<1>3. ASSUME NEW t \in Threads, WaitForSinks(t) PROVE Roles'
  BY <1>3 DEF WaitForSinks, Shares
<1>4. ASSUME NEW t \in Threads, Waited(t) PROVE Roles'
  BY <1>4 DEF Waited, AllSent
<1>5. ASSUME NEW t \in Threads, Fail(t) PROVE Roles'
  BY <1>5 DEF Fail
<1>6. ASSUME NEW t \in Threads, AddLogSink(t) PROVE Roles'
  BY <1>6 DEF AddLogSink
<1>7. ASSUME NEW t \in Threads, RemoveLogSink(t) PROVE Roles'
  BY <1>7 DEF RemoveLogSink
<1>8. ASSUME NEW t \in Threads, Stop(t) \/ Join(t) PROVE Roles'
  BY <1>8 DEF Stop, Join, Joined
<1>9. CASE WorkerExits
  BY <1>9 DEF WorkerExits, should_exit
<1>10. CASE WorkerTakes
  BY <1>10 DEF WorkerTakes, HaveWork, should_exit
<1>11. CASE WorkerLogs
  BY <1>11 DEF WorkerLogs, InitMessage
<1>12. ASSUME NEW t \in Users, Construct(t) PROVE Roles'
  BY <1>12 DEF Construct
<1>13. ASSUME NEW t \in Users, Destroy(t) PROVE Roles'
  BY <1>13 DEF Destroy
<1>14. ASSUME NEW t \in Users, NEW f \in BOOLEAN, UserLogs(t, f) PROVE Roles'
  BY <1>14 DEF UserLogs, InitMessage
<1>15. CASE UNCHANGED vars
  BY <1>15 DEF vars
<1> QED  BY StepCases, <1>1, <1>2, <1>3, <1>4, <1>5, <1>6, <1>7, <1>8, <1>9, <1>10, <1>11, <1>12, <1>13, <1>14, <1>15

\* The worker starts with the constructor and ends between Stop() and Join().
LEMMA WorkerStep == Places /\ Roles /\ QueueOwned /\ WorkerLives /\ [Next]_vars => WorkerLives'
<1> SUFFICES ASSUME Places, Roles, QueueOwned, WorkerLives, [Next]_vars PROVE WorkerLives'
  OBVIOUS
<1> USE Cast DEF Places, Roles, QueueOwned, WorkerLives, Goes, Place, sinkVars
<1>1. ASSUME NEW t \in Threads, Lock(t) \/ LogToSinks(t) PROVE WorkerLives'
  BY <1>1 DEF Lock, LogToSinks, Shares
<1>2. ASSUME NEW t \in Threads, Unlock(t) PROVE WorkerLives'
  BY <1>2 DEF Unlock, Unlocked
<1>3. ASSUME NEW t \in Threads, WaitForSinks(t) PROVE WorkerLives'
  BY <1>3 DEF WaitForSinks, Shares
<1>4. ASSUME NEW t \in Threads, Waited(t) PROVE WorkerLives'
  BY <1>4 DEF Waited, AllSent
<1>5. ASSUME NEW t \in Threads, Fail(t) PROVE WorkerLives'
  BY <1>5 DEF Fail
<1>6. ASSUME NEW t \in Threads, AddLogSink(t) PROVE WorkerLives'
  BY <1>6 DEF AddLogSink
<1>7. ASSUME NEW t \in Threads, RemoveLogSink(t) PROVE WorkerLives'
  BY <1>7 DEF RemoveLogSink
<1>8. ASSUME NEW t \in Threads, Stop(t) \/ Join(t) PROVE WorkerLives'
  BY <1>8 DEF Stop, Join, Joined
<1>9. CASE WorkerExits
  BY <1>9 DEF WorkerExits, should_exit
<1>10. CASE WorkerTakes
  BY <1>10 DEF WorkerTakes, HaveWork, should_exit
<1>11. CASE WorkerLogs
  BY <1>11 DEF WorkerLogs, InitMessage
<1>12. ASSUME NEW t \in Users, Construct(t) PROVE WorkerLives'
  BY <1>12 DEF Construct
<1>13. ASSUME NEW t \in Users, Destroy(t) PROVE WorkerLives'
  BY <1>13 DEF Destroy
<1>14. ASSUME NEW t \in Users, NEW f \in BOOLEAN, UserLogs(t, f) PROVE WorkerLives'
  BY <1>14 DEF UserLogs, InitMessage
<1>15. CASE UNCHANGED vars
  BY <1>15 DEF vars
<1> QED  BY StepCases, <1>1, <1>2, <1>3, <1>4, <1>5, <1>6, <1>7, <1>8, <1>9, <1>10, <1>11, <1>12, <1>13, <1>14, <1>15

\* The owner queues one message, and leaves it when the queue is empty.
LEMMA QueueStep == Places /\ Roles /\ WorkerLives /\ QueueOwned /\ [Next]_vars => QueueOwned'
<1> SUFFICES ASSUME Places, Roles, WorkerLives, QueueOwned, [Next]_vars PROVE QueueOwned'
  OBVIOUS
<1> USE Cast DEF Places, Roles, WorkerLives, QueueOwned, Goes, Place, sinkVars
<1>1. ASSUME NEW t \in Threads, Lock(t) \/ LogToSinks(t) PROVE QueueOwned'
  BY <1>1 DEF Lock, LogToSinks, Shares
<1>2. ASSUME NEW t \in Threads, Unlock(t) PROVE QueueOwned'
  BY <1>2 DEF Unlock, Unlocked
<1>3. ASSUME NEW t \in Threads, WaitForSinks(t) PROVE QueueOwned'
  BY <1>3 DEF WaitForSinks, Shares
<1>4. ASSUME NEW t \in Threads, Waited(t) PROVE QueueOwned'
  BY <1>4 DEF Waited, AllSent
<1>5. ASSUME NEW t \in Threads, Fail(t) PROVE QueueOwned'
  BY <1>5 DEF Fail
<1>6. ASSUME NEW t \in Threads, AddLogSink(t) PROVE QueueOwned'
  BY <1>6 DEF AddLogSink
<1>7. ASSUME NEW t \in Threads, RemoveLogSink(t) PROVE QueueOwned'
  BY <1>7 DEF RemoveLogSink
<1>8. ASSUME NEW t \in Threads, Stop(t) \/ Join(t) PROVE QueueOwned'
  BY <1>8 DEF Stop, Join, Joined
<1>9. CASE WorkerExits
  BY <1>9 DEF WorkerExits, should_exit
<1>10. CASE WorkerTakes
  BY <1>10 DEF WorkerTakes, HaveWork, should_exit
<1>11. CASE WorkerLogs
  BY <1>11 DEF WorkerLogs, InitMessage
<1>12. ASSUME NEW t \in Users, Construct(t) PROVE QueueOwned'
  BY <1>12 DEF Construct
<1>13. ASSUME NEW t \in Users, Destroy(t) PROVE QueueOwned'
  BY <1>13 DEF Destroy
<1>14. ASSUME NEW t \in Users, NEW f \in BOOLEAN, UserLogs(t, f) PROVE QueueOwned'
  BY <1>14 DEF UserLogs, InitMessage
<1>15. CASE UNCHANGED vars
  BY <1>15 DEF vars
<1> QED  BY StepCases, <1>1, <1>2, <1>3, <1>4, <1>5, <1>6, <1>7, <1>8, <1>9, <1>10, <1>11, <1>12, <1>13, <1>14, <1>15

\* The invariant of the locks, the sinks and the worker.
LEMMA Invariant == Spec => []Inv
<1>1. Init => Inv
  BY Cast DEF Init, Inv, Places, Place, LocksHeld, Roles, WorkerLives, QueueOwned
<1>2. Inv /\ [Next]_vars => Inv'
  BY PlacesStep, LocksStep, RolesStep, WorkerStep, QueueStep DEF Inv
<1> QED  BY <1>1, <1>2, PTL DEF Spec

(***************************************************************************)
(* Fatal messages.                                                         *)
(***************************************************************************)

\* A new message is the first fatal one only if no other was.
LEMMA InitFirst ==
  ASSUME Flags, FirstIsText, NEW t \in Threads, NEW f \in BOOLEAN, InitMessage(t, f)
  PROVE  FirstIsText'
<1> USE DEF Flags, FirstIsText
<1>1. reason' = reason /\ first' = [first EXCEPT ![t] = f /\ exclusive]
  BY Zenon DEF InitMessage
<1>2. CASE f /\ exclusive
  <2>1. exclusive' = FALSE /\ text' = t
    BY <1>2, Zenon DEF InitMessage, TakesExclusive
  <2>2. reason = Nobody /\ \A u \in Threads : ~first[u]
    BY <1>2, Zenon
  <2>3. \A u \in Threads : first'[u] => u = t
    BY <1>1, <2>2, Zenon
  <2> QED  BY <1>1, <2>1, <2>2, <2>3, Zenon
<1>3. CASE ~(f /\ exclusive)
  <2>1. exclusive' = exclusive /\ text' = text
    BY <1>3, Zenon DEF InitMessage
  <2>2. \A u \in Threads : first'[u] => first[u]
    BY <1>1, <1>3, Zenon
  <2> QED  BY <1>1, <2>1, <2>2, Zenon
<1> QED  BY <1>2, <1>3

\* Every step keeps the first fatal message in the exclusive buffer.
LEMMA FirstStep == Flags /\ FirstIsText /\ [Next]_vars => FirstIsText'
<1> SUFFICES ASSUME Flags, FirstIsText, [Next]_vars PROVE FirstIsText'
  OBVIOUS
<1>1. ASSUME UNCHANGED <<first, exclusive, text>>, reason' \in {reason, text} PROVE FirstIsText'
  BY <1>1, Zenon DEF FirstIsText
<1>2. ASSUME UNCHANGED fatalVars PROVE FirstIsText'
  BY <1>1, <1>2, Zenon DEF fatalVars
<1>3. ASSUME NEW t \in Threads, Lock(t) \/ LogToSinks(t) \/ WaitForSinks(t) \/ Waited(t) \/ Fail(t)
      PROVE  FirstIsText'
  BY <1>2, <1>3, Zenon DEF Lock, LogToSinks, WaitForSinks, Waited, Fail
<1>4. ASSUME NEW t \in Threads, Unlock(t) PROVE FirstIsText'
  BY <1>1, <1>4, Zenon DEF Unlock
<1>5. ASSUME NEW t \in Threads, AddLogSink(t) \/ RemoveLogSink(t) \/ Stop(t) \/ Join(t)
      PROVE  FirstIsText'
  BY <1>2, <1>5, Zenon DEF AddLogSink, RemoveLogSink, Stop, Join
<1>6. CASE WorkerExits \/ WorkerTakes \/ UNCHANGED vars
  BY <1>2, <1>6, Zenon DEF WorkerExits, WorkerTakes, vars
<1>7. CASE WorkerLogs
  BY <1>7, Cast, InitFirst DEF WorkerLogs
<1>8. ASSUME NEW t \in Users, Construct(t) \/ Destroy(t) PROVE FirstIsText'
  BY <1>2, <1>8, Zenon DEF Construct, Destroy
<1>9. ASSUME NEW t \in Users, NEW f \in BOOLEAN, UserLogs(t, f) PROVE FirstIsText'
  BY <1>9, Cast, InitFirst DEF UserLogs
<1> QED  BY StepCases, <1>3, <1>4, <1>5, <1>6, <1>7, <1>8, <1>9

(***************************************************************************)
(* The theorems.                                                           *)
(***************************************************************************)

\* Initially no flag is set but that the exclusive buffer is free.
LEMMA InitFlagsFirst == Init => Flags /\ FirstIsText
BY Zenon DEF Init, Flags, FirstIsText

\* Locks, counters, flags and the queue keep their types; in particular the worker's
\* queue never holds more than the one message its owner waits for.
THEOREM MessageTypes == Spec => []TypeOK
<1>1. Inv /\ Flags => TypeOK
  <2> SUFFICES ASSUME Inv, Flags PROVE TypeOK
    OBVIOUS
  <2>1. queue \in 0 .. 1
    BY DEF Inv, Places, QueueOwned
  <2> QED  BY <2>1, Zenon DEF Inv, Places, Flags, TypeOK
<1> QED  BY Invariant, InitFlagsFirst, FlagsStep, <1>1, PTL DEF Spec

\* No sink is removed while a thread is in send() or WaitTillSent(), however many threads
\* log, make and destroy sinks.
THEOREM RemovedSinkIsLeft == Spec => NobodyInRemovedSink
<1>1. Inv /\ [Next]_vars => [(\E t \in Threads : pc[t] \in {"send", "wait"}) => sinks \subseteq sinks']_vars
  <2> SUFFICES ASSUME Inv, [Next]_vars, NEW t \in Threads, pc[t] \in {"send", "wait"}
               PROVE  sinks \subseteq sinks'
    OBVIOUS
  <2>1. readers # {}
    BY DEF Inv, LocksHeld
  <2>2. ASSUME NEW u \in Threads, Lock(u) \/ LogToSinks(u) \/ Unlock(u) \/ WaitForSinks(u)
                                  \/ Waited(u) \/ Fail(u) \/ Stop(u) \/ Join(u)
        PROVE  sinks' = sinks
    BY <2>2, Zenon DEF Lock, LogToSinks, Unlock, WaitForSinks, Waited, Fail, Stop, Join, sinkVars
  <2>3. ASSUME NEW u \in Threads, AddLogSink(u) \/ RemoveLogSink(u) PROVE FALSE
    BY <2>1, <2>3 DEF AddLogSink, RemoveLogSink
  <2>4. CASE WorkerExits \/ WorkerTakes \/ WorkerLogs \/ UNCHANGED vars
    BY <2>4, Zenon DEF WorkerExits, WorkerTakes, WorkerLogs, InitMessage, vars, sinkVars
  <2>5. ASSUME NEW u \in Users, Construct(u) \/ Destroy(u) \/ \E f \in BOOLEAN : UserLogs(u, f)
        PROVE  sinks' = sinks
    BY <2>5, Zenon DEF Construct, Destroy, UserLogs, InitMessage, sinkVars
  <2> QED  BY StepCases, <2>2, <2>3, <2>4, <2>5
<1> QED  BY Invariant, <1>1, PTL DEF Spec, NobodyInRemovedSink

\* When the destructor of the owner's sink has returned the worker is gone and has logged
\* all it was given.
THEOREM SinkIsDrained == Spec => []SinkDrained
<1>1. Inv => SinkDrained
  BY DEF Inv, WorkerLives, SinkDrained
<1> QED  BY Invariant, <1>1, PTL

\* The crash reason, if there is one, is the message of the first thread that logged a
\* fatal one.
THEOREM FirstFatalIsKept == Spec => []FirstFatalKept
<1>1. FirstIsText => FirstFatalKept
  BY Zenon DEF FirstIsText, FirstFatalKept
<1> QED  BY InitFlagsFirst, FlagsStep, FirstStep, <1>1, PTL DEF Spec

\* Whoever waits for log_mutex, and has it not, waits for a thread that can go on.
LEMMA MutexHolderGoes ==
  ASSUME Inv, CanRead, NEW t \in Threads, pc[t] = "flush"
  PROVE  \E u \in Threads : CanGo(u)
<1>1. CASE log_mutex = Nobody
  BY <1>1 DEF CanGo
<1>2. CASE log_mutex # Nobody
  <2>1. PICK u \in Threads : pc[u] \in {"locked", "send"}
    BY <1>2 DEF Inv, Places, LocksHeld
  <2> QED  BY <2>1 DEF CanGo
<1> QED  BY <1>1, <1>2

\* Whoever is inside a message that the worker need not finish can go on, or waits for a
\* thread that can.
LEMMA MessageGoes ==
  ASSUME Inv, CanRead, NEW t \in Threads,
         \/ pc[t] \in {"flush", "locked", "send", "unlocked", "fail"}
         \/ pc[t] = "wait" /\ t # Owner
  PROVE  \E u \in Threads : CanGo(u)
BY MutexHolderGoes DEF CanGo, AllSent

\* A worker that has work can go on, or is in a message of its own and waits for a
\* thread that can.
LEMMA WorkerGoes ==
  ASSUME Inv, CanRead, HaveWork, pc[Worker] # "gone"
  PROVE  \E u \in Threads : CanGo(u)
<1>1. CASE pc[Worker] = "idle"
  BY <1>1, Cast DEF CanGo
<1>2. CASE pc[Worker] # "idle"
  <2>1. \/ pc[Worker] \in {"flush", "locked", "send", "unlocked", "fail"}
        \/ pc[Worker] = "wait" /\ Worker # Owner
    BY <1>2, Cast DEF Inv, Places, Place, Roles
  <2> QED  BY <2>1, Cast, MessageGoes
<1> QED  BY <1>1, <1>2

\* Whoever waits for a sink can go on or waits for the worker.
LEMMA SinkGoes ==
  ASSUME Inv, CanRead, NEW t \in Threads, pc[t] = "wait"
  PROVE  \E u \in Threads : CanGo(u)
<1>1. CASE AllSent(t)
  BY <1>1 DEF CanGo
<1>2. CASE ~AllSent(t)
  <2>1. HaveWork /\ pc[Worker] # "gone"
    BY <1>2 DEF AllSent, HaveWork, Inv, Places, WorkerLives
  <2> QED  BY <2>1, WorkerGoes
<1> QED  BY <1>1, <1>2

\* With shared reads not all threads ever wait for each other, unless a waiting writer
\* keeps the readers out.
THEOREM NoDeadlock == Spec => []NobodyStuck
<1>1. Inv => NobodyStuck
  <2> SUFFICES ASSUME Inv, Busy, SharedReads, ~(WritersFirst /\ WriterWaits)
               PROVE  \E u \in Threads : CanGo(u)
    BY DEF NobodyStuck
  <2>1. CanRead
    BY Zenon DEF CanRead
  <2>2. PICK t \in Threads : pc[t] \notin {"idle", "gone"}
    BY Zenon DEF Busy
  <2>3. CASE pc[t] \in {"flush", "locked", "send", "unlocked", "fail"}
    BY <2>1, <2>3, MessageGoes
  <2>4. CASE pc[t] = "wait"
    BY <2>1, <2>4, SinkGoes
  <2>5. CASE pc[t] \in {"add", "remove"}
    <3>1. CASE readers = {}
      BY <2>5, <3>1 DEF CanGo
    <3>2. CASE readers # {}
      <4>1. PICK u \in Threads : pc[u] \in {"send", "wait"}
        BY <3>2 DEF Inv, Places, LocksHeld
      <4> QED  BY <2>1, <4>1, MessageGoes, SinkGoes
    <3> QED  BY <3>1, <3>2
  <2>6. CASE pc[t] = "stop"
    BY <2>6 DEF CanGo
  <2>7. CASE pc[t] = "join"
    <3>1. CASE pc[Worker] = "gone"
      BY <2>7, <3>1 DEF CanGo
    <3>2. CASE pc[Worker] # "gone"
      <4>1. t = Owner
        BY <2>7, Cast DEF Inv, Roles
      <4>2. HaveWork
        BY <2>7, <4>1 DEF HaveWork, should_exit
      <4> QED  BY <2>1, <3>2, <4>2, WorkerGoes
    <3> QED  BY <3>1, <3>2
  <2> QED  BY <2>2, <2>3, <2>4, <2>5, <2>6, <2>7 DEF Inv, Places, Place
<1> QED  BY Invariant, <1>1, PTL
=============================================================================
