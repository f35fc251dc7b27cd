---------------------------- MODULE LogMessages ----------------------------
(***************************************************************************)
(* Threads that log through glog (LogMessage and LogDestination,           *)
(* lib/glog/src/logging.cc) while sinks are registered and removed: the    *)
(* mutex log_mutex, the lock sink_mutex_, the two buffers for fatal        *)
(* messages and the record of the first of them.  Every user may have a    *)
(* sink.  The owner's is the one of glog's unit test: send() queues what   *)
(* its owner logs for a worker thread, which logs too, and WaitTillSent()  *)
(* waits for the queue.  In the others both calls return at once.          *)
(***************************************************************************)
EXTENDS Integers, FiniteSets

CONSTANTS
  Users,        \* threads that log and have sinks
  Owner,        \* the user whose sink has a worker
  Worker,       \* the thread of the owner's sink
  Nobody,
  MaxLogs,      \* messages of the users (bound)
  SharedReads,  \* Mutex is a pthread_rwlock_t (HAVE_RWLOCK), not a pthread_mutex_t
  WritersFirst  \* a writer that waits for a pthread_rwlock_t keeps new readers out

Threads == Users \cup {Worker}

ASSUME LogMessagesAssumption ==
  /\ Owner \in Users /\ Worker \notin Users /\ Nobody \notin Threads
  /\ MaxLogs \in Nat /\ {SharedReads, WritersFirst} \subseteq BOOLEAN

VARIABLES
  pc,         \* where each thread is in a message or in making or destroying its sink
  fatal,      \* the severity of its message is FATAL
  first,      \* first_fatal_ of its message
  log_mutex,  \* who holds log_mutex
  readers,    \* who holds a share of sink_mutex_
  sinks,      \* the users whose sinks are in sinks_
  queue,      \* messages_ of the worker, by number
  duty,       \* messages the worker has yet to log for the one it took off the queue
  exclusive,  \* fatal_msg_exclusive
  text,       \* whose message is in fatal_msg_data_exclusive
  reason,     \* whose message is the crash reason
  logs,       \* messages of users so far
  dead        \* the process has aborted

sinkVars == <<sinks, queue, duty>>

fatalVars == <<fatal, first, exclusive, text, reason>>

vars == <<pc, log_mutex, readers, sinkVars, fatalVars, logs, dead>>

\* A thread is idle, in a message, in the constructor or the destructor of its sink, or
\* it is the worker and does not exist.
Place == {"idle", "flush", "locked", "send", "unlocked", "wait", "fail",
          "add", "remove", "stop", "join", "gone"}

\* The types; the queue is never longer than one, as the owner waits for the worker.
TypeOK ==
  /\ pc \in [Threads -> Place]
  /\ fatal \in [Threads -> BOOLEAN] /\ first \in [Threads -> BOOLEAN]
  /\ log_mutex \in Threads \cup {Nobody} /\ readers \subseteq Threads
  /\ sinks \subseteq Users /\ queue \in 0 .. 1 /\ duty \in 0 .. 2
  /\ exclusive \in BOOLEAN /\ {text, reason} \subseteq Threads \cup {Nobody}
  /\ logs \in 0 .. MaxLogs /\ dead \in BOOLEAN

Init ==
  /\ pc = [t \in Threads |-> IF t = Worker THEN "gone" ELSE "idle"]
  /\ fatal = [t \in Threads |-> FALSE] /\ first = [t \in Threads |-> FALSE]
  /\ log_mutex = Nobody /\ readers = {}
  /\ sinks = {} /\ queue = 0 /\ duty = 0
  /\ exclusive = TRUE /\ text = Nobody /\ reason = Nobody
  /\ logs = 0 /\ dead = FALSE

Goes(t, from, to) == ~dead /\ pc[t] = from /\ pc' = [pc EXCEPT ![t] = to]

(***************************************************************************)
(* sink_mutex_.  A writer holds it for one step only.  POSIX leaves it to  *)
(* the system whether one that waits keeps new readers out: with the       *)
(* default lock of glibc it does not, with Mac OS's it does.               *)
(***************************************************************************)
WriterWaits == \E t \in Threads : pc[t] \in {"add", "remove"}

CanRead == IF SharedReads THEN ~(WritersFirst /\ WriterWaits) ELSE readers = {}

(***************************************************************************)
(* Making and destroying a sink.                                           *)
(***************************************************************************)
\* The constructor of the owner's sink starts the worker.
Construct(t) ==
  /\ ~dead /\ pc[t] = "idle" /\ t \notin sinks
  /\ pc' = [pc EXCEPT ![t] = "add", ![Worker] = IF t = Owner THEN "idle" ELSE @]
  /\ UNCHANGED <<log_mutex, readers, sinkVars, fatalVars, logs, dead>>

AddLogSink(t) ==
  /\ Goes(t, "add", "idle")
  /\ readers = {}
  /\ sinks' = sinks \cup {t}
  /\ UNCHANGED <<log_mutex, readers, queue, duty, fatalVars, logs, dead>>

\* The destructor begins.
Destroy(t) ==
  /\ Goes(t, "idle", "remove")
  /\ t \in sinks
  /\ UNCHANGED <<log_mutex, readers, sinkVars, fatalVars, logs, dead>>

RemoveLogSink(t) ==
  /\ Goes(t, "remove", IF t = Owner THEN "stop" ELSE "idle")
  /\ readers = {}
  /\ sinks' = sinks \ {t}
  /\ UNCHANGED <<log_mutex, readers, queue, duty, fatalVars, logs, dead>>

\* Sets should_exit_.
Stop(t) ==
  /\ Goes(t, "stop", "join")
  /\ UNCHANGED <<log_mutex, readers, sinkVars, fatalVars, logs, dead>>

\* should_exit_: false in a new worker, and set by Stop(), which Join() follows.
should_exit == pc[Owner] = "join"

\* Faulty variant of Joined: the destructor returns once the worker is told to stop.
JoinedNot == should_exit

Joined == pc[Worker] = "gone"

Join(t) ==
  /\ Goes(t, "join", "idle")
  /\ Joined
  /\ UNCHANGED <<log_mutex, readers, sinkVars, fatalVars, logs, dead>>

(***************************************************************************)
(* A message.                                                              *)
(***************************************************************************)
\* Faulty variant of TakesExclusive: the exclusive buffer stays free for the next.
TakesAnyway == exclusive' = TRUE

TakesExclusive == exclusive' = FALSE

\* LogMessage::Init: the first fatal message gets the exclusive buffer, the others
\* share one; other messages have their own.
InitMessage(t, f) ==
  /\ Goes(t, "idle", "flush")
  /\ fatal' = [fatal EXCEPT ![t] = f]
  /\ first' = [first EXCEPT ![t] = f /\ exclusive]
  /\ IF f /\ exclusive THEN TakesExclusive /\ text' = t ELSE UNCHANGED <<exclusive, text>>
  /\ UNCHANGED <<log_mutex, readers, sinks, reason, dead>>

UserLogs(t, f) ==
  /\ logs < MaxLogs
  /\ InitMessage(t, f)
  /\ logs' = logs + 1
  /\ UNCHANGED <<queue, duty>>

\* LogMessage::Flush takes log_mutex; the files are written under it.
Lock(t) ==
  /\ Goes(t, "flush", "locked")
  /\ log_mutex = Nobody
  /\ log_mutex' = t
  /\ UNCHANGED <<readers, sinkVars, fatalVars, logs, dead>>

\* Faulty variant of Shares: sink_mutex_ is not taken.
SharesNot(t) == readers

Shares(t) == readers \cup {t}

\* LogToSinks calls send() of every sink under a share of sink_mutex_.
LogToSinks(t) ==
  /\ Goes(t, "locked", "send")
  /\ CanRead
  /\ readers' = Shares(t)
  /\ queue' = IF t = Owner /\ t \in sinks THEN queue + 1 ELSE queue
  /\ UNCHANGED <<log_mutex, sinks, duty, fatalVars, logs, dead>>

\* Faulty variant of Unlocked: a fatal message keeps log_mutex while it waits for the
\* sinks.
KeptByFatal(t) == IF fatal[t] THEN t ELSE Nobody

Unlocked(t) == Nobody

\* The end of SendToLog.  The first fatal message is recorded; every message gives up
\* log_mutex before it waits for the sinks.
Unlock(t) ==
  /\ Goes(t, "send", "unlocked")
  /\ readers' = readers \ {t}
  /\ reason' = IF first[t] THEN text ELSE reason
  /\ log_mutex' = Unlocked(t)
  /\ UNCHANGED <<sinkVars, fatal, first, exclusive, text, logs, dead>>

\* WaitForSinks calls WaitTillSent() of every sink under a share of sink_mutex_.
WaitForSinks(t) ==
  /\ Goes(t, "unlocked", "wait")
  /\ CanRead
  /\ readers' = Shares(t)
  /\ UNCHANGED <<log_mutex, sinkVars, fatalVars, logs, dead>>

\* The owner's sink makes its owner wait for the queue.
AllSent(t) == t = Owner /\ t \in sinks => queue = 0

\* WaitForSinks returns, and so does the destructor of a message that is not fatal.
Waited(t) ==
  /\ Goes(t, "wait", IF fatal[t] THEN "fail" ELSE "idle")
  /\ AllSent(t)
  /\ readers' = readers \ {t}
  /\ UNCHANGED <<log_mutex, sinkVars, fatalVars, logs, dead>>

\* A fatal message ends the process.
Fail(t) ==
  /\ ~dead /\ pc[t] = "fail"
  /\ dead' = TRUE
  /\ UNCHANGED <<pc, log_mutex, readers, sinkVars, fatalVars, logs>>

(***************************************************************************)
(* The worker: Run.                                                        *)
(***************************************************************************)
\* Faulty variant of HaveWork: the worker does not look at the queue.
HaveWorkAnyway == TRUE

\* Faulty variant of HaveWork: the last message is left in the queue.
HaveWorkBesides == queue > 1 \/ should_exit

HaveWork == queue > 0 \/ should_exit

\* The worker leaves its loop, once told to, when nothing is queued.
WorkerExits ==
  /\ Goes(Worker, "idle", "gone")
  /\ duty = 0 /\ HaveWork
  /\ should_exit /\ queue = 0
  /\ UNCHANGED <<log_mutex, readers, sinkVars, fatalVars, logs, dead>>

\* Otherwise it takes a message off the queue ...
WorkerTakes ==
  /\ ~dead /\ pc[Worker] = "idle"
  /\ duty = 0 /\ HaveWork
  /\ ~(should_exit /\ queue = 0)
  /\ queue' = queue - 1 /\ duty' = 2
  /\ UNCHANGED <<pc, log_mutex, readers, sinks, fatalVars, logs, dead>>

\* ... and logs two of its own.
WorkerLogs ==
  /\ duty > 0
  /\ InitMessage(Worker, FALSE)
  /\ duty' = duty - 1
  /\ UNCHANGED <<queue, logs>>

Step(t) ==
  \/ Lock(t) \/ LogToSinks(t) \/ Unlock(t) \/ WaitForSinks(t) \/ Waited(t) \/ Fail(t)
  \/ AddLogSink(t) \/ RemoveLogSink(t) \/ Stop(t) \/ Join(t)
  \/ t = Worker /\ (WorkerExits \/ WorkerTakes \/ WorkerLogs)

Next ==
  \/ \E t \in Threads : Step(t)
  \/ \E t \in Users : Construct(t) \/ Destroy(t) \/ \E f \in BOOLEAN : UserLogs(t, f)

Spec == Init /\ [][Next]_vars

\* No thread that can go on is suspended for ever.
FairSpec == Spec /\ \A t \in Threads : WF_vars(Step(t))

(***************************************************************************)
(* Properties.                                                             *)
(***************************************************************************)
\* No sink is removed while a thread is in send() or WaitTillSent() of the registered
\* sinks, so a sink may be destroyed once RemoveLogSink has returned: both are called
\* under a share of sink_mutex_ only.
NobodyInRemovedSink ==
  [][(\E t \in Threads : pc[t] \in {"send", "wait"}) => sinks \subseteq sinks']_vars

\* `we want to preserve the data from the first call': if a crash reason is recorded it
\* is the message of the first thread that logged a fatal one, whoever logs another
\* meanwhile.  (It may never be recorded: a later fatal message may abort first.)
FirstFatalKept ==
  \A t \in Threads : fatal[t] /\ first[t] /\ pc[t] # "idle" => text = t /\ reason \in {Nobody, t}

\* When the destructor of the owner's sink has returned its worker is gone, and has
\* logged all that the owner logged while the sink was registered, as glog's unit test
\* expects (logging_unittest.cc:1040).
SinkDrained ==
  Owner \notin sinks /\ pc[Owner] \notin {"add", "stop", "join"}
    => pc[Worker] = "gone" /\ queue = 0 /\ duty = 0

Busy == ~dead /\ \E t \in Threads : pc[t] \notin {"idle", "gone"}

\* What t waits for has happened.
CanGo(t) ==
  \/ pc[t] \in {"send", "fail", "stop"}
  \/ pc[t] = "flush" /\ log_mutex = Nobody
  \/ pc[t] \in {"locked", "unlocked"} /\ CanRead
  \/ pc[t] = "wait" /\ AllSent(t)
  \/ pc[t] \in {"add", "remove"} /\ readers = {}
  \/ pc[t] = "join" /\ pc[Worker] = "gone"
  \/ t = Worker /\ pc[t] = "idle" /\ (duty > 0 \/ HaveWork)

\* With shared reads there is always a thread that can go on while one has work to
\* do, unless a waiting writer keeps the readers out: log_mutex, sink_mutex_, the
\* sink's queue and the end of its worker never make all of them wait for each other
\* (logging.cc:787, 797, 1310), although the worker needs both locks.
NobodyStuck ==
  Busy /\ SharedReads /\ ~(WritersFirst /\ WriterWaits) => \E t \in Threads : CanGo(t)

\* The same whatever the lock does, as the comment on WaitTillSent() has it: `one can
\* implement complex logic for send() that itself involves logging; and do all this
\* w/o causing deadlocks' (logging.h.in:1399).
NeverStuck == Busy => \E t \in Threads : CanGo(t)

\* If waiting writers keep no reader out and the users stop logging at some time, every
\* message is logged and every sink made and destroyed, or the process dies, although
\* the worker logs while others wait for it.
LogReturns == \A t \in Threads : pc[t] \notin {"idle", "gone"} ~> pc[t] \in {"idle", "gone"} \/ dead
=============================================================================
