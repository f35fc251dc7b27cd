----------------------------- MODULE RaftClient -----------------------------
(***************************************************************************)
(* The handlers a client calls, GetStatus and Op, beside the daemons and   *)
(* the other handlers of Raft.  Neither takes lock_: they read status_     *)
(* while an iteration or a handler changes it, and Op goes on after its    *)
(* test of status_ whatever becomes of it, the death of the peer included. *)
(* The term in the answer of GetStatus is left out: it is read apart from  *)
(* the status and the two need not belong together.                        *)
(***************************************************************************)
EXTENDS RaftElection

CONSTANTS
  Clients,  \* the handler threads that serve clients
  MaxOps    \* how many Ops are let past the test of status_ (bound)

ASSUME MaxOpsAssumption == MaxOps \in Nat

VARIABLES
  handler,   \* where each handler thread is in Op, at which peer, for which operation
  log_lock,  \* who holds log_lock_ of each peer: writers and readers
  claims,    \* the peers that told a client they lead: LEADER, or a successful Op
  ops        \* Ops let past the test of status_

client == <<handler, log_lock, claims, ops>>

allvars == <<vars, handler, log_lock, claims, ops>>

EntryOps == {"INVALID", "INSERT", "DELETE", "QUERY"}

NoHandler == [at |-> "idle", peer |-> Nobody, op |-> "INVALID"]

Handlers == [at : {"idle", "tested", "locked"}, peer : Peers \cup {Nobody}, op : EntryOps]

ClientInit ==
  /\ Init
  /\ handler = [c \in Clients |-> NoHandler]
  /\ log_lock = [i \in Peers |-> [writers |-> {}, readers |-> {}]]
  /\ claims = {}
  /\ ops = 0

StatusMapping(s) == IF s \in {"FOLLOWER", "CANDIDATE", "LEADER"} THEN s ELSE "UNKNOWN"

GetStatus(i) ==
  /\ StatusMapping(status[i]) = "LEADER"
  /\ claims' = claims \cup {i}
  /\ UNCHANGED <<vars, handler, log_lock, ops>>

\* Faulty variant of MayOp: no peer refuses, whether it leads or not.
MayOpAnywhere(i) == TRUE

MayOp(i) == status[i] = "LEADER"

\* Op of a peer that leads; from another the client hears at once that it failed.
Op(c, i, o) ==
  /\ handler[c].at = "idle"
  /\ MayOp(i)
  /\ ops < MaxOps
  /\ ops' = ops + 1
  /\ handler' = [handler EXCEPT ![c] = [at |-> "tested", peer |-> i, op |-> o]]
  /\ UNCHANGED <<vars, log_lock, claims>>

\* WriteLock() and ReadLock(): pthread_rwlock_wrlock and pthread_rwlock_rdlock
OpLock(c) ==
  LET i == handler[c].peer
  IN  /\ handler[c].at = "tested"
      /\ log_lock[i].writers = {}
      /\ \/ /\ handler[c].op \in {"INSERT", "DELETE"}
            /\ log_lock[i].readers = {}
            /\ log_lock' = [log_lock EXCEPT ![i].writers = {c}]
         \/ /\ handler[c].op = "QUERY"
            /\ log_lock' = [log_lock EXCEPT ![i].readers = @ \cup {c}]
      /\ handler' = [handler EXCEPT ![c].at = "locked"]
      /\ UNCHANGED <<vars, claims, ops>>

\* Faulty variant of Unlocked: the branch of QUERY misses its Unlock().
KeepsReader(l, c) == [l EXCEPT !.writers = @ \ {c}]

Unlocked(l, c) == [l EXCEPT !.writers = @ \ {c}, !.readers = @ \ {c}]

\* Unlock(), unless the operation is INVALID and takes no lock (the default branch of
\* the switch); then the reply.
OpReply(c) ==
  LET i == handler[c].peer
  IN  /\ \/ handler[c].at = "locked"
         \/ handler[c].at = "tested" /\ handler[c].op = "INVALID"
      /\ log_lock' = [log_lock EXCEPT ![i] = Unlocked(@, c)]
      /\ claims' = claims \cup {i}
      /\ handler' = [handler EXCEPT ![c] = NoHandler]
      /\ UNCHANGED <<vars, ops>>

Handler(c) == OpLock(c) \/ OpReply(c)

ClientNext ==
  \/ Next /\ UNCHANGED client
  \/ \E i \in Peers : GetStatus(i) \/ \E c \in Clients, o \in EntryOps : Op(c, i, o)
  \/ \E c \in Clients : Handler(c)

ClientSpec == ClientInit /\ [][ClientNext]_allvars

\* A handler thread that can go on does.
ClientFairSpec == ClientSpec /\ \A c \in Clients : WF_allvars(Handler(c))

\* As long as no peer has expelled another, all the answers that claim leadership,
\* however old the test of status_ behind them and whenever they are collected, come
\* from one peer: a client that has heard from one leader hears from no second one.
ClaimsAgree == E!Intact => \A i, k \in claims : i = k

\* The handlers in their critical section at i, for one of these operations.
Inside(i, os) == {c \in Clients : handler[c].at = "locked" /\ handler[c].peer = i /\ handler[c].op \in os}

\* log_lock_ of a peer is held by exactly the handlers between their lock and their
\* Unlock() (raft.h:71-78), and a writer is alone there: whoever waits for the lock waits
\* for an Op that is about to release it, also where its peer leads no more.
LogLockHeld ==
  \A i \in Peers :
    /\ log_lock[i].writers = Inside(i, {"INSERT", "DELETE"})
    /\ log_lock[i].readers = Inside(i, {"QUERY"})
    /\ \A c \in log_lock[i].writers : Inside(i, EntryOps) = {c}

\* Every Op that a leader has let in is answered once clients stop calling (MaxOps): it
\* gets log_lock_ and nobody keeps it, also when its peer stops leading meanwhile.  An
\* endless stream of overlapping QUERYs can keep an INSERT out of a pthread_rwlock that
\* lets readers pass; that is outside this property.
OpReturns == \A c \in Clients : handler[c].at = "tested" ~> handler[c].at = "idle"
=============================================================================
