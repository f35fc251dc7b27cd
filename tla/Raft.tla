-------------------------------- MODULE Raft --------------------------------
(***************************************************************************)
(* A cluster of Raft peers (src/raft.h, src/raft.cpp).  Each peer runs a   *)
(* daemon thread (LaunchRaftDemon) and an RPC server whose handlers Vote   *)
(* and AppendMsg take the same mutex lock_.  The daemon holds lock_ for a  *)
(* whole iteration of its loop, the synchronous calls it makes to other    *)
(* peers included, so while it waits for a reply its own handlers wait for *)
(* it.  Only the 1000 ms deadline of a call ends such a wait.              *)
(*                                                                         *)
(* A call that fails leaves its request behind: the callee may still run   *)
(* the handler, long after the caller has gone on, and nobody reads the    *)
(* reply.                                                                  *)
(***************************************************************************)
EXTENDS Wire, FiniteSets

CONSTANTS
  Peers,        \* the addresses of the configuration (self_id_ of each peer)
  Nobody,       \* the empty string in vote_for_
  MinPatience,  \* shortest patience of a follower, in clock ticks
  Slots,        \* places for requests that outlive their call (bound)
  MaxTerm,      \* campaigns are not started past this term (bound)
  MaxKills      \* how many peers Kill() is called on (bound)

ASSUME PeersAssumption == IsFiniteSet(Peers) /\ Nobody \notin Peers

ASSUME PatienceAssumption == MinPatience \in Nat

\* Within this bound a term survives the conversion to int.
ASSUME MaxTermAssumption == MaxTerm \in Nat /\ MaxTerm < IntMod \div 2

ASSUME MaxKillsAssumption == MaxKills \in Nat

VARIABLES
  status,     \* status_
  vote_for,   \* vote_for_
  term,       \* term_
  peers,      \* peers_, the peers this one still counts as members
  channels,   \* keys of the daemon's map of stubs
  age,        \* ticks since leader_active_time_, up to MinPatience
  is_dead,    \* is_dead_
  lead,       \* peers_next_index_, commit_index_, last_applied_
  pc,         \* where the daemon is
  todo,       \* peers the daemon's for-loop has yet to call
  votes,      \* peers that granted their vote; vote_count is 1 + |votes|.  The daemon
              \* forgets them when the campaign ends; the model keeps a leader's.
  call,       \* the daemon's synchronous call in progress
  late        \* requests whose caller has given up on them

node == <<status, vote_for, term, age>>
members == <<peers, channels>>
loop == <<pc, todo, votes>>
vars == <<status, vote_for, term, peers, channels, age, is_dead, lead,
          pc, todo, votes, call, late>>

(***************************************************************************)
(* Data.                                                                   *)
(***************************************************************************)
Statuses == {"FOLLOWER", "CANDIDATE", "LEADER", "DEAD"}

Unset == -1   \* an index that was never written

Leads == [next : [Peers -> {0, Unset}], commit : {0, Unset}, applied : {0, Unset}]

Requests == [kind : {"vote", "append"}, from : Peers, to : Peers, term : Terms]

NoRequest == [kind |-> "none", from |-> Nobody, to |-> Nobody, term |-> 0]

\* A synchronous call of the stub: sent, then either answered (replied) or failed.
Calls == [stage : {"idle", "sent", "replied"}, req : Requests \cup {NoRequest},
          ok : BOOLEAN, term : Terms]

Idle == [stage |-> "idle", req |-> NoRequest, ok |-> FALSE, term |-> 0]

\* logs_ has no operation that adds an entry.
LogSize == 0

TypeOK ==
  /\ status \in [Peers -> Statuses]
  /\ vote_for \in [Peers -> Peers \cup {Nobody}]
  /\ term \in [Peers -> Terms]
  /\ peers \in [Peers -> SUBSET Peers]
  /\ channels \in [Peers -> SUBSET Peers]
  /\ age \in [Peers -> 0 .. MinPatience]
  /\ is_dead \in [Peers -> BOOLEAN]
  /\ lead \in [Peers -> Leads]
  /\ pc \in [Peers -> {"boot", "loop", "vote", "append", "exit"}]
  /\ todo \in [Peers -> SUBSET Peers]
  /\ votes \in [Peers -> SUBSET Peers]
  /\ call \in [Peers -> Calls]
  /\ late \in [Slots -> Requests \cup {NoRequest}]

(***************************************************************************)
(* The constructor.  commit_index_ and last_applied_ are left unset.       *)
(***************************************************************************)
Init ==
  /\ status = [i \in Peers |-> "FOLLOWER"]
  /\ vote_for = [i \in Peers |-> Nobody]
  /\ term = [i \in Peers |-> InitialTerm]
  /\ peers = [i \in Peers |-> Peers]
  /\ channels = [i \in Peers |-> {}]
  /\ age = [i \in Peers |-> 0]
  /\ is_dead = [i \in Peers |-> FALSE]
  /\ lead = [i \in Peers |-> [next |-> [p \in Peers |-> Unset],
                              commit |-> Unset, applied |-> Unset]]
  /\ pc = [i \in Peers |-> "boot"]
  /\ todo = [i \in Peers |-> {}]
  /\ votes = [i \in Peers |-> {}]
  /\ call = [i \in Peers |-> Idle]
  /\ late = [s \in Slots |-> NoRequest]

(***************************************************************************)
(* The daemon: the 5 s pause, the stubs, then the loop.                    *)
(***************************************************************************)
Boot(i) ==
  /\ pc[i] = "boot"
  /\ channels' = [channels EXCEPT ![i] = peers[i] \ {i}]
  /\ pc' = [pc EXCEPT ![i] = "loop"]
  /\ UNCHANGED <<node, peers, is_dead, lead, todo, votes, call, late>>

\* Faulty variant of Iterates: is_dead_ is not looked at.
IteratesAnyway(i) == pc[i] = "loop"

\* The head of an iteration: is_dead_ is false and lock_ is taken.
Iterates(i) == pc[i] = "loop" /\ ~is_dead[i]

\* is_dead_ ends the loop.
Leave(i) ==
  /\ pc[i] = "loop" /\ is_dead[i]
  /\ pc' = [pc EXCEPT ![i] = "exit"]
  /\ UNCHANGED <<node, members, is_dead, lead, todo, votes, call, late>>

\* The leader has been silent for as long as the patience drawn this time; a draw
\* that is not exceeded only sleeps 50 ms.
OutOfPatience(i) ==
  /\ Iterates(i)
  /\ status[i] = "FOLLOWER"
  /\ age[i] >= MinPatience

BecomeCandidate(i) ==
  /\ OutOfPatience(i)
  /\ vote_for[i] = Nobody
  /\ status' = [status EXCEPT ![i] = "CANDIDATE"]
  /\ UNCHANGED <<vote_for, term, age, members, is_dead, lead, loop, call, late>>

\* Faulty variant of Forget: the stub is deleted, the membership is not updated.
ForgetStubOnly(i, p) ==
  /\ channels' = [channels EXCEPT ![i] = @ \ {p}]
  /\ UNCHANGED peers

Forget(i, p) ==
  /\ channels' = [channels EXCEPT ![i] = @ \ {p}]
  /\ peers' = [peers EXCEPT ![i] = @ \ {p}]

\* A follower that voted drops the peer it voted for from its membership, and
\* does not restart its clock.
Expel(i) ==
  /\ OutOfPatience(i)
  /\ vote_for[i] # Nobody
  /\ Forget(i, vote_for[i])
  /\ vote_for' = [vote_for EXCEPT ![i] = Nobody]
  /\ UNCHANGED <<status, term, age, is_dead, lead, loop, call, late>>

StartCampaign(i) ==
  /\ Iterates(i)
  /\ status[i] = "CANDIDATE"
  /\ NextTerm(term[i]) <= MaxTerm
  /\ term' = [term EXCEPT ![i] = NextTerm(@)]
  /\ vote_for' = [vote_for EXCEPT ![i] = i]
  /\ votes' = [votes EXCEPT ![i] = {}]
  /\ todo' = [todo EXCEPT ![i] = peers[i] \ {i}]
  /\ pc' = [pc EXCEPT ![i] = "vote"]
  /\ UNCHANGED <<status, age, members, is_dead, lead, call, late>>

StartHeartbeats(i) ==
  /\ Iterates(i)
  /\ status[i] = "LEADER"
  /\ todo' = [todo EXCEPT ![i] = peers[i] \ {i}]
  /\ pc' = [pc EXCEPT ![i] = "append"]
  /\ UNCHANGED <<node, members, is_dead, lead, votes, call, late>>

\* lock_ is held from the head of an iteration to its end.
HoldsLock(i) == pc[i] \in {"vote", "append"}

\* The next call of the for-loop; the order of an unordered_set is unspecified.
Invoke(i, p) ==
  /\ HoldsLock(i)
  /\ call[i].stage = "idle"
  /\ p \in todo[i]
  /\ todo' = [todo EXCEPT ![i] = @ \ {p}]
  /\ call' = [call EXCEPT ![i].stage = "sent",
                          ![i].req = [kind |-> pc[i], from |-> i, to |-> p, term |-> term[i]]]
  /\ UNCHANGED <<node, members, is_dead, lead, pc, votes, late>>

VoteReturns(i) ==
  /\ pc[i] = "vote"
  /\ call[i].stage = "replied"
  /\ votes' = [votes EXCEPT ![i] = IF call[i].ok THEN @ \cup {call[i].req.to} ELSE @]
  /\ call' = [call EXCEPT ![i] = Idle]
  /\ UNCHANGED <<node, members, is_dead, lead, pc, todo, late>>

\* A refused heartbeat ends the leadership and the for-loop; vote_for_ keeps its value.
AppendReturns(i) ==
  /\ pc[i] = "append"
  /\ call[i].stage = "replied"
  /\ call' = [call EXCEPT ![i] = Idle]
  /\ \/ /\ call[i].ok
        /\ UNCHANGED <<status, term, age, loop>>
     \/ /\ ~call[i].ok
        /\ status' = [status EXCEPT ![i] = "FOLLOWER"]
        /\ term' = [term EXCEPT ![i] = call[i].term]
        /\ age' = [age EXCEPT ![i] = 0]
        /\ pc' = [pc EXCEPT ![i] = "loop"]
        /\ todo' = [todo EXCEPT ![i] = {}]
        /\ votes' = [votes EXCEPT ![i] = {}]
  /\ UNCHANGED <<vote_for, members, is_dead, lead, late>>

\* Faulty variant of Fails: the default deadline of the stub (-1), which never passes;
\* only a peer that is gone makes a call fail.
FailsIfDead(i) == call[i].stage # "idle" /\ status[call[i].req.to] = "DEAD"

\* The wait of the stub ends without a reply at any time before or at its deadline.
Fails(i) == call[i].stage # "idle"

\* rpc_error: the deadline passed, or the transport or the parser failed.  A request
\* that was not served yet is lost or stays behind in a free slot; a reply that was
\* not read yet is dropped.
RpcError(i) ==
  /\ Fails(i)
  /\ call' = [call EXCEPT ![i] = Idle]
  /\ \/ UNCHANGED late
     \/ /\ call[i].stage = "sent" /\ Decodes(call[i].req.kind)
        /\ \E s \in Slots : /\ late[s] = NoRequest
                            /\ late' = [late EXCEPT ![s] = call[i].req]
  /\ UNCHANGED <<node, members, is_dead, lead, loop>>

\* Faulty variant of HasMajority: half of the peers are enough.
HasHalf(i) == 1 + Cardinality(votes[i]) >= Cardinality(peers[i]) \div 2

\* vote_count >= peers_.size() / 2 + 1
HasMajority(i) == 1 + Cardinality(votes[i]) >= (Cardinality(peers[i]) \div 2) + 1

NextIndexes(i) == [p \in Peers |-> IF p \in peers[i] THEN 0 ELSE lead[i].next[p]]

Win(i) ==
  /\ HasMajority(i)
  /\ status' = [status EXCEPT ![i] = "LEADER"]
  /\ lead' = [lead EXCEPT ![i] =
                IF LogSize = 0
                THEN [next |-> NextIndexes(i), commit |-> 0, applied |-> 0]
                ELSE @]
  /\ UNCHANGED <<vote_for, age, votes>>

\* Faulty variant of Unvoted: the loser's vote for itself is not withdrawn.
KeepsOwnVote(i) == i

Unvoted(i) == Nobody

Lose(i) ==
  /\ ~HasMajority(i)
  /\ status' = [status EXCEPT ![i] = "FOLLOWER"]
  /\ vote_for' = [vote_for EXCEPT ![i] = Unvoted(i)]
  /\ age' = [age EXCEPT ![i] = 0]
  /\ votes' = [votes EXCEPT ![i] = {}]
  /\ UNCHANGED lead

EndCampaign(i) ==
  /\ pc[i] = "vote"
  /\ call[i].stage = "idle"
  /\ todo[i] = {}
  /\ Win(i) \/ Lose(i)
  /\ pc' = [pc EXCEPT ![i] = "loop"]
  /\ UNCHANGED <<term, members, is_dead, todo, call, late>>

EndHeartbeats(i) ==
  /\ pc[i] = "append"
  /\ call[i].stage = "idle"
  /\ todo[i] = {}
  /\ pc' = [pc EXCEPT ![i] = "loop"]
  /\ UNCHANGED <<node, members, is_dead, lead, todo, votes, call, late>>

(***************************************************************************)
(* The handlers of the RPC server of peer j.  Each runs under lock_.       *)
(***************************************************************************)
\* Faulty variant of Grants: the vote given before is not looked at.
GrantsAgain(j) == status[j] \notin {"LEADER", "CANDIDATE"}

Grants(j) == status[j] \notin {"LEADER", "CANDIDATE"} /\ vote_for[j] = Nobody

Vote(j, r) ==
  /\ \/ /\ Grants(j)
        /\ vote_for' = [vote_for EXCEPT ![j] = r.from]
        /\ age' = [age EXCEPT ![j] = 0]
     \/ /\ ~Grants(j)
        /\ UNCHANGED <<vote_for, age>>
  /\ UNCHANGED <<status, term>>

\* Faulty variant of Accepts: the term of the request is not compared.
AcceptsAny(j, r) == TRUE

Accepts(j, r) == term[j] <= DecodedTerm(r.term)

\* Faulty variant of StepsDown: every accepted heartbeat moves the vote to its sender.
AlwaysStepsDown(j) == TRUE

StepsDown(j) == status[j] \in {"CANDIDATE", "LEADER"}

AppendMsg(j, r) ==
  /\ age' = [age EXCEPT ![j] = 0]
  /\ \/ /\ Accepts(j, r)
        /\ term' = [term EXCEPT ![j] = DecodedTerm(r.term)]
        /\ IF StepsDown(j)
           THEN /\ status' = [status EXCEPT ![j] = "FOLLOWER"]
                /\ vote_for' = [vote_for EXCEPT ![j] = r.from]
           ELSE UNCHANGED <<status, vote_for>>
     \/ /\ ~Accepts(j, r)
        /\ UNCHANGED <<status, vote_for, term>>

\* The dispatcher runs a handler once the request is parsed and lock_ is free;
\* it runs none after application_.terminate().
Handle(r) ==
  /\ Decodes(r.kind)
  /\ ~HoldsLock(r.to)
  /\ status[r.to] # "DEAD"
  /\ \/ r.kind = "vote" /\ Vote(r.to, r)
     \/ r.kind = "append" /\ AppendMsg(r.to, r)

ReplyOk(r) == IF r.kind = "vote" THEN Grants(r.to) ELSE Accepts(r.to, r)

Serve(i) ==
  /\ call[i].stage = "sent"
  /\ Handle(call[i].req)
  /\ call' = [call EXCEPT ![i].stage = "replied",
                          ![i].ok = ReplyOk(call[i].req),
                          ![i].term = term[call[i].req.to]]
  /\ UNCHANGED <<members, is_dead, lead, loop, late>>

ServeLate(s) ==
  /\ late[s] # NoRequest
  /\ Handle(late[s])
  /\ late' = [late EXCEPT ![s] = NoRequest]
  /\ UNCHANGED <<members, is_dead, lead, loop, call>>

(***************************************************************************)
(* The environment: the clock, and Kill().  Kill() joins the daemon before *)
(* it stops the server, so a dying peer still serves requests.             *)
(***************************************************************************)
Tick ==
  /\ \E i \in Peers : age[i] < MinPatience
  /\ age' = [i \in Peers |-> IF age[i] < MinPatience THEN age[i] + 1 ELSE age[i]]
  /\ UNCHANGED <<status, vote_for, term, members, is_dead, lead, loop, call, late>>

Kill(i) ==
  /\ Cardinality({j \in Peers : is_dead[j]}) < MaxKills
  /\ ~is_dead[i]
  /\ is_dead' = [is_dead EXCEPT ![i] = TRUE]
  /\ UNCHANGED <<node, members, lead, loop, call, late>>

\* Faulty variant of Joined: the daemon is not waited for.
NotJoined(i) == TRUE

Joined(i) == pc[i] = "exit"

\* The daemon is joined and the server terminated; what was queued for it is gone.
KillJoined(i) ==
  /\ is_dead[i] /\ Joined(i) /\ status[i] # "DEAD"
  /\ status' = [status EXCEPT ![i] = "DEAD"]
  /\ late' = [s \in Slots |-> IF late[s].to = i THEN NoRequest ELSE late[s]]
  /\ UNCHANGED <<vote_for, term, age, members, is_dead, lead, loop, call>>

Daemon(i) ==
  \/ Boot(i) \/ Leave(i)
  \/ BecomeCandidate(i) \/ Expel(i)
  \/ StartCampaign(i) \/ VoteReturns(i) \/ EndCampaign(i)
  \/ StartHeartbeats(i) \/ AppendReturns(i) \/ EndHeartbeats(i)
  \/ \E p \in Peers : Invoke(i, p)
  \/ RpcError(i)

Next ==
  \/ \E i \in Peers : Daemon(i) \/ Serve(i) \/ Kill(i) \/ KillJoined(i)
  \/ \E s \in Slots : ServeLate(s)
  \/ Tick

Spec == Init /\ [][Next]_vars

\* Threads are scheduled and a stub's wait ends (with a reply or by its deadline):
\* no daemon and no Kill() in progress is suspended for ever.
Fairness == \A i \in Peers : WF_vars(Daemon(i)) /\ WF_vars(KillJoined(i))

FairSpec == Spec /\ Fairness

(***************************************************************************)
(* Safety.                                                                 *)
(***************************************************************************)

\* Every peer the daemon is calling or is about to call has a stub: the two places
\* that dereference channels[peer] (Vote, AppendMsg) never meet a null pointer, however
\* many peers were expelled in between.
StubForEveryCall ==
  \A i \in Peers :
    /\ todo[i] \subseteq channels[i]
    /\ call[i].stage # "idle" => call[i].req.to \in channels[i]

\* Two peers lead at once only if membership was damaged: one of the two leads a
\* shrunken membership, or some peer has expelled one of them.  Lost and late calls,
\* timeouts and kills alone never produce two leaders.
TwoLeadersNeedExpulsion ==
  \A i, k \in Peers :
    (i # k /\ status[i] = "LEADER" /\ status[k] = "LEADER") =>
      \E j \in Peers : ~({i, k} \subseteq peers[j]) \/ (j \in {i, k} /\ peers[j] # Peers)

\* A peer expels itself from its own membership only if it once led and was refused:
\* losing a campaign never does it.
OnlyExLeadersExpelThemselves ==
  \A i \in Peers : i \notin peers[i] => lead[i].commit = 0

\* i leads, learns that a peer which still has the constructor's term refused its
\* heartbeat, and in this step becomes a follower with that term.
RefusedByFreshPeer(i) ==
  /\ status[i] = "LEADER" /\ call[i].stage = "replied" /\ ~call[i].ok
  /\ call[i].term = InitialTerm
  /\ status'[i] = "FOLLOWER" /\ term'[i] = InitialTerm

TermKept(i) == ToInt(term'[i]) < ToInt(term[i]) => RefusedByFreshPeer(i)

\* In the order -1, 0, 1, ... in which campaigns count them, a term goes back nowhere but
\* at a leader that a fresh peer refuses (raft.h:134, 259), which falls to -1: no accepted
\* heartbeat, however late, and no other refusal takes a peer back to an earlier term.
OnlyRefusedLeadersGoBack == [][\A i \in Peers : TermKept(i)]_vars

StaysDead(i) ==
  status[i] = "DEAD" =>
    /\ status'[i] = "DEAD" /\ vote_for'[i] = vote_for[i]
    /\ term'[i] = term[i] /\ peers'[i] = peers[i]

\* A killed peer stays dead and its vote, term and membership stay what they were:
\* Kill() joins the daemon and stops the server before it writes DEAD.
DeadIsFinal == [][\A i \in Peers : StaysDead(i)]_vars

(***************************************************************************)
(* Liveness.                                                               *)
(***************************************************************************)

\* Every campaign ends, although a candidate holds its own lock while it waits for
\* the locks of others and they may wait for its lock.
CampaignEnds == \A i \in Peers : pc[i] = "vote" ~> pc[i] # "vote"

\* Kill() returns: the daemon it joins leaves its loop.
KillReturns == \A i \in Peers : is_dead[i] ~> status[i] = "DEAD"

(***************************************************************************)
(* What the repository says and the code does not do.                      *)
(***************************************************************************)

\* raft.proto declares prev_log_index and prev_log_term `required': every request
\* that is sent carries the fields its message requires.
RequestsAreComplete ==
  \A i \in Peers :
    call[i].stage # "idle" =>
      RequiredFields(call[i].req.kind) \subseteq FilledFields(call[i].req.kind)

\* `should reject stale leader's request': a heartbeat that is refused is stale, its
\* term is older than the term of the peer that refuses it (-1, 0, 1, ...).
OnlyStaleLeadersRejected ==
  \A i \in Peers :
    (call[i].stage = "replied" /\ call[i].req.kind = "append" /\ ~call[i].ok) =>
      ToInt(call[i].req.term) < ToInt(call[i].term)

\* The election tests count one leader among the peers that report their status.
AtMostOneLeader ==
  Cardinality({i \in Peers : status[i] = "LEADER"}) <= 1
=============================================================================
