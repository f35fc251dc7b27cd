----------------------------- MODULE Heartbeats -----------------------------
(***************************************************************************)
(* The clock behind a leadership: one daemon that campaigns and then       *)
(* leads, calling the other peers one after the other, always in the order *)
(* in which unordered_set iterates, and the patience of the peers that     *)
(* voted for it.  A call takes any time up to its deadline, so a round     *)
(* grows with the number of peers while patience does not.                 *)
(*                                                                         *)
(* A request that the parser refuses is answered with an error and never   *)
(* handled.  The heartbeats the daemon fills in are refused if             *)
(* RequiredEnforced; what is said of a round is said of a parser that lets *)
(* them through.                                                           *)
(***************************************************************************)
EXTENDS Wire, FiniteSets

CONSTANTS
  Calls,        \* how many other peers there are; they are called in the order 1 .. Calls
  Prompt,       \* the peers that handle a call by its deadline
  Deadline,     \* of a call (1000 ms)
  Nap,          \* the leader's sleep before a round (50 ms)
  MinPatience   \* shortest patience of a follower (5000 ms)

Followers == 1 .. Calls

ASSUME TimesAssumption ==
  /\ Calls \in Nat /\ Prompt \subseteq Followers
  /\ Deadline \in Nat /\ Nap \in Nat /\ MinPatience \in Nat

\* From one call of a peer to the next at most the deadline of every call, once more
\* its own, and the nap pass; patience lasts longer.
RoundFits == (Calls + 1) * Deadline + Nap < MinPatience

\* A campaign whose calls all run into their deadlines is shorter than the patience.
CampaignFits == Calls * Deadline < MinPatience

VARIABLES
  stage,    \* the daemon: in the calls of a campaign or of a round, asleep, or no longer ahead
  at,       \* the peer being called
  spent,    \* time since that call, or the nap, began
  handled,  \* the call has been handled
  voters,   \* the peers that granted their vote
  age       \* of each follower: time since leader_active_time_

vars == <<stage, at, spent, handled, voters, age>>

Init ==
  /\ stage = "vote" /\ at = 1 /\ spent = 0 /\ handled = FALSE
  /\ voters = {}
  /\ age = [k \in Followers |-> 0]

TypeOK ==
  /\ stage \in {"vote", "append", "nap", "beaten"}
  /\ at \in 1 .. Calls + 1
  /\ spent \in 0 .. (IF Deadline > Nap THEN Deadline ELSE Nap)
  /\ handled \in BOOLEAN
  /\ voters \subseteq Followers
  /\ age \in [Followers -> 0 .. MinPatience]

InCall == stage \in {"vote", "append"} /\ at <= Calls

\* Faulty variant of Limit: the deadline of each attempt of a call that is tried twice.
LimitOfTwoTries == IF stage = "nap" THEN Nap ELSE 2 * Deadline

\* How long the daemon stays in one statement: a call's deadline, or its nap.
Limit == IF stage = "nap" THEN Nap ELSE Deadline

Aged(k) == IF age[k] < MinPatience THEN age[k] + 1 ELSE age[k]

\* Time passes while a call or the nap lasts.
Tick ==
  /\ InCall \/ stage = "nap"
  /\ spent < Limit
  /\ spent' = spent + 1
  /\ age' = [k \in Followers |-> Aged(k)]
  /\ UNCHANGED <<stage, at, handled, voters>>

\* Faulty variant of Restarted: only a vote restarts the follower's clock.
RestartedByVote(k) == IF stage = "vote" THEN 0 ELSE age[k]

\* leader_active_time_ after a granted vote or a heartbeat, accepted or not.
Restarted(k) == 0

\* The peer handles the call, if its parser lets it through; a follower that voted
\* before, or campaigns, refuses.
Handle ==
  /\ InCall /\ ~handled
  /\ Decodes(stage)
  /\ handled' = TRUE
  /\ \/ /\ stage = "append" \/ at \notin voters
        /\ age' = [age EXCEPT ![at] = Restarted(at)]
        /\ voters' = IF stage = "vote" THEN voters \cup {at} ELSE voters
     \/ /\ stage = "vote"
        /\ UNCHANGED <<age, voters>>
  /\ UNCHANGED <<stage, at, spent>>

\* The call ends, with the reply or an error; a refused heartbeat ends the leadership.
Return ==
  /\ InCall
  /\ at \in Prompt /\ Decodes(stage) => handled
  /\ at' = at + 1 /\ spent' = 0 /\ handled' = FALSE
  /\ \/ UNCHANGED stage
     \/ stage = "append" /\ handled /\ stage' = "beaten"
  /\ UNCHANGED <<voters, age>>

\* The last call of a campaign or of a round has ended.  The replies of some voters may
\* have been lost, so a majority of voters may not be counted as one.
EndRound ==
  /\ stage \in {"vote", "append"} /\ at = Calls + 1
  /\ \/ /\ stage = "vote" => 1 + Cardinality(voters) >= ((Calls + 1) \div 2) + 1
        /\ stage' = "nap"
     \/ /\ stage = "vote"
        /\ stage' = "beaten"
  /\ spent' = 0
  /\ UNCHANGED <<at, handled, voters, age>>

StartRound ==
  /\ stage = "nap" /\ spent = Nap
  /\ stage' = "append" /\ at' = 1 /\ spent' = 0
  /\ UNCHANGED <<handled, voters, age>>

Next == Tick \/ Handle \/ Return \/ EndRound \/ StartRound

Spec == Init /\ [][Next]_vars

\* No peer that voted in a campaign runs out of patience before the campaign has ended,
\* however many of its calls run into their deadlines: if CampaignFits, a candidate is not
\* expelled (raft.h:175-188) while it is still counting votes.
VotersWait ==
  stage = "vote" => \A k \in voters : age[k] < MinPatience

\* If the parser lets heartbeats through, a peer that voted for the leader and handles its
\* calls in time never runs out of patience with it, whatever the other calls of the
\* campaign and of the rounds cost: so, if RoundFits, it never expels a leader that is alive
\* (raft.h:175).  A parser that insists on required fields lets none through, and every
\* voter runs out of patience.
LeaderKept ==
  Decodes("append") /\ stage # "beaten" => \A k \in voters \cap Prompt : age[k] < MinPatience
=============================================================================
