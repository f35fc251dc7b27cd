-------------------------------- MODULE Wire --------------------------------
(***************************************************************************)
(* What crosses the wire between two Raft peers, and what is lost on the   *)
(* way: the width of the integers that hold a term, and the `required'     *)
(* fields of the two requests of protofiles/raft.proto.                    *)
(***************************************************************************)
EXTENDS Integers

CONSTANTS
  TermMod,          \* number of values of uint64_t (2^64 in the program)
  IntMod,           \* number of values of int (2^32 in the program)
  RequiredEnforced  \* does the protobuf parser insist on required fields?

ASSUME WidthAssumption ==
  /\ IntMod \in Nat \ {0} /\ TermMod \in Nat \ {0}
  /\ IntMod % 2 = 0
  /\ TermMod % IntMod = 0

ASSUME RequiredAssumption == RequiredEnforced \in BOOLEAN

(***************************************************************************)
(* Terms.  term_ is a uint64_t that the constructor sets to -1, so a fresh *)
(* peer holds the LARGEST term there is; the first campaign wraps it to 0. *)
(***************************************************************************)
Terms == 0 .. TermMod - 1

\* Faulty variant of InitialTerm: -1 kept as a signed number.
SignedInitialTerm == -1

InitialTerm == TermMod - 1

NextTerm(t) == IF t = TermMod - 1 THEN 0 ELSE t + 1

(***************************************************************************)
(* `int term = request.term()' keeps the low bits and reads them as a      *)
(* signed number; `this->term_ <= term' converts that number back to       *)
(* uint64_t.  DecodedTerm is the composition.                              *)
(***************************************************************************)
ToInt(t) ==
  LET low == t % IntMod
  IN  IF low < IntMod \div 2 THEN low ELSE low - IntMod

ToUint64(n) == IF n < 0 THEN n + TermMod ELSE n

DecodedTerm(t) == ToUint64(ToInt(t))

(***************************************************************************)
(* The required fields raft.proto declares, and the ones the daemon fills  *)
(* in before it calls the stub.  The heartbeat sets neither prev_log_index *)
(* nor prev_log_term.                                                      *)
(***************************************************************************)
RequiredFields(kind) ==
  IF kind = "vote"
  THEN {"term", "candidate_id", "last_log_index", "last_term_index"}
  ELSE {"term", "candidate_id", "prev_log_index", "prev_log_term"}

VoteFields == {"candidate_id", "last_log_index", "last_term_index", "term"}

AppendFields == {"candidate_id", "term"}

FilledFields(kind) == IF kind = "vote" THEN VoteFields ELSE AppendFields

\* A request the parser lets through to its handler.  proto2 refuses a message
\* that misses a required field (RequiredEnforced); a parser that does not check
\* dispatches it all the same.
Decodes(kind) == RequiredEnforced => RequiredFields(kind) \subseteq FilledFields(kind)
=============================================================================
