----------------------------- MODULE ClientServer -----------------------------
(***************************************************************************)
(* The limiter at work: each caller's permit travels in a LimiterInFlight  *)
(* from try_acquire to the answer or the deadline; requests and answers    *)
(* take any time or are lost; the server counts what arrives.  The network *)
(* loses a request before its deadline or delivers it by then.             *)
(***************************************************************************)
EXTENDS RateLimiter, DeterministicServer

CONSTANTS
  ServerAlgos,  \* limits the server may have, of the limiter's kind
  Deadlines     \* deadlines of operations in flight

\* The limiter takes whatever wait the server announces.
ASSUME ClientServerAssumption ==
  /\ ServerAlgos \subseteq AlgorithmConfig
  /\ Deadlines \subseteq 0..MaxTime
  /\ Backoffs = Duration

Stages == {"none", "attached", "travelling", "answering", "lost"}

\* LimiterInFlight of a caller; its permit is the limiter's permits[c].  The
\* decision is the server's, once it has answered.  History: when the permit
\* was issued, until when the limiter then knew the server to block, and until
\* when a server that turned the request away blocks since.
Flight ==
  [stage : Stages, deadline : Duration, decision : ServerDecision,
   issued_at : Duration, known_block : Duration, new_block : Duration]

NoFlight ==
  [stage |-> "none", deadline |-> 0, decision |-> Accepted, issued_at |-> 0,
   known_block |-> 0, new_block |-> 0]

VARIABLES
  algo,       \* the server's limits
  server,     \* its state of each key, or NoServerKey
  flights,    \* [Callers -> Flight]
  heard,      \* history: the server's blocks the limiter has been told of, per key
  straggled,  \* history: keys that had a late arrival, in the server's window if it has one
  returned    \* history: keys of a pool that got an older permit's credits back

history == <<heard, straggled, returned>>
cvars == <<vars, algo, server, flights, heard, straggled, returned>>

NoServerKey == [window_start |-> None]

CInit ==
  /\ Init
  /\ algo \in {a \in ServerAlgos : a.kind = cfg.algorithm.kind}
  /\ server = [k \in Keys |-> NoServerKey]
  /\ flights = [c \in Callers |-> NoFlight]
  /\ heard = [k \in Keys |-> 0]
  /\ straggled = {}
  /\ returned = {}

-----------------------------------------------------------------------------
\* try_acquire; a permit is put in a LimiterInFlight at once.
Acquire(c, route, cost, deadline) ==
  /\ flights[c].stage = "none"
  /\ TryAcquire(c, route, cost)
  /\ flights' = IF Holds(c)'
                THEN [flights EXCEPT ![c] =
                       [NoFlight EXCEPT !.stage = "attached", !.deadline = deadline,
                                        !.issued_at = now,
                                        !.known_block = heard[permits'[c].key]]]
                ELSE flights
  /\ UNCHANGED <<algo, server, history>>

Moves(c, from, to) ==
  /\ flights[c].stage = from
  /\ flights' = [flights EXCEPT ![c].stage = to]
  /\ UNCHANGED <<vars, algo, server, history>>

Transmit(c) == Moves(c, "attached", "travelling")

Lose(c) == Moves(c, "travelling", "lost") \/ Moves(c, "answering", "lost")

ServerKeyAt(k) == IF server[k] = NoServerKey THEN NewServerKey(algo, now) ELSE server[k]

\* An arrival the limiter has not charged to the present.
IsLate(c, st) ==
  IF algo.kind = "FixedWindow" THEN permits[c].window_start # st.window_start
  ELSE flights[c].issued_at # now

StillStraggled(k, st) ==
  k \in straggled /\ (algo.kind = "FixedWindow" => server[k].window_start = st.window_start)

\* The server decides and counts; its answer sets out.
Arrive(c) ==
  LET k == permits[c].key
      decision == Decide(ServerKeyAt(k), algo, permits[c].cost, now)
      st == ApplyOutcome(ServerKeyAt(k), algo, permits[c].cost, decision, now)
  IN  /\ flights[c].stage = "travelling"
      /\ now < flights[c].deadline
      /\ flights' = [flights EXCEPT ![c].stage = "answering", ![c].decision = decision,
                                    ![c].new_block = IF decision.ok THEN 0 ELSE st.blocked_until]
      /\ server' = [server EXCEPT ![k] = st]
      /\ straggled' = IF IsLate(c, st) \/ StillStraggled(k, st)
                      THEN straggled \cup {k} ELSE straggled \ {k}
      /\ UNCHANGED <<vars, algo, heard, returned>>

\* A refund, noted if the pool has had time to refill since the permit was issued.
NoteRefund(c) ==
  returned' = IF algo.kind = "TokenBucket" /\ flights[c].issued_at < now
              THEN returned \cup {permits[c].key} ELSE returned

\* finalize: a refund for NotSent, a commit for every other outcome.
FlightFinalize(c, outcome) ==
  /\ IF outcome.kind = "NotSent" THEN Refund(c) ELSE Commit(c, outcome)
  /\ flights' = [flights EXCEPT ![c] = NoFlight]

FailToSend(c) ==
  /\ flights[c].stage = "attached"
  /\ FlightFinalize(c, [kind |-> "NotSent", scope |-> "None", retry_after |-> 0])
  /\ NoteRefund(c)
  /\ UNCHANGED <<algo, server, heard, straggled>>

OutcomeOf(decision) ==
  IF decision.ok THEN [kind |-> "Confirmed", scope |-> "None", retry_after |-> 0]
  ELSE [kind |-> "RateLimitedFeedback", scope |-> "Key", retry_after |-> decision.retry_after]

Answer(c) ==
  LET k == permits[c].key IN
  /\ flights[c].stage = "answering"
  /\ FlightFinalize(c, OutcomeOf(flights[c].decision))
  /\ heard' = IF flights[c].decision.ok THEN heard
              ELSE [heard EXCEPT ![k] = Greater(@, flights[c].new_block)]
  /\ UNCHANGED <<algo, server, straggled, returned>>

\* Mutant: every expiry is refunded, also of requests that may have arrived.
FlightExpireRefunds(c, policy) ==
  /\ Refund(c)
  /\ flights' = [flights EXCEPT ![c] = NoFlight]

\* expire, by policy.
FlightExpire(c, policy) ==
  /\ IF policy = "Refund" THEN Refund(c)
     ELSE Commit(c, [kind |-> "SentNoConfirm", scope |-> "None", retry_after |-> 0])
  /\ flights' = [flights EXCEPT ![c] = NoFlight]

\* The policy Refund is for operations known not to have been sent.
Expire(c) ==
  /\ flights[c].stage # "none"
  /\ now >= flights[c].deadline
  /\ \/ FlightExpire(c, "CommitSentNoConfirm") /\ UNCHANGED returned
     \/ flights[c].stage = "attached" /\ FlightExpire(c, "Refund") /\ NoteRefund(c)
  /\ UNCHANGED <<algo, server, heard, straggled>>

CTick == Tick /\ UNCHANGED <<algo, server, flights, history>>

CNext ==
  \/ \E c \in Callers, route \in Keys, cost \in Costs, d \in Deadlines : Acquire(c, route, cost, d)
  \/ \E c \in Callers :
       Transmit(c) \/ Lose(c) \/ Arrive(c) \/ FailToSend(c) \/ Answer(c) \/ Expire(c)
  \/ CTick

CSpec == CInit /\ [][CNext]_cvars

-----------------------------------------------------------------------------
(***************************************************************************)
(* Types; and permits are open exactly as long as their flights.           *)
(***************************************************************************)
CTypeOK ==
  /\ TypeOK
  /\ algo \in ServerAlgos
  /\ server \in [Keys -> ServerKeyState \cup {NoServerKey}]
  /\ flights \in [Callers -> Flight]
  /\ heard \in [Keys -> Duration]
  /\ straggled \subseteq Keys /\ returned \subseteq Keys
  /\ \A c \in Callers : Holds(c) <=> flights[c].stage # "none"

(***************************************************************************)
(* However requests are delayed within their deadlines, the server never   *)
(* sees more than two windows' worth of requests in one of its windows:    *)
(* the limiter keeps a window until the last of its permits is finalized.  *)
(* A request that arrived after its deadline would be charged to nothing   *)
(* the limiter still keeps; the network is assumed to lose it.             *)
(***************************************************************************)
ServerLoadBounded ==
  algo.kind = "FixedWindow" =>
    \A k \in Keys :
      server[k] # NoServerKey => server[k].spent <= 2 * cfg.algorithm.max_per_window

\* The server turns away the request of c in this step.
TurnsAway(c) ==
  flights[c].stage = "travelling" /\ flights'[c].stage = "answering" /\ ~flights'[c].decision.ok

(***************************************************************************)
(* A limiter with the server's own limits is turned away only because of   *)
(* a late arrival: one in a later window than the limiter charged it to,   *)
(* or, for a pool, any that took time.  A pool is also turned away after   *)
(* it got credits back that had been refilled meanwhile.  Nothing else,    *)
(* no loss, expiry or refund, lets the limiter send too much.              *)
(***************************************************************************)
OnlyStragglersRejected ==
  [][\A c \in Callers :
       TurnsAway(c) /\ cfg.algorithm = algo =>
         permits[c].key \in straggled' \cup returned]_cvars

(***************************************************************************)
(* "Client thought it was ok, but server rate-limited.  This should only   *)
(* occur in tests designed to exercise feedback/backoff convergence":      *)
(* with equal limits and no delay, refunds keep both sides in step.        *)
(***************************************************************************)
PromptSendsAccepted ==
  [][\A c \in Callers :
       TurnsAway(c) /\ cfg.algorithm = algo => permits[c].key \in straggled']_cvars

(***************************************************************************)
(* The limiter heeds the server: a request is turned away by a block only  *)
(* if its permit was issued before the limiter was told of that block.     *)
(***************************************************************************)
BlocksAreHeeded ==
  [][\A c \in Callers :
       (TurnsAway(c) /\ server[permits[c].key] # NoServerKey) =>
         LET until == server[permits[c].key].blocked_until IN
         now < until => flights[c].known_block < until]_cvars
=============================================================================
