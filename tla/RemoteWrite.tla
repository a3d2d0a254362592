----------------------------- MODULE RemoteWrite -----------------------------
(***************************************************************************)
(* One call of Client.RemoteWrite (pkg/metricsclient/metricsclient.go):    *)
(* the families become time series, which are pushed to the receive        *)
(* endpoint in chunks of at most maxSeriesLength.  Each chunk is retried   *)
(* with a back-off (github.com/cenkalti/backoff v2.2.1) until the endpoint *)
(* acknowledges it or the chunk has used up its share of the interval.     *)
(*                                                                         *)
(* A time series is its index in the slice; a request is the offset of its *)
(* chunk.  A request whose answer does not come within the timeout may     *)
(* still reach the endpoint later, even after the call has returned.       *)
(* Neither the retries nor the requests look at the context of the caller. *)
(***************************************************************************)
EXTENDS Naturals

CONSTANTS
  MaxSeriesLength,  \* the size of a chunk
  Interval,         \* the scrape interval of the Worker, in ticks
  Timeout,          \* the longest that one sendRequest takes, in ticks
  MaxPause,         \* the longest pause of the back-off, in ticks
  MaxLength         \* bound: the longest slice of time series

\* An interval (in nanoseconds) can be divided among the chunks: otherwise
\* MaxElapsedTime would be 0, which the back-off takes for "no limit".
ASSUME RemoteWriteAssumption ==
  /\ MaxSeriesLength \in Nat \ {0}
  /\ {Interval, Timeout, MaxPause, MaxLength} \subseteq Nat
  /\ MaxPause > 0
  /\ Interval >= 2
  /\ Interval * MaxSeriesLength >= 2 * MaxLength

VARIABLES
  (* the call *)
  n,           \* len(timeseries)
  supported,   \* every family is a counter, a gauge or untyped
  pc,          \* where the call is
  offset,      \* the loop variable i
  elapsed,     \* the time since the back-off of this chunk was reset
  total,       \* the time since the call began
  result,      \* what the call returned
  (* the network and the endpoint *)
  late,        \* the requests that were given up and may still arrive
  stored,      \* the time series the endpoint has stored
  conflicting  \* the time series it answered 409 Conflict for

callVars   == <<n, supported, pc, offset, elapsed, total, result>>
serverVars == <<late, stored, conflicting>>
vars       == <<callVars, serverVars>>

TypeOK ==
  /\ n \in 0..MaxLength
  /\ supported \in BOOLEAN
  /\ pc \in {"convert", "loop", "attempt", "backoff", "returned"}
  /\ offset \in Nat
  /\ elapsed \in Nat
  /\ total \in Nat
  /\ result \in {"none", "ok", "error"}
  /\ late \subseteq Nat
  /\ stored \subseteq 1..n
  /\ conflicting \subseteq 1..n

Init ==
  /\ n \in 0..MaxLength
  /\ supported \in BOOLEAN
  /\ pc = "convert"
  /\ offset = 0
  /\ elapsed = 0
  /\ total = 0
  /\ result = "none"
  /\ late = {}
  /\ stored = {}
  /\ conflicting = {}

-----------------------------------------------------------------------------
(* Chunks and their share of the interval.                                 *)

\* A variant that takes the last index for an excluded one.
ChunkOffByOne(o) == {s \in 1..n : o < s /\ s < o + MaxSeriesLength}

\* timeseries[i:length], the chunk that starts at offset o.
Chunk(o) == {s \in 1..n : o < s /\ s <= o + MaxSeriesLength}

\* How many chunks a call may have to push.
Chunks(length) == (length + MaxSeriesLength - 1) \div MaxSeriesLength

\* The variable halfInterval: into how many shares the interval is divided.
Shares(length) ==
  LET shares == (length * 2) \div MaxSeriesLength
  IN  IF shares < 2 THEN 2 ELSE shares

\* A variant that gives each chunk half the interval.
MaxElapsedTimeOfHalf(length) == Interval \div 2

MaxElapsedTime(length) == Interval \div Shares(length)

\* ExponentialBackOff.NextBackOff: an attempt that failed is the last one.
GivesUp(e) == MaxElapsedTime(n) # 0 /\ e > MaxElapsedTime(n)

-----------------------------------------------------------------------------
(* The call.                                                               *)

Return(r) == pc' = "returned" /\ result' = r

\* convertToTimeseries meets a family of another type: the whole batch fails.
ConvertFails ==
  /\ pc = "convert" /\ ~supported
  /\ Return("error")
  /\ UNCHANGED <<n, supported, offset, elapsed, total, serverVars>>

NothingToForward ==
  /\ pc = "convert" /\ supported /\ n = 0
  /\ Return("ok")
  /\ UNCHANGED <<n, supported, offset, elapsed, total, serverVars>>

Convert ==
  /\ pc = "convert" /\ supported /\ n > 0
  /\ pc' = "loop"
  /\ UNCHANGED <<n, supported, offset, elapsed, total, result, serverVars>>

\* The loop goes on with the next chunk, and a new back-off.
BeginChunk ==
  /\ pc = "loop" /\ offset < n
  /\ pc' = "attempt"
  /\ elapsed' = 0
  /\ UNCHANGED <<n, supported, offset, total, result, serverVars>>

\* proto.Marshal refuses the chunk, before any attempt to send it.
MarshalFails ==
  /\ pc = "loop" /\ offset < n
  /\ Return("error")
  /\ UNCHANGED <<n, supported, offset, elapsed, total, serverVars>>

Finish ==
  /\ pc = "loop" /\ offset >= n
  /\ Return("ok")
  /\ UNCHANGED <<n, supported, offset, elapsed, total, serverVars>>

\* Time passes while the call waits.
Spend(d) == elapsed' = elapsed + d /\ total' = total + d

\* sendRequest returned nil: RetryNotify does too, and the loop goes on.
Acknowledged ==
  /\ pc = "attempt"
  /\ \E d \in 0..Timeout : Spend(d)
  /\ offset' = offset + MaxSeriesLength
  /\ pc' = "loop"
  /\ UNCHANGED <<n, supported, result, late>>

\* The endpoint answers 2xx.
Accepted ==
  /\ Acknowledged
  /\ stored' = stored \cup Chunk(offset)
  /\ UNCHANGED conflicting

\* It answers 409 Conflict, for one series or more: not an error.
Conflict ==
  /\ Acknowledged
  /\ conflicting' = conflicting \cup Chunk(offset)
  /\ stored' \in {stored \cup s : s \in SUBSET Chunk(offset)}

\* A variant of Failed that skips the chunk instead of returning the error.
FailedSkipsChunk ==
  /\ pc = "attempt"
  /\ \E d \in 0..Timeout :
       /\ Spend(d)
       /\ IF GivesUp(elapsed + d)
          THEN pc' = "loop" /\ offset' = offset + MaxSeriesLength
          ELSE pc' = "backoff" /\ UNCHANGED offset
  /\ UNCHANGED <<n, supported, result, conflicting>>

\* A variant of Failed that retries at once, with a back-off of its own.
FailedRestartsChunk ==
  /\ pc = "attempt"
  /\ pc' = "loop"
  /\ UNCHANGED <<n, supported, offset, elapsed, total, result, conflicting>>

\* sendRequest returned an error: RetryNotify asks the back-off.
Failed ==
  /\ pc = "attempt"
  /\ \E d \in 0..Timeout :
       /\ Spend(d)
       /\ IF GivesUp(elapsed + d) THEN Return("error") ELSE pc' = "backoff" /\ UNCHANGED result
  /\ UNCHANGED <<n, supported, offset, conflicting>>

\* Another status: the endpoint may have stored some of the series.
Rejected ==
  /\ Failed
  /\ stored' \in {stored \cup s : s \in SUBSET Chunk(offset)}
  /\ UNCHANGED late

\* No answer in time: the request may be lost, or on its way, or its answer is.
NotAnswered ==
  /\ Failed
  /\ \/ UNCHANGED <<stored, late>>
     \/ late' = late \cup {offset} /\ UNCHANGED stored
     \/ stored' = stored \cup Chunk(offset) /\ UNCHANGED late

\* The pause before the next attempt.
Pause ==
  /\ pc = "backoff"
  /\ \E d \in 1..MaxPause : Spend(d)
  /\ pc' = "attempt"
  /\ UNCHANGED <<n, supported, offset, result, serverVars>>

CallStep ==
  \/ ConvertFails \/ NothingToForward \/ Convert \/ BeginChunk \/ MarshalFails \/ Finish
  \/ Accepted \/ Conflict \/ Rejected \/ NotAnswered \/ Pause

-----------------------------------------------------------------------------
(* The network, at any time.                                               *)

LateArrival ==
  \E o \in late :
    /\ late' = late \ {o}
    /\ stored' = stored \cup Chunk(o)
    /\ UNCHANGED <<callVars, conflicting>>

LateLoss ==
  \E o \in late : late' = late \ {o} /\ UNCHANGED <<callVars, stored, conflicting>>

Next == CallStep \/ LateArrival \/ LateLoss

Spec == Init /\ [][Next]_vars

\* The goroutine of the call runs; the request has a timeout and the pause a
\* timer.  Nothing is assumed of the network or of the endpoint.
FairSpec == Spec /\ WF_vars(CallStep)

-----------------------------------------------------------------------------
(* Properties.                                                             *)

\* The call succeeds only when the endpoint has stored, or has reported as
\* conflicting, every single time series, whatever was lost or repeated.
OkMeansDelivered == result = "ok" => 1..n \subseteq stored \cup conflicting

\* Whatever the outcome, everything before the current chunk is delivered, and
\* nothing after it has left the collector, not even in a request that is late.
DeliveredInOrder ==
  /\ {s \in 1..n : s <= offset} \subseteq stored \cup conflicting
  /\ \A s \in stored \cup conflicting \cup UNION {Chunk(o) : o \in late} :
       s <= offset + MaxSeriesLength

\* All the retries of a call fit in one interval, up to the attempt and the
\* pause that each chunk may have in progress when its share ends: otherwise
\* the Worker, which holds its lock meanwhile, falls behind its schedule.
RetriesFitInterval == total <= Interval + Chunks(n) * (Timeout + MaxPause)

-----------------------------------------------------------------------------
(* The inductive invariants.                                               *)

Progress ==
  /\ pc = "convert" => offset = 0 /\ result = "none"
  /\ pc \in {"loop", "attempt", "backoff"} => supported /\ result = "none"
  /\ pc \in {"attempt", "backoff"} => offset < n
  /\ pc = "returned" => result # "none"
  /\ result = "ok" => offset >= n
  /\ \A o \in late : o <= offset

\* The time spent on the current chunk.
ChunkTime ==
  /\ pc = "backoff" => elapsed <= MaxElapsedTime(n)
  /\ pc = "attempt" => elapsed <= MaxElapsedTime(n) + MaxPause
  /\ elapsed <= MaxElapsedTime(n) + MaxPause + Timeout

\* A chunk is begun and not acknowledged.
Trying == pc \in {"attempt", "backoff"} \/ (result = "error" /\ supported)

\* The most time that the call may spend on one chunk.
ChunkLimit == MaxElapsedTime(n) + MaxPause + Timeout

\* What the call has spent, counted in chunks: offset is a multiple of the chunk
\* size, and the chunks before the current one have taken ChunkLimit at most.
TimeUsed ==
  \E c \in 0..Chunks(n) :
    /\ offset = c * MaxSeriesLength
    /\ ~Trying => total <= c * ChunkLimit
    /\ Trying => c < Chunks(n) /\ total <= c * ChunkLimit + elapsed

IndInv == TypeOK /\ Progress /\ ChunkTime /\ DeliveredInOrder

-----------------------------------------------------------------------------
(* RemoteWrite keeps the promise of Delivery.                              *)

Abstract == INSTANCE Delivery WITH delivered <- stored \cup conflicting

\* Every step of the call, of the network and of the endpoint is one of Delivery.
ImplementsDelivery == Abstract!Spec

\* The call returns, even if the endpoint never answers.
CallReturns == Abstract!CallReturns
=============================================================================
