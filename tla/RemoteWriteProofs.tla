------------------------- MODULE RemoteWriteProofs -------------------------
(***************************************************************************)
(* Proofs about RemoteWrite for every chunk size, every number of series   *)
(* and every timing that RemoteWriteAssumption admits.                     *)
(***************************************************************************)
EXTENDS RemoteWrite, TLAPS

-----------------------------------------------------------------------------
(* Arithmetic of the chunks' shares.                                       *)

LEMMA Division ==
  ASSUME NEW a \in Nat, NEW b \in Nat \ {0}
  PROVE  /\ a \div b \in Nat
         /\ b * (a \div b) <= a
         /\ a < b * (a \div b) + b
  OBVIOUS

LEMMA ProductOrder ==
  ASSUME NEW a \in Nat, NEW b \in Nat, NEW m \in Nat \ {0}, m * a <= b * m
  PROVE  a <= b
<1>1. CASE a > b
  <2>1. PICK k \in Nat : a = b + 1 + k
    <3>1. a - b - 1 \in Nat /\ a = b + 1 + (a - b - 1)
      BY <1>1
    <3>. QED  BY <3>1
  <2>2. m * a = b * m + m + m * k
    BY <2>1
  <2>3. m * k \in Nat
    BY <2>1
  <2>. QED  BY <2>2, <2>3
<1>. QED  BY <1>1

\* The interval can be shared among the chunks of any slice.
LEMMA SharesBounds ==
  ASSUME NEW length \in 0..MaxLength
  PROVE  Shares(length) \in Nat /\ 2 <= Shares(length) /\ Shares(length) <= Interval
<1>. DEFINE s == (length * 2) \div MaxSeriesLength
<1>1. /\ length \in Nat /\ length * 2 \in Nat /\ length * 2 <= 2 * MaxLength
      /\ MaxSeriesLength \in Nat \ {0} /\ Interval \in Nat /\ MaxLength \in Nat
  BY RemoteWriteAssumption
<1>2. s \in Nat /\ MaxSeriesLength * s <= length * 2
  BY <1>1, Division
<1>3. Interval * MaxSeriesLength \in Nat /\ 2 * MaxLength <= Interval * MaxSeriesLength
  BY <1>1, RemoteWriteAssumption
<1>4. MaxSeriesLength * s \in Nat
  BY <1>1, <1>2
<1>5. MaxSeriesLength * s <= Interval * MaxSeriesLength
  BY <1>1, <1>2, <1>3, <1>4
<1>6. s <= Interval
  BY <1>1, <1>2, <1>5, ProductOrder
<1>. HIDE DEF s
<1>7. Shares(length) = IF s < 2 THEN 2 ELSE s
  BY DEF Shares, s
<1>. QED  BY <1>2, <1>6, <1>7, RemoteWriteAssumption

\* So no chunk has the share 0, which would mean that it is retried forever.
LEMMA MaxElapsedTimePositive ==
  ASSUME NEW length \in 0..MaxLength
  PROVE  MaxElapsedTime(length) \in Nat \ {0}
<1>. DEFINE d == Interval \div Shares(length)
<1>1. Shares(length) \in Nat \ {0} /\ Shares(length) <= Interval /\ Interval \in Nat
  BY SharesBounds, RemoteWriteAssumption
<1>2. d \in Nat /\ Interval < Shares(length) * d + Shares(length)
  BY <1>1, Division
<1>3. d # 0
  <2>1. CASE d = 0
    <3>1. Shares(length) * d = 0
      BY <1>1, <2>1
    <3>. QED  BY <1>1, <1>2, <3>1
  <2>. QED  BY <2>1
<1>. QED  BY <1>2, <1>3 DEF MaxElapsedTime

-----------------------------------------------------------------------------
(* The inductive invariant.                                                *)

LEMMA ConstantTypes ==
  /\ MaxSeriesLength \in Nat \ {0} /\ Interval \in Nat /\ Timeout \in Nat
  /\ MaxPause \in Nat \ {0} /\ MaxLength \in Nat
  BY RemoteWriteAssumption

LEMMA ChunkFacts ==
  ASSUME NEW o
  PROVE  /\ Chunk(o) \subseteq 1..n
         /\ \A s \in 1..n : s \in Chunk(o) <=> o < s /\ s <= o + MaxSeriesLength
  BY DEF Chunk

LEMMA InitIndInv == Init => IndInv
<1>. SUFFICES ASSUME Init PROVE IndInv
  OBVIOUS
<1>1. n \in Nat /\ n \in 0..MaxLength
  BY ConstantTypes DEF Init
<1>2. MaxElapsedTime(n) \in Nat
  BY <1>1, MaxElapsedTimePositive
<1>. QED
  BY <1>1, <1>2, ConstantTypes DEF Init, IndInv, TypeOK, Progress, ChunkTime,
     DeliveredInOrder

\* The steps at which the call neither waits nor meets the network.
LEMMA LocalStepIndInv ==
  ASSUME IndInv, ConvertFails \/ NothingToForward \/ Convert \/ BeginChunk \/ MarshalFails
         \/ Finish
  PROVE  IndInv'
<1>. DEFINE share == MaxElapsedTime(n)
<1>1. n' = n /\ MaxElapsedTime(n') = share /\ share \in Nat
  BY MaxElapsedTimePositive DEF ConvertFails, NothingToForward, Convert, BeginChunk, MarshalFails, Finish,
     IndInv, TypeOK
<1>2. UNCHANGED <<supported, offset, total, late, stored, conflicting>>
  BY DEF ConvertFails, NothingToForward, Convert, BeginChunk, MarshalFails, Finish, serverVars
<1>3. TypeOK'
  BY <1>1, <1>2 DEF IndInv, TypeOK, ConvertFails, NothingToForward, Convert, BeginChunk, MarshalFails,
     Finish, Return
<1>4. DeliveredInOrder'
  BY <1>1, <1>2 DEF IndInv, DeliveredInOrder, Chunk
<1>. HIDE DEF share
<1>5. Progress'
  BY <1>1, <1>2 DEF IndInv, Progress, TypeOK, ConvertFails, NothingToForward, Convert,
     BeginChunk, MarshalFails, Finish, Return
<1>6. ChunkTime'
  BY <1>1, <1>2, ConstantTypes DEF IndInv, ChunkTime, TypeOK, ConvertFails, NothingToForward,
     Convert, BeginChunk, MarshalFails, Finish, Return, share
<1>. QED  BY <1>3, <1>4, <1>5, <1>6 DEF IndInv

\* The endpoint acknowledges the current chunk.
LEMMA AcknowledgedIndInv ==
  ASSUME IndInv, Accepted \/ Conflict
  PROVE  IndInv'
<1>. DEFINE share == MaxElapsedTime(n)
<1>1. /\ pc = "attempt" /\ pc' = "loop" /\ n' = n /\ offset' = offset + MaxSeriesLength
      /\ UNCHANGED <<supported, result, late>>
  BY DEF Accepted, Conflict, Acknowledged
<1>2. PICK d \in 0..Timeout : elapsed' = elapsed + d /\ total' = total + d
  BY DEF Accepted, Conflict, Acknowledged, Spend
<1>3. share \in Nat /\ MaxElapsedTime(n') = share
  BY <1>1, MaxElapsedTimePositive DEF IndInv, TypeOK
<1>4. /\ stored' \cup conflicting' = stored \cup conflicting \cup Chunk(offset)
      /\ stored' \subseteq 1..n /\ conflicting' \subseteq 1..n
  BY ChunkFacts DEF Accepted, Conflict, IndInv, TypeOK
<1>5. TypeOK'
  BY <1>1, <1>2, <1>4, ConstantTypes DEF IndInv, TypeOK
<1>6. Progress'
  BY <1>1, ConstantTypes DEF IndInv, Progress, TypeOK
<1>7. DeliveredInOrder'
  <2>1. offset \in Nat /\ offset' \in Nat /\ n \in Nat
    BY <1>5, ConstantTypes DEF IndInv, TypeOK
  <2>2. {s \in 1..n : s <= offset'} \subseteq stored' \cup conflicting'
    BY <1>1, <1>4, <2>1, ChunkFacts, ConstantTypes DEF IndInv, DeliveredInOrder
  <2>3. ASSUME NEW s \in stored' \cup conflicting' \cup UNION {Chunk(o) : o \in late'}
        PROVE  s <= offset' + MaxSeriesLength
    <3>1. s \in stored \cup conflicting \cup UNION {Chunk(o) : o \in late} \/ s \in Chunk(offset)
      BY <1>1, <1>4
    <3>2. s \in 1..n
      BY <3>1, ChunkFacts DEF IndInv, TypeOK
    <3>3. s <= offset + MaxSeriesLength
      BY <3>1, <3>2, ChunkFacts DEF IndInv, DeliveredInOrder
    <3>. QED  BY <3>2, <3>3, <1>1, <2>1, ConstantTypes
  <2>4. (UNION {Chunk(o) : o \in late})' = UNION {Chunk(o) : o \in late'}
    BY <1>1 DEF Chunk
  <2>. QED  BY <1>1, <2>2, <2>3, <2>4 DEF DeliveredInOrder
<1>. HIDE DEF share
<1>8. ChunkTime'
  BY <1>1, <1>2, <1>3, ConstantTypes DEF IndInv, ChunkTime, TypeOK, share
<1>. QED  BY <1>5, <1>6, <1>7, <1>8 DEF IndInv

\* An attempt fails; the current chunk may be stored, or still arrive.
LEMMA FailedIndInv ==
  ASSUME IndInv, Rejected \/ NotAnswered
  PROVE  IndInv'
<1>. DEFINE share == MaxElapsedTime(n)
<1>1. pc = "attempt" /\ UNCHANGED <<n, supported, offset, conflicting>>
  BY DEF Rejected, NotAnswered, Failed
<1>2. share \in Nat \ {0} /\ MaxElapsedTime(n') = share
  BY <1>1, MaxElapsedTimePositive DEF IndInv, TypeOK
<1>3. PICK d \in 0..Timeout :
        /\ elapsed' = elapsed + d /\ total' = total + d
        /\ IF elapsed + d > share THEN pc' = "returned" /\ result' = "error"
                                  ELSE pc' = "backoff" /\ UNCHANGED result
  BY <1>2 DEF Rejected, NotAnswered, Failed, Spend, GivesUp, Return
<1>4. /\ stored \subseteq stored' /\ stored' \subseteq stored \cup Chunk(offset)
      /\ late' \subseteq late \cup {offset}
  BY DEF Rejected, NotAnswered
<1>5. TypeOK'
  BY <1>1, <1>3, <1>4, ChunkFacts, ConstantTypes DEF IndInv, TypeOK
<1>6. Progress'
  BY <1>1, <1>3, <1>4 DEF IndInv, Progress, TypeOK
<1>7. DeliveredInOrder'
  <2>1. {s \in 1..n : s <= offset} \subseteq stored' \cup conflicting
    BY <1>4 DEF IndInv, DeliveredInOrder
  <2>2. ASSUME NEW s \in stored' \cup conflicting \cup UNION {Chunk(o) : o \in late'}
        PROVE  s <= offset + MaxSeriesLength
    <3>1. s \in stored \cup conflicting \cup UNION {Chunk(o) : o \in late} \/ s \in Chunk(offset)
      BY <1>4
    <3>. QED  BY <3>1, ChunkFacts DEF IndInv, DeliveredInOrder
  <2>3. (UNION {Chunk(o) : o \in late})' = UNION {Chunk(o) : o \in late'}
    BY <1>1 DEF Chunk
  <2>. QED  BY <1>1, <2>1, <2>2, <2>3 DEF DeliveredInOrder
<1>. HIDE DEF share
<1>8. ChunkTime'
  BY <1>1, <1>2, <1>3, ConstantTypes DEF IndInv, ChunkTime, TypeOK, share
<1>. QED  BY <1>5, <1>6, <1>7, <1>8 DEF IndInv

LEMMA PauseIndInv ==
  ASSUME IndInv, Pause
  PROVE  IndInv'
<1>. DEFINE share == MaxElapsedTime(n)
<1>1. pc = "backoff" /\ pc' = "attempt" /\ UNCHANGED <<n, supported, offset, result, late, stored, conflicting>>
  BY DEF Pause, serverVars
<1>2. PICK d \in 1..MaxPause : elapsed' = elapsed + d /\ total' = total + d
  BY DEF Pause, Spend
<1>3. share \in Nat /\ MaxElapsedTime(n') = share
  BY <1>1, MaxElapsedTimePositive DEF IndInv, TypeOK
<1>4. TypeOK'
  BY <1>1, <1>2, ConstantTypes DEF IndInv, TypeOK
<1>5. Progress'
  BY <1>1 DEF IndInv, Progress
<1>6. DeliveredInOrder'
  BY <1>1 DEF IndInv, DeliveredInOrder, Chunk
<1>. HIDE DEF share
<1>7. ChunkTime'
  BY <1>1, <1>2, <1>3, ConstantTypes DEF IndInv, ChunkTime, TypeOK, share
<1>. QED  BY <1>4, <1>5, <1>6, <1>7 DEF IndInv

\* A late request arrives or is lost.
LEMMA NetworkIndInv ==
  ASSUME IndInv, LateArrival \/ LateLoss
  PROVE  IndInv'
<1>1. PICK o \in late :
        /\ late' = late \ {o} /\ stored \subseteq stored' /\ stored' \subseteq stored \cup Chunk(o)
        /\ UNCHANGED <<callVars, conflicting>>
  BY DEF LateArrival, LateLoss
<1>2. TypeOK'
  BY <1>1, ChunkFacts DEF IndInv, TypeOK, callVars
<1>3. Progress' /\ ChunkTime'
  BY <1>1 DEF IndInv, Progress, ChunkTime, callVars
<1>4. DeliveredInOrder'
  <2>1. \A s \in stored' \cup conflicting \cup UNION {Chunk(x) : x \in late'} :
          s \in stored \cup conflicting \cup UNION {Chunk(x) : x \in late}
    BY <1>1
  <2>2. (UNION {Chunk(x) : x \in late})' = UNION {Chunk(x) : x \in late'}
    BY <1>1 DEF Chunk, callVars
  <2>. QED  BY <1>1, <2>1, <2>2 DEF IndInv, DeliveredInOrder, callVars
<1>. QED  BY <1>2, <1>3, <1>4 DEF IndInv

LEMMA NextIndInv == IndInv /\ [Next]_vars => IndInv'
<1>1. ASSUME IndInv, UNCHANGED vars PROVE IndInv'
  BY <1>1 DEF vars, callVars, serverVars, IndInv, TypeOK, Progress, ChunkTime,
     DeliveredInOrder, Chunk
<1>. QED
  BY <1>1, LocalStepIndInv, AcknowledgedIndInv, FailedIndInv, PauseIndInv, NetworkIndInv
  DEF Next, CallStep

\* The inductive invariant holds in every reachable state.
THEOREM Invariance == Spec => []IndInv
  BY InitIndInv, NextIndInv, PTL DEF Spec

\* RemoteWrite reports success only for a batch of which the endpoint has
\* acknowledged every series, for every chunk size and length.
THEOREM SuccessMeansDelivered == Spec => []OkMeansDelivered
<1>1. IndInv => OkMeansDelivered
  BY DEF IndInv, OkMeansDelivered, Progress, DeliveredInOrder, TypeOK
<1>. QED  BY <1>1, Invariance, PTL

\* At every moment the chunks before the current one are delivered and those
\* after it have not left the collector.
THEOREM InOrder == Spec => []DeliveredInOrder
<1>1. IndInv => DeliveredInOrder
  BY DEF IndInv
<1>. QED  BY <1>1, Invariance, PTL

-----------------------------------------------------------------------------
(* The retries fit in the interval.                                        *)

LEMMA ProductMonotonic ==
  ASSUME NEW a \in Nat, NEW b \in Nat, NEW m \in Nat, a <= b
  PROVE  a * m <= b * m
<1>1. PICK k \in Nat : b = a + k
  <2>1. b - a \in Nat /\ b = a + (b - a)
    OBVIOUS
  <2>. QED  BY <2>1
<1>2. b * m = a * m + k * m /\ k * m \in Nat /\ a * m \in Nat
  BY <1>1
<1>. QED  BY <1>2

\* The chunks cover the slice, and there are no more of them than shares.
LEMMA ChunksBounds ==
  ASSUME NEW length \in Nat
  PROVE  /\ Chunks(length) \in Nat
         /\ length <= Chunks(length) * MaxSeriesLength
         /\ Chunks(length) <= Shares(length)
<1>. DEFINE m == MaxSeriesLength
            C == (length + m - 1) \div m
            q == (length * 2) \div m
<1>1. m \in Nat \ {0} /\ length + m - 1 \in Nat /\ length * 2 \in Nat
  BY ConstantTypes
<1>. HIDE DEF m
<1>2. C \in Nat /\ m * C <= length + m - 1 /\ length + m - 1 < m * C + m
  BY <1>1, Division
<1>3. q \in Nat /\ m * q <= length * 2 /\ length * 2 < m * q + m
  BY <1>1, Division
<1>. HIDE DEF C, q
<1>4. m * C \in Nat /\ m * q \in Nat /\ m * C = C * m
  BY <1>1, <1>2, <1>3
<1>5. length <= C * m
  BY <1>1, <1>2, <1>4
<1>6. C <= IF q < 2 THEN 2 ELSE q
  <2>1. CASE q < 2
    <3>1. m * q <= m
      BY <1>1, <1>3, <2>1
    <3>2. m * C <= 2 * m
      BY <1>1, <1>2, <1>3, <1>4, <3>1
    <3>. QED  BY <1>1, <1>2, <2>1, <3>2, ProductOrder
  <2>2. CASE q >= 2
    <3>1. 2 * m <= q * m /\ q * m = m * q
      BY <1>1, <1>3, <2>2, ProductMonotonic
    <3>2. ASSUME C > q PROVE FALSE
      <4>1. (q + 1) * m <= C * m
        BY <1>1, <1>2, <1>3, <3>2, ProductMonotonic
      <4>2. (q + 1) * m = m * q + m
        BY <1>1, <1>3
      <4>. QED  BY <1>1, <1>2, <1>3, <1>4, <3>1, <4>1, <4>2
    <3>. QED  BY <1>2, <1>3, <2>2, <3>2
  <2>. QED  BY <1>3, <2>1, <2>2
<1>7. Chunks(length) = C /\ Shares(length) = IF q < 2 THEN 2 ELSE q
  BY DEF Chunks, Shares, C, q, m
<1>. QED  BY <1>2, <1>5, <1>6, <1>7 DEF m

\* All the shares together fit in the interval.
LEMMA SharesFit ==
  ASSUME NEW length \in 0..MaxLength
  PROVE  Chunks(length) * MaxElapsedTime(length) <= Interval
<1>1. /\ length \in Nat /\ Interval \in Nat
      /\ Shares(length) \in Nat \ {0} /\ MaxElapsedTime(length) \in Nat
      /\ Chunks(length) \in Nat /\ Chunks(length) <= Shares(length)
  BY ConstantTypes, SharesBounds, MaxElapsedTimePositive, ChunksBounds
<1>2. Shares(length) * MaxElapsedTime(length) <= Interval
  BY <1>1, Division DEF MaxElapsedTime
<1>3. Chunks(length) * MaxElapsedTime(length) <= Shares(length) * MaxElapsedTime(length)
  BY <1>1, ProductMonotonic
<1>. QED
  BY <1>1, <1>2, <1>3

\* A chunk that starts before the end of the slice is not beyond the last one.
LEMMA ChunkLeft ==
  ASSUME NEW length \in Nat, NEW c \in Nat, c * MaxSeriesLength < length
  PROVE  c < Chunks(length)
<1>1. Chunks(length) \in Nat /\ length <= Chunks(length) * MaxSeriesLength
  BY ChunksBounds
<1>2. ASSUME Chunks(length) <= c PROVE FALSE
  <2>1. Chunks(length) * MaxSeriesLength <= c * MaxSeriesLength
    BY <1>1, <1>2, ProductMonotonic, ConstantTypes
  <2>. QED
    BY <1>1, <2>1, ConstantTypes
<1>. QED  BY <1>1, <1>2

LEMMA LimitType ==
  ASSUME TypeOK
  PROVE  /\ n \in 0..MaxLength /\ n \in Nat /\ Chunks(n) \in Nat
         /\ MaxElapsedTime(n) \in Nat /\ ChunkLimit \in Nat
  BY ConstantTypes, MaxElapsedTimePositive, ChunksBounds DEF TypeOK, ChunkLimit

LEMMA InitTimeUsed == Init => TimeUsed
<1>. SUFFICES ASSUME Init PROVE TimeUsed
  OBVIOUS
<1>1. TypeOK /\ ~Trying
  BY InitIndInv DEF Init, IndInv, Trying
<1>2. 0 \in 0..Chunks(n) /\ offset = 0 * MaxSeriesLength /\ total <= 0 * ChunkLimit
  BY <1>1, LimitType, ConstantTypes DEF Init
<1>. QED  BY <1>1, <1>2 DEF TimeUsed

\* A step that takes no time, and after which the call is not in a chunk unless it was.
LEMMA TimelessTimeUsed ==
  ASSUME TimeUsed, UNCHANGED <<n, offset, total>>, Trying' => Trying /\ UNCHANGED elapsed,
         Trying => Trying'
  PROVE  TimeUsed'
<1>1. Chunks(n') = Chunks(n) /\ ChunkLimit' = ChunkLimit
  BY DEF ChunkLimit
<1>. QED  BY <1>1 DEF TimeUsed

LEMMA NextTimeUsed == IndInv /\ IndInv' /\ TimeUsed /\ [Next]_vars => TimeUsed'
<1>. SUFFICES ASSUME IndInv, IndInv', TimeUsed, [Next]_vars PROVE TimeUsed'
  OBVIOUS
<1>1. UNCHANGED n
  BY DEF Next, CallStep, ConvertFails, NothingToForward, Convert, BeginChunk, MarshalFails, Finish, Accepted,
     Conflict, Acknowledged, Rejected, NotAnswered, Failed, Pause, LateArrival, LateLoss, vars,
     callVars
<1>2. Chunks(n') = Chunks(n) /\ ChunkLimit' = ChunkLimit
  BY <1>1 DEF ChunkLimit
<1>3. /\ n \in Nat /\ Chunks(n) \in Nat /\ ChunkLimit \in Nat
      /\ elapsed \in Nat /\ total \in Nat /\ offset \in Nat
      /\ elapsed' <= ChunkLimit
  BY <1>1, LimitType DEF IndInv, TypeOK, ChunkTime, ChunkLimit
<1>4. PICK c \in 0..Chunks(n) :
        /\ offset = c * MaxSeriesLength
        /\ ~Trying => total <= c * ChunkLimit
        /\ Trying => c < Chunks(n) /\ total <= c * ChunkLimit + elapsed
  BY DEF TimeUsed
<1>5. c \in Nat /\ c * ChunkLimit \in Nat
  BY <1>3, <1>4
<1>6. CASE ConvertFails \/ NothingToForward \/ Convert \/ Finish \/ LateArrival \/ LateLoss
           \/ UNCHANGED vars
  <2>1. UNCHANGED <<offset, total, elapsed, supported>>
    BY <1>6 DEF ConvertFails, NothingToForward, Convert, Finish, LateArrival, LateLoss, vars, callVars
  <2>2. Trying' <=> Trying
    BY <1>6, <2>1 DEF ConvertFails, NothingToForward, Convert, Finish, LateArrival, LateLoss, vars,
       callVars, Trying, Return, IndInv, Progress
  <2>. QED  BY <1>1, <2>1, <2>2, TimelessTimeUsed
<1>7. CASE BeginChunk
  <2>1. ~Trying /\ UNCHANGED <<offset, total>> /\ offset < n /\ elapsed' = 0 /\ Trying'
    BY <1>7 DEF BeginChunk, Trying, IndInv, Progress
  <2>2. c < Chunks(n)
    BY <1>3, <1>4, <1>5, <2>1, ChunkLeft
  <2>3. total' <= c * ChunkLimit + elapsed'
    BY <1>3, <1>4, <1>5, <2>1
  <2>. QED  BY <1>2, <1>4, <2>1, <2>2, <2>3 DEF TimeUsed
<1>8. CASE MarshalFails
  <2>1. ~Trying /\ UNCHANGED <<offset, total, elapsed>> /\ offset < n
    BY <1>8 DEF MarshalFails, Trying, IndInv, Progress
  <2>2. c < Chunks(n)
    BY <1>3, <1>4, <1>5, <2>1, ChunkLeft
  <2>3. total' <= c * ChunkLimit /\ total' <= c * ChunkLimit + elapsed'
    BY <1>3, <1>4, <1>5, <2>1
  <2>. QED  BY <1>2, <1>4, <2>1, <2>2, <2>3 DEF TimeUsed
<1>9. CASE Accepted \/ Conflict
  <2>1. /\ Trying /\ ~Trying' /\ offset' = offset + MaxSeriesLength
        /\ \E d \in 0..Timeout : elapsed' = elapsed + d /\ total' = total + d
    BY <1>9 DEF Accepted, Conflict, Acknowledged, Spend, Trying, IndInv, Progress
  <2>2. c < Chunks(n) /\ total' <= c * ChunkLimit + ChunkLimit
    BY <1>3, <1>4, <1>5, <2>1, ConstantTypes
  <2>3. (c + 1) * ChunkLimit = c * ChunkLimit + ChunkLimit
    BY <1>3, <1>5
  <2>4. offset' = (c + 1) * MaxSeriesLength
    BY <1>4, <1>5, <2>1, ConstantTypes
  <2>5. c + 1 \in 0..Chunks(n) /\ total' <= (c + 1) * ChunkLimit
    BY <1>3, <1>5, <2>2, <2>3
  <2>. QED  BY <1>2, <2>1, <2>4, <2>5 DEF TimeUsed
<1>10. CASE Rejected \/ NotAnswered \/ Pause
  <2>1. /\ Trying /\ Trying' /\ UNCHANGED offset
        /\ \E d \in Nat : elapsed' = elapsed + d /\ total' = total + d
    BY <1>10, ConstantTypes DEF Rejected, NotAnswered, Failed, Pause, Spend, Return, Trying, IndInv, Progress
  <2>2. c < Chunks(n) /\ total' <= c * ChunkLimit + elapsed'
    BY <1>3, <1>4, <1>5, <2>1
  <2>. QED  BY <1>2, <1>4, <2>1, <2>2 DEF TimeUsed
<1>. QED  BY <1>6, <1>7, <1>9, <1>10, <1>8 DEF Next, CallStep

\* The retries of all chunks of a call together take no more than the interval
\* and, for each chunk, the attempt and the pause in which its share ends.
THEOREM FitsInterval == Spec => []RetriesFitInterval
<1>1. ASSUME IndInv, TimeUsed PROVE RetriesFitInterval
  <2>. DEFINE C == Chunks(n)
              S == MaxElapsedTime(n)
              W == Timeout + MaxPause
  <2>1. C \in Nat /\ S \in Nat /\ W \in Nat /\ ChunkLimit = S + W /\ C * S <= Interval
    BY <1>1, LimitType, SharesFit, ConstantTypes DEF IndInv, ChunkLimit
  <2>2. total \in Nat /\ elapsed \in Nat /\ elapsed <= ChunkLimit
    BY <1>1, ConstantTypes DEF IndInv, TypeOK, ChunkTime, ChunkLimit
  <2>. HIDE DEF C, S, W
  <2>3. PICK c \in 0..C :
          /\ ~Trying => total <= c * ChunkLimit
          /\ Trying => c < C /\ total <= c * ChunkLimit + elapsed
    BY <1>1 DEF TimeUsed, C
  <2>4. ChunkLimit \in Nat /\ c \in Nat
    BY <2>1, <2>3
  <2>5. total <= C * ChunkLimit
    <3>1. CASE Trying
      <4>1. (c + 1) * ChunkLimit <= C * ChunkLimit
        BY <2>1, <2>3, <2>4, <3>1, ProductMonotonic
      <4>2. (c + 1) * ChunkLimit = c * ChunkLimit + ChunkLimit /\ c * ChunkLimit \in Nat
        BY <2>4
      <4>3. total <= c * ChunkLimit + ChunkLimit
        BY <2>2, <2>3, <2>4, <3>1, <4>2
      <4>. QED  BY <2>1, <2>2, <2>4, <4>1, <4>2, <4>3
    <3>2. CASE ~Trying
      <4>1. c * ChunkLimit <= C * ChunkLimit
        BY <2>1, <2>3, <2>4, ProductMonotonic
      <4>. QED  BY <2>1, <2>2, <2>3, <2>4, <3>2, <4>1
    <3>. QED  BY <3>1, <3>2
  <2>6. C * ChunkLimit = C * S + C * W /\ C * S \in Nat /\ C * W \in Nat
    BY <2>1
  <2>7. total <= Interval + C * W
    BY <2>1, <2>2, <2>5, <2>6, ConstantTypes
  <2>. QED  BY <2>7 DEF RetriesFitInterval, C, W
<1>. QED  BY <1>1, Invariance, InitTimeUsed, NextTimeUsed, PTL DEF Spec

-----------------------------------------------------------------------------
(* RemoteWrite keeps the promise of Delivery.                              *)

LEMMA InitRefines == Init => Abstract!Init
  BY ConstantTypes DEF Init, Abstract!Init

LEMMA NextRefines ==
  ASSUME IndInv, IndInv', [Next]_vars
  PROVE  [Abstract!Next]_(Abstract!vars)
<1>. USE DEF Abstract!Next, Abstract!vars
<1>1. stored \cup conflicting \subseteq 1..n /\ stored' \cup conflicting' \subseteq 1..n'
  BY DEF IndInv, TypeOK
<1>2. UNCHANGED n
  BY DEF Next, CallStep, ConvertFails, NothingToForward, Convert, BeginChunk, MarshalFails, Finish, Accepted,
     Conflict, Acknowledged, Rejected, NotAnswered, Failed, Pause, LateArrival, LateLoss, vars,
     callVars
<1>3. ASSUME ConvertFails \/ NothingToForward \/ Convert \/ BeginChunk \/ MarshalFails \/ Finish
             \/ Pause \/ UNCHANGED vars
      PROVE  UNCHANGED <<stored, conflicting>>
  BY <1>3 DEF ConvertFails, NothingToForward, Convert, BeginChunk, MarshalFails, Finish, Pause, serverVars, vars
<1>4. CASE ConvertFails \/ MarshalFails
  <2>1. result = "none" /\ result' = "error"
    BY <1>4 DEF ConvertFails, MarshalFails, Return, IndInv, Progress
  <2>. QED  BY <1>1, <1>2, <1>3, <1>4, <2>1 DEF Abstract!Fail
<1>5. ASSUME NothingToForward \/ Finish
      PROVE  Abstract!Succeed
  <2>1. result = "none" /\ result' = "ok"
    BY <1>5 DEF NothingToForward, Finish, Return, IndInv, Progress
  <2>2. 1..n \subseteq stored' \cup conflicting'
    BY <1>2, <2>1 DEF IndInv, OkMeansDelivered, Progress, DeliveredInOrder, TypeOK
  <2>. QED  BY <1>1, <1>2, <1>3, <1>5, <2>1, <2>2 DEF Abstract!Succeed
<1>6. ASSUME Convert \/ BeginChunk \/ Pause \/ UNCHANGED vars
      PROVE  UNCHANGED <<n, stored \cup conflicting, result>>
  BY <1>2, <1>3, <1>6 DEF Convert, BeginChunk, Pause, vars, callVars
<1>7. ASSUME Accepted \/ Conflict \/ LateArrival \/ LateLoss
      PROVE  Abstract!Deliver
  <2>1. UNCHANGED result
    BY <1>7 DEF Accepted, Conflict, Acknowledged, LateArrival, LateLoss, callVars
  <2>2. stored \cup conflicting \subseteq stored' \cup conflicting'
    BY <1>7 DEF Accepted, Conflict, LateArrival, LateLoss
  <2>. QED  BY <1>1, <1>2, <2>1, <2>2 DEF Abstract!Deliver
<1>8. ASSUME Rejected \/ NotAnswered
      PROVE  Abstract!Deliver \/ Abstract!Fail
  <2>1. stored \cup conflicting \subseteq stored' \cup conflicting'
    BY <1>8 DEF Rejected, NotAnswered, Failed
  <2>2. result = "none" /\ result' \in {"none", "error"}
    BY <1>8 DEF Rejected, NotAnswered, Failed, Return, IndInv, Progress
  <2>. QED  BY <1>1, <1>2, <2>1, <2>2 DEF Abstract!Deliver, Abstract!Fail
<1>. QED
  BY <1>4, <1>5, <1>6, <1>7, <1>8 DEF Next, CallStep

\* RemoteWrite, with its chunks, its retries and a network that loses and
\* delays requests, implements Delivery.
THEOREM Refinement == Spec => ImplementsDelivery
  BY InitRefines, NextRefines, Invariance, PTL
  DEF Spec, ImplementsDelivery, Abstract!Spec
=============================================================================
