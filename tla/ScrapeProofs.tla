----------------------------- MODULE ScrapeProofs -----------------------------
(***************************************************************************)
(* Proofs about Scrape for bodies of every length and every limit.         *)
(***************************************************************************)
EXTENDS Scrape, TLAPS

-----------------------------------------------------------------------------
(* The inductive invariant.                                                *)

LEMMA InitIndInv == Init => IndInv
  BY ScrapeAssumption DEF Init, IndInv, TypeOK, Phases, StatusSeen

\* The steps of withCancel.
LEMMA MainStepIndInv ==
  ASSUME IndInv, DoSucceeds \/ DoFails \/ DumpFails \/ MainStep
  PROVE  IndInv'
<1>. USE DEF IndInv, TypeOK, Phases, StatusSeen, exchange
<1>1. CASE DoSucceeds
  <2>1. vector' \in BOOLEAN
    BY <1>1 DEF DoSucceeds
  <2>2. /\ pc = "do" /\ pc' = "spawned" /\ fn' = "check" /\ code' \in {"200", "other"}
        /\ size' \in 0..MaxFamilies
        /\ UNCHANGED <<kind, verbose, ctx, decoded, err, closeErr, outcome>>
    BY <1>1 DEF DoSucceeds
  <2>3. decoded' \in 0..size'
    BY <2>2
  <2>. QED  BY <2>1, <2>2, <2>3
<1>2. CASE DoFails
  BY <1>2 DEF DoFails
<1>3. CASE DumpFails
  BY <1>3 DEF DumpFails
<1>4. CASE Select
  BY <1>4 DEF Select
<1>5. CASE Close
  BY <1>5 DEF Close
<1>6. CASE Propagate
  BY <1>6 DEF Propagate
<1>7. CASE Return
  BY <1>7 DEF Return
<1>. QED
  BY <1>1, <1>2, <1>3, <1>4, <1>5, <1>6, <1>7 DEF MainStep

\* The steps of the goroutine, and the end of the context.
LEMMA GoroutineIndInv ==
  ASSUME IndInv,
         CheckStatus \/ CheckSendStatus \/ DecodeFamily \/ DecodeEnds \/ DecodeAll
           \/ DecodeFails \/ DecodePanics \/ Drain \/ Expire
  PROVE  IndInv'
<1>. USE DEF IndInv, TypeOK, Phases, StatusSeen, exchange, Done
<1>1. CASE CheckStatus
  BY <1>1 DEF CheckStatus
<1>2. CASE CheckSendStatus
  BY <1>2 DEF CheckSendStatus
<1>3. CASE DecodeFamily
  BY <1>3, ScrapeAssumption DEF DecodeFamily
<1>4. CASE DecodeEnds
  BY <1>4 DEF DecodeEnds
<1>5. CASE DecodeAll
  BY <1>5, ScrapeAssumption DEF DecodeAll
<1>6. CASE DecodeFails
  BY <1>6 DEF DecodeFails
<1>7. CASE Drain
  BY <1>7 DEF Drain
<1>8. CASE Expire
  BY <1>8 DEF Expire
<1>9. CASE DecodePanics
  BY <1>9 DEF DecodePanics
<1>. QED
  BY <1>1, <1>2, <1>3, <1>4, <1>5, <1>6, <1>7, <1>8, <1>9

LEMMA NextIndInv == IndInv /\ [Next]_vars => IndInv'
<1>1. ASSUME IndInv, UNCHANGED vars PROVE IndInv'
  BY <1>1 DEF vars, exchange, IndInv, TypeOK, Phases, StatusSeen
<1>. QED
  BY <1>1, MainStepIndInv, GoroutineIndInv DEF Next

\* The inductive invariant holds in every reachable state.
THEOREM Invariance == Spec => []IndInv
  BY InitIndInv, NextIndInv, PTL DEF Spec

\* Whatever the race between the answer and the end of the context, a call
\* succeeds only for the status 200, and another status is its error.
THEOREM StatusDecides == Spec => []StatusErrorIsReturned
<1>1. IndInv => StatusErrorIsReturned
  BY DEF IndInv, TypeOK, Phases, StatusSeen, StatusErrorIsReturned
<1>. QED  BY <1>1, Invariance, PTL

-----------------------------------------------------------------------------
(* The call keeps the promise of Answer.                                   *)

\* Decoding appends families, and only while the caller waits.
LEMMA NextRefines ==
  ASSUME IndInv, [Next]_vars
  PROVE  [Abstract!Next]_(Abstract!vars)
<1>. USE DEF Abstract!Next, Abstract!vars
<1>1. ASSUME DecodeFamily \/ DecodeAll
      PROVE  Abstract!Receive \/ UNCHANGED <<decoded, outcome>>
  <2>1. outcome = "none" /\ outcome' = outcome
    BY <1>1 DEF DecodeFamily, DecodeAll, IndInv, TypeOK, Phases
  <2>2. decoded' >= decoded /\ decoded \in Nat /\ decoded' \in Nat
    BY <1>1, ScrapeAssumption DEF DecodeFamily, DecodeAll, IndInv, TypeOK
  <2>. QED  BY <2>1, <2>2 DEF Abstract!Receive
<1>2. CASE Return
  BY <1>2 DEF Return, IndInv, TypeOK, Phases, Abstract!Decide
<1>3. ASSUME \/ Expire \/ DoSucceeds \/ DoFails \/ DumpFails \/ Select \/ Close \/ Propagate
             \/ CheckStatus \/ CheckSendStatus \/ DecodeEnds \/ DecodeFails \/ DecodePanics
             \/ Drain \/ UNCHANGED vars
      PROVE  UNCHANGED <<decoded, outcome>>
  BY <1>3 DEF Expire, DoSucceeds, DoFails, DumpFails, Select, Close, Propagate, CheckStatus,
              CheckSendStatus, DecodeEnds, DecodeFails, DecodePanics, Drain, vars
<1>. QED  BY <1>1, <1>2, <1>3 DEF Next, MainStep

\* withCancel, with its two goroutines, its timeout and the close of the body
\* under the reader, implements Answer: after it has returned, nobody appends
\* to the families or changes the outcome.
THEOREM Refinement == Spec => ImplementsAnswer
<1>1. Init => Abstract!Init
  BY DEF Init, Abstract!Init
<1>. QED
  BY <1>1, NextRefines, Invariance, PTL DEF Spec, ImplementsAnswer, Abstract!Spec
=============================================================================
