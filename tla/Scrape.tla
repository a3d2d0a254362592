------------------------------- MODULE Scrape -------------------------------
(***************************************************************************)
(* One HTTP exchange of Client.Retrieve, Client.RetrievRecordingMetrics or *)
(* Client.Send (pkg/metricsclient/metricsclient.go) through withCancel: a  *)
(* goroutine decodes or drains the body while withCancel selects between   *)
(* its end and the end of the context, which has a timeout and may also be *)
(* cancelled.                                                              *)
(*                                                                         *)
(* A body is the number of its families, and the limit in bytes is how     *)
(* many families it has room for.  The server may answer late, stall, or   *)
(* lose the connection at any time.                                        *)
(***************************************************************************)
EXTENDS Naturals

CONSTANTS
  Limit,       \* how many families --limit-bytes has room for
  MaxFamilies  \* bound: how many families a body has

ASSUME ScrapeAssumption == Limit \in Nat /\ MaxFamilies \in Nat

VARIABLES
  kind,      \* the format of the body, "delimited", "text" or "json", or
             \* "send" for the answer to Send, which is read and forgotten
  verbose,   \* the transport is a debugRoundTripper
  ctx,       \* the context with the timeout: "live" or "expired"
  pc,        \* where withCancel is
  fn,        \* where the goroutine is
  code,      \* the status code of the answer: "none", "200" or "other"
  size,      \* how many families the body has
  vector,    \* every result of a JSON body is an instant: a time and a string
  decoded,   \* how many families fn has appended for the caller
  err,       \* the variable err that withCancel and the goroutine share
  closeErr,  \* what resp.Body.Close returned
  outcome    \* what the caller gets

exchange == <<kind, verbose>>
vars == <<exchange, ctx, pc, fn, code, size, vector, decoded, err, closeErr, outcome>>

TypeOK ==
  /\ kind \in {"delimited", "text", "json", "send"}
  /\ verbose \in BOOLEAN
  /\ ctx \in {"live", "expired"}
  /\ pc \in {"do", "spawned", "parked", "closing", "waiting", "finished",
             "returned", "crashed"}
  /\ fn \in {"none", "check", "decode", "drain", "done", "panicked"}
  /\ code \in {"none", "200", "other"}
  /\ size \in 0..MaxFamilies
  /\ vector \in BOOLEAN
  /\ decoded \in 0..size
  /\ err \in {"none", "do", "status", "close", "ctx"}
  /\ closeErr \in {"none", "close"}
  /\ outcome \in {"none", "ok", "error"}

Init ==
  /\ kind \in {"delimited", "text", "json", "send"}
  /\ verbose \in BOOLEAN
  /\ ctx = "live"
  /\ pc = "do"
  /\ fn = "none"
  /\ code = "none"
  /\ size = 0
  /\ vector = TRUE
  /\ decoded = 0
  /\ err = "none"
  /\ closeErr = "none"
  /\ outcome = "none"

-----------------------------------------------------------------------------
(* The context.  A select that is blocked is woken by the first channel    *)
(* that becomes ready, and takes that case.                                *)

\* The timeout passes, or the owner of the context cancels it.
Expire ==
  /\ ctx = "live"
  /\ ctx' = "expired"
  /\ pc' = IF pc = "parked" THEN "closing" ELSE pc
  /\ UNCHANGED <<exchange, fn, code, size, vector, decoded, err, closeErr, outcome>>

-----------------------------------------------------------------------------
(* withCancel.                                                             *)

\* client.Do returns the head of an answer; the goroutine is started.
DoSucceeds ==
  /\ pc = "do"
  /\ code' \in {"200", "other"}
  /\ size' \in 0..MaxFamilies
  /\ vector' \in IF kind = "json" THEN BOOLEAN ELSE {TRUE}
  /\ fn' = "check"
  /\ pc' = "spawned"
  /\ UNCHANGED <<exchange, ctx, decoded, err, closeErr, outcome>>

\* A variant of a request that is not bound to the context.
DoFailsWithoutContext ==
  /\ pc = "do" /\ ctx = "live"
  /\ err' = "do"
  /\ pc' = "finished"
  /\ UNCHANGED <<exchange, ctx, fn, code, size, vector, decoded, closeErr, outcome>>

\* client.Do fails: no connection, or the context ended.  Send also fails
\* here if Write cannot encode the families.
DoFails ==
  /\ pc = "do"
  /\ err' = "do"
  /\ pc' = "finished"
  /\ UNCHANGED <<exchange, ctx, fn, code, size, vector, decoded, closeErr, outcome>>

\* debugRoundTripper reads the body inside client.Do, to print it, and panics
\* if that fails: the process ends.
DumpFails ==
  /\ pc = "do" /\ verbose
  /\ pc' = "crashed"
  /\ UNCHANGED <<exchange, ctx, fn, code, size, vector, decoded, err, closeErr, outcome>>

\* The select blocks, or takes one of the cases that are ready.
Select ==
  /\ pc = "spawned"
  /\ \/ ctx = "live" /\ fn # "done" /\ pc' = "parked"
     \/ ctx = "expired" /\ pc' = "closing"
     \/ fn = "done" /\ pc' = "finished"
  /\ UNCHANGED <<exchange, ctx, fn, code, size, vector, decoded, err, closeErr, outcome>>

Close ==
  /\ pc = "closing"
  /\ closeErr' \in {"none", "close"}
  /\ pc' = "waiting"
  /\ UNCHANGED <<exchange, ctx, fn, code, size, vector, decoded, err, outcome>>

\* A variant that does not wait for the goroutine.
PropagateAtOnce ==
  /\ pc = "waiting"
  /\ err' = IF err # "none" THEN err ELSE IF closeErr # "none" THEN closeErr ELSE "ctx"
  /\ pc' = "finished"
  /\ UNCHANGED <<exchange, ctx, fn, code, size, vector, decoded, closeErr, outcome>>

\* `<-done`, then the first error there is: of fn, of Close, of the context.
Propagate ==
  /\ pc = "waiting" /\ fn = "done"
  /\ err' = IF err # "none" THEN err ELSE IF closeErr # "none" THEN closeErr ELSE "ctx"
  /\ pc' = "finished"
  /\ UNCHANGED <<exchange, ctx, fn, code, size, vector, decoded, closeErr, outcome>>

\* withCancel returns, and so does its caller, with the families or an error.
Return ==
  /\ pc = "finished"
  /\ outcome' = IF err = "none" THEN "ok" ELSE "error"
  /\ pc' = "returned"
  /\ UNCHANGED <<exchange, ctx, fn, code, size, vector, decoded, err, closeErr>>

-----------------------------------------------------------------------------
(* The goroutine.                                                          *)

\* close(done) after fn returned.
Done ==
  /\ fn' = "done"
  /\ pc' = IF pc = "parked" THEN "finished" ELSE pc

\* A variant of the goroutine with an err of its own.
CheckStatusShadowed ==
  /\ fn = "check" /\ kind # "send"
  /\ IF code = "200" THEN fn' = "decode" /\ UNCHANGED pc ELSE Done
  /\ UNCHANGED <<exchange, ctx, code, size, vector, decoded, err, closeErr, outcome>>

\* Any status but 200 is an error.
CheckStatus ==
  /\ fn = "check" /\ kind # "send"
  /\ IF code = "200" THEN fn' = "decode" /\ UNCHANGED <<pc, err>>
                     ELSE Done /\ err' = "status"
  /\ UNCHANGED <<exchange, ctx, code, size, vector, decoded, closeErr, outcome>>

\* So it is for Send, which reads the body in any case.
CheckSendStatus ==
  /\ fn = "check" /\ kind = "send"
  /\ err' = IF code = "200" THEN err ELSE "status"
  /\ fn' = "drain"
  /\ UNCHANGED <<exchange, ctx, pc, code, size, vector, decoded, closeErr, outcome>>

\* The deferred io.Copy and Close of Send, whose errors are logged.
Drain ==
  /\ fn = "drain"
  /\ Done
  /\ UNCHANGED <<exchange, ctx, code, size, vector, decoded, err, closeErr, outcome>>

\* LimitedReader.Read lets the first n families through.
Fits(n) == n <= Limit

\* A delimited body is decoded family by family, up to the limit.
DecodeFamily ==
  /\ fn = "decode" /\ kind = "delimited"
  /\ decoded < size /\ Fits(decoded + 1)
  /\ decoded' = decoded + 1
  /\ UNCHANGED <<exchange, ctx, pc, fn, code, size, vector, err, closeErr, outcome>>

\* The end of a delimited body: io.EOF is no error.
DecodeEnds ==
  /\ fn = "decode" /\ kind = "delimited"
  /\ decoded = size
  /\ Done
  /\ UNCHANGED <<exchange, ctx, code, size, vector, decoded, err, closeErr, outcome>>

\* JSON that is valid, and is not what the code expects of an instant query:
\* a result without "value" (of a range), or with other types in it.
Malformed == kind = "json" /\ ~vector /\ size > 0

\* Text and JSON are parsed as a whole; only federation has the limit.
DecodeAll ==
  /\ fn = "decode" /\ kind \in {"text", "json"}
  /\ ~Malformed
  /\ kind = "text" => Fits(size)
  /\ decoded' = size
  /\ Done
  /\ UNCHANGED <<exchange, ctx, code, size, vector, err, closeErr, outcome>>

\* r.Value[0].(float64) or r.Value[1].(string) panics, in a goroutine that
\* does not recover: the process ends.
DecodePanics ==
  /\ fn = "decode" /\ Malformed
  /\ fn' = "panicked"
  /\ pc' = "crashed"
  /\ UNCHANGED <<exchange, ctx, code, size, vector, decoded, err, closeErr, outcome>>

\* An error while reading or parsing (lost connection, malformed text, too
\* long, body closed, context ended) is logged, and fn returns nil.
DecodeFails ==
  /\ fn = "decode"
  /\ Done
  /\ UNCHANGED <<exchange, ctx, code, size, vector, decoded, err, closeErr, outcome>>

-----------------------------------------------------------------------------

MainStep == Select \/ Close \/ Propagate \/ Return

Next ==
  \/ Expire \/ DoSucceeds \/ DoFails \/ DumpFails \/ MainStep
  \/ CheckStatus \/ CheckSendStatus \/ DecodeFamily \/ DecodeEnds \/ DecodeAll
  \/ DecodeFails \/ DecodePanics \/ Drain

Spec == Init /\ [][Next]_vars

\* The timer fires; goroutines run; once the context has ended, a request and
\* a read of its body fail.  Nothing is assumed of the server.
Fairness ==
  /\ WF_vars(Expire) /\ WF_vars(MainStep)
  /\ WF_vars(CheckStatus \/ CheckSendStatus)
  /\ WF_vars(ctx = "expired" /\ (DoFails \/ DumpFails))
  /\ WF_vars(ctx = "expired" /\ (DecodeFails \/ DecodePanics \/ Drain))

FairSpec == Spec /\ Fairness

-----------------------------------------------------------------------------
(* Properties.                                                             *)

\* The status of the answer decides the error that is returned, whether the
\* context ends before, while or after the goroutine looks at it.
StatusErrorIsReturned ==
  /\ outcome = "ok" => code = "200"
  /\ outcome # "none" /\ code = "other" => err = "status"

\* --limit-bytes is the "maxiumum acceptable size of a response" (main.go:54):
\* a longer one is not accepted.
OversizeIsRejected == outcome = "ok" /\ kind \in {"delimited", "text"} => Fits(size)

\* The call keeps the promise of Answer: once it has returned, no goroutine
\* appends to the families or changes the error.
Abstract == INSTANCE Answer WITH families <- decoded, outcome <- outcome

ImplementsAnswer == Abstract!Spec

\* The exchange ends, even if the server never answers or stalls in the body:
\* the fairness of the forwards in Worker rests on it.  It may take the process
\* with it: with --verbose, or if the answer to a recording query is malformed.
ExchangeEnds == <>(pc = "returned" \/ (pc = "crashed" /\ (verbose \/ Malformed)))
-----------------------------------------------------------------------------
(* The inductive invariant.                                                *)

\* Where the goroutine can be at each point of withCancel: it runs only between
\* the head of an answer and the end of withCancel, which waits for it.
Phases ==
  /\ pc = "do" => fn = "none" /\ err = "none" /\ decoded = 0
  /\ pc = "crashed" => fn \in {"none", "panicked"}
  /\ fn = "panicked" => pc = "crashed"
  /\ pc \in {"spawned", "parked", "closing", "waiting"} => fn # "none"
  /\ pc \in {"finished", "returned"} => fn = "done" \/ (fn = "none" /\ err = "do")
  /\ fn = "none" <=> code = "none"
  /\ outcome # "none" <=> pc = "returned"
  /\ outcome = "ok" => err = "none"

\* The goroutine has seen the status once it goes on, and a bad one is in err,
\* which withCancel keeps.
StatusSeen ==
  /\ fn = "decode" => code = "200"
  /\ fn \in {"drain", "done"} /\ code = "other" => err = "status"

IndInv == TypeOK /\ Phases /\ StatusSeen
=============================================================================
