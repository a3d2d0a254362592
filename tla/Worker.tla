------------------------------- MODULE Worker -------------------------------
(***************************************************************************)
(* The forwarding agent of the metrics collector                           *)
(* (pkg/forwarder/forwarder.go).                                           *)
(*                                                                         *)
(* Four kinds of goroutines meet in one Worker:                            *)
(*   - the Run loop, which forwards once, then sleeps in a select until    *)
(*     the context is cancelled, the timer fires or it is woken up;        *)
(*   - the callers of Reconfigure (the SIGHUP loop and the handlers of     *)
(*     /-/reload), which install a new configuration field by field;       *)
(*   - the senders that Reconfigure spawns, each blocked on the            *)
(*     unbuffered channel `reconfigure` until the Run loop receives;       *)
(*   - the callers of LastMetrics (the handlers of /federate), which go on *)
(*     reading the families they got after the lock is released.           *)
(*                                                                         *)
(* A configuration is abstracted to the generation it belongs to: a field  *)
(* of the Worker holds the generation that last assigned it.  A slice of   *)
(* metric families is abstracted to the processing stage it has reached.   *)
(***************************************************************************)
EXTENDS Naturals, Sequences, FiniteSets

CONSTANTS
  Runner,        \* the goroutine that executes Run
  Callers,       \* the goroutines that may call Reconfigure
  Readers,       \* the goroutines that may call LastMetrics
  Batches,       \* the identities of the slices of metric families
  Modes,         \* where the families may come from, see mode
  NoUpload,      \* the generations whose configuration has no ToUpload
  MaxReconfigs,  \* bound: how many calls of Reconfigure may succeed
  None,          \* the nil slice, and the owner of a free lock
  Minute         \* the wait of one minute that follows a failed forward

\* The identities are distinct, and a slice can always be allocated.
ASSUME WorkerAssumption ==
  /\ Runner \notin Callers
  /\ None \notin Callers \cup {Runner}
  /\ None \notin Batches
  /\ Minute \notin Nat
  /\ Modes \subseteq {"file", "simulate", "scrape"}
  /\ NoUpload \subseteq Nat
  /\ MaxReconfigs \in Nat

VARIABLES
  (* shared by the goroutines; `lock` guards the rest of this group *)
  lock,         \* the goroutine that holds w.lock, or None
  field,        \* the generation that last assigned each field
  lastMetrics,  \* w.lastMetrics
  pending,      \* how many senders are blocked on w.reconfigure
  ctxDone,      \* the context of Run is cancelled
  content,      \* the stage each slice of families has reached
  (* the Run loop *)
  pc,           \* where the Run loop is
  wait,         \* its local variable wait: a generation's interval, or Minute
  batch,        \* its local variable families
  mode,         \* the source of families, fixed when the process starts
  outcome,      \* what the last call of forward returned
  (* the callers of Reconfigure and of LastMetrics *)
  rpc,          \* where each caller of Reconfigure is
  assigned,     \* how many fields the caller that holds the lock has assigned
  reader,       \* where each caller of LastMetrics is
  snap,         \* the slice each caller of LastMetrics got
  (* the condition that is True in the ObservabilityAddon *)
  report,       \* the message of the UpdateStatus in progress, or "none"
  status,       \* the message of the condition
  stale,        \* the last UpdateStatus returned an error
  (* history *)
  installed,    \* the generation installed last
  used          \* the generations the current or last forward has read

runVars    == <<pc, wait, batch, outcome>>
callerVars == <<rpc, assigned>>
readerVars == <<reader, snap>>
statusVars == <<report, status, stale>>

vars == <<lock, field, lastMetrics, pending, ctxDone, content, pc, wait,
          batch, mode, outcome, rpc, assigned, reader, snap, report,
          status, stale, installed, used>>

-----------------------------------------------------------------------------
(* Configuration fields, slices of families, status messages.              *)

\* The fields that Reconfigure assigns, in the order it assigns them.
FieldOrder == <<"fromClient", "toClient", "interval", "from", "to",
                "transformer", "rules", "recordingRules">>

Reconfigured == {FieldOrder[i] : i \in 1..8}

\* The fields of a Worker that come from its Config.
Fields == Reconfigured \cup {"simulatedTimeseriesFile"}

\* "void" is the nil slice a failed simulation file leaves; "partial" is what
\* a transformer that failed half-way leaves; "packed" holds some metric.
Stages == {"raw", "void", "partial", "filtered", "packed", "empty"}

Degraded  == {"retrieve failed", "recording failed", "filter failed", "send failed"}
Available == {"nothing to send", "not required to send", "sent"}

\* The Run loop holds the lock at these points of forward().
Forwarding == {"fetch", "federating", "recording", "filter", "pack", "publish", "report",
               "reporting"}

\* A variant in which a Reconfigure does not wait for a forward in progress.
CanLockUnlessCaller(p) == lock = None \/ (lock = Runner /\ p \in Callers)

\* Whether goroutine p may take w.lock.
CanLock(p) == lock = None

\* The slices that LastMetrics can hand out, or that a handler still encodes.
Served == {lastMetrics} \cup {snap[r] : r \in Readers}

\* A new slice: one that nobody can reach any more.
Fresh == Batches \ (Served \cup {batch})

TypeOK ==
  /\ lock \in Callers \cup {Runner, None}
  /\ field \in [Fields -> Nat]
  /\ lastMetrics \in Batches \cup {None}
  /\ pending \in Nat
  /\ ctxDone \in BOOLEAN
  /\ content \in [Batches -> Stages]
  /\ pc \in {"top", "lock", "select", "done"} \cup Forwarding
  /\ wait \in Nat \cup {Minute}
  /\ batch \in Batches \cup {None}
  /\ mode \in Modes
  /\ outcome \in {"none", "ok", "error"}
  /\ rpc \in [Callers -> {"idle", "new", "lock", "assign", "unlock"}]
  /\ assigned \in 0..8
  /\ reader \in [Readers -> {"idle", "lock", "encode"}]
  /\ snap \in [Readers -> Batches \cup {None}]
  /\ report \in Degraded \cup Available \cup {"none"}
  /\ pc = "reporting" <=> report # "none"
  /\ status \in Degraded \cup Available \cup {"unset"}
  /\ stale \in BOOLEAN
  /\ installed \in Nat
  /\ used \subseteq Nat

\* The state of a Worker that New returned: generation 1 is installed.
Init ==
  /\ lock = None
  /\ field = [f \in Fields |-> 1]
  /\ lastMetrics = None
  /\ pending = 0
  /\ ctxDone = FALSE
  /\ content = [b \in Batches |-> "raw"]
  /\ pc = "top"
  /\ wait = 1
  /\ batch = None
  /\ mode \in Modes
  /\ outcome = "none"
  /\ rpc = [c \in Callers |-> "idle"]
  /\ assigned = 0
  /\ reader = [r \in Readers |-> "idle"]
  /\ snap = [r \in Readers |-> None]
  /\ report = "none"
  /\ status = "unset"
  /\ stale = FALSE
  /\ installed = 1
  /\ used = {}

-----------------------------------------------------------------------------
(* Pieces of forward().                                                    *)

\* forward() reads some fields of the Worker.
Read(fs) == used' = used \cup {field[f] : f \in fs}

\* forward() returns: the deferred Unlock, then the error branch of Run.
Return(result) ==
  /\ lock' = None
  /\ pc' = "select"
  /\ outcome' = result
  /\ wait' = IF result = "error" THEN Minute ELSE wait
  /\ batch' = None

\* The steps of forward() leave the other goroutines alone.
ForwardFrame == UNCHANGED <<field, pending, ctxDone, mode, callerVars, readerVars,
                            installed>>

Goto(label) == pc' = label /\ UNCHANGED <<lock, wait, outcome>>

\* w.status.UpdateStatus, by what StatusReport is shown to implement.
Addon == INSTANCE AddonStatus WITH Messages <- Degraded \cup Available, call <- report

\* forward() calls UpdateStatus and waits for it, with the lock held.
UpdateStatus(message) ==
  /\ Addon!Call(message)
  /\ Goto("reporting")
  /\ UNCHANGED batch

-----------------------------------------------------------------------------
(* The Run loop.                                                           *)

\* `wait := w.interval`, in a critical section of its own.
ReadInterval ==
  /\ pc = "top"
  /\ CanLock(Runner)
  /\ wait' = field["interval"]
  /\ pc' = "lock"
  /\ UNCHANGED <<lock, batch, outcome, lastMetrics, content,
                 used, statusVars>>
  /\ ForwardFrame

BeginForward ==
  /\ pc = "lock"
  /\ CanLock(Runner)
  /\ lock' = Runner
  /\ pc' = "fetch"
  /\ used' = {}
  /\ UNCHANGED <<wait, batch, outcome, lastMetrics, content,
                 statusVars>>
  /\ ForwardFrame

\* families is a slice that was just allocated; unreachable ones are collected.
Allocate(stage) ==
  \E b \in Fresh :
    /\ batch' = b
    /\ content' = [x \in Batches |-> IF x = b THEN stage
                                    ELSE IF x \in Fresh THEN "raw" ELSE content[x]]

\* simulator.FetchSimulatedTimeseries (its error is logged, and families is
\* nil) and simulator.SimulateMetrics.
FetchSimulated ==
  /\ pc = "fetch"
  /\ \/ mode = "file" /\ Allocate("raw")
     \/ mode = "file" /\ Allocate("void")
     \/ mode = "simulate" /\ Allocate("raw")
  /\ Goto("filter")
  /\ UNCHANGED <<lastMetrics, used, statusVars>>
  /\ ForwardFrame

\* getFederateMetrics builds its request.  Retrieve fails at once when the
\* context is done already.
BeginFederate ==
  /\ pc = "fetch" /\ mode = "scrape"
  /\ ~ctxDone
  /\ Read({"from", "rules", "fromClient"})
  /\ Goto("federating")
  /\ UNCHANGED <<batch, lastMetrics, content, statusVars>>
  /\ ForwardFrame

\* The answer may come first even if the context is cancelled meanwhile.
FederateSucceeds ==
  /\ pc = "federating"
  /\ Allocate("raw")
  /\ Goto("recording")
  /\ UNCHANGED <<lastMetrics, used, statusVars>>
  /\ ForwardFrame

FederateFails ==
  /\ \/ pc = "federating" /\ UNCHANGED used
     \/ pc = "fetch" /\ mode = "scrape" /\ ctxDone /\ Read({"from", "rules", "fromClient"})
  /\ UpdateStatus("retrieve failed")
  /\ UNCHANGED <<lastMetrics, content>>
  /\ ForwardFrame

\* getRecordingMetrics queries every recording rule (see module Rules).  After
\* an error the families of all the rules are left out, and forward goes on.
QueryRecordingRules ==
  /\ pc = "recording"
  /\ Read({"from", "recordingRules", "fromClient"})
  /\ \/ Goto("filter") /\ UNCHANGED <<batch, statusVars>>
     \/ UpdateStatus("recording failed")
  /\ UNCHANGED <<lastMetrics, content>>
  /\ ForwardFrame

\* A variant that hands the families out before they are packed.
FilterPublishes ==
  /\ pc = "filter"
  /\ Read({"transformer"})
  /\ content' = [content EXCEPT ![batch] = IF @ = "void" THEN "void" ELSE "filtered"]
  /\ lastMetrics' = batch
  /\ Goto("pack")
  /\ UNCHANGED <<batch, statusVars>>
  /\ ForwardFrame

\* metricfamily.Filter rewrites the families in place.
FilterSucceeds ==
  /\ pc = "filter"
  /\ Read({"transformer"})
  /\ content' = [content EXCEPT ![batch] = IF @ = "void" THEN "void" ELSE "filtered"]
  /\ Goto("pack")
  /\ UNCHANGED <<batch, lastMetrics, statusVars>>
  /\ ForwardFrame

\* A variant that hands out what a failed transformer left behind.
FilterFailurePublishes ==
  /\ pc = "filter" /\ content[batch] # "void"
  /\ Read({"transformer"})
  /\ content' = [content EXCEPT ![batch] = "partial"]
  /\ UpdateStatus("filter failed")
  /\ lastMetrics' = batch
  /\ ForwardFrame

\* A transformer returns an error: the families before it are rewritten.
FilterFails ==
  /\ pc = "filter" /\ content[batch] # "void"
  /\ Read({"transformer"})
  /\ content' = [content EXCEPT ![batch] = "partial"]
  /\ UpdateStatus("filter failed")
  /\ UNCHANGED <<lastMetrics>>
  /\ ForwardFrame

\* metricfamily.Pack, in place too; every family may have been dropped.
Pack ==
  /\ pc = "pack"
  /\ \E stage \in {"packed", "empty"} :
       /\ content[batch] = "void" => stage = "empty"
       /\ content' = [content EXCEPT ![batch] = stage]
  /\ Goto("publish")
  /\ UNCHANGED <<batch, lastMetrics, used, statusVars>>
  /\ ForwardFrame

\* `w.lastMetrics = families`
Publish ==
  /\ pc = "publish"
  /\ lastMetrics' = batch
  /\ Goto("report")
  /\ UNCHANGED <<batch, content, used, statusVars>>
  /\ ForwardFrame

NothingToSend ==
  /\ pc = "report" /\ content[batch] = "empty"
  /\ UpdateStatus("nothing to send")
  /\ UNCHANGED <<lastMetrics, content, used>>
  /\ ForwardFrame

NotRequiredToSend ==
  /\ pc = "report" /\ content[batch] # "empty"
  /\ field["to"] \in NoUpload
  /\ Read({"to"})
  /\ UpdateStatus("not required to send")
  /\ UNCHANGED <<lastMetrics, content>>
  /\ ForwardFrame

\* forward() calls RemoteWrite, which does not look at the context.
RemoteWrite ==
  /\ pc = "report" /\ content[batch] # "empty"
  /\ field["to"] \notin NoUpload
  /\ Read({"to", "toClient", "interval"})
  /\ UNCHANGED <<lastMetrics, content>>
  /\ ForwardFrame

\* A success is not reported for families that come from a file.
RemoteWriteSucceeds ==
  /\ RemoteWrite
  /\ IF mode = "file" THEN Return("ok") /\ UNCHANGED statusVars
     ELSE UpdateStatus("sent")

RemoteWriteFails == RemoteWrite /\ UpdateStatus("send failed")

ForwardStep ==
  \/ FetchSimulated \/ BeginFederate \/ FederateSucceeds \/ FederateFails
  \/ QueryRecordingRules
  \/ FilterSucceeds \/ FilterFails \/ Pack \/ Publish
  \/ NothingToSend \/ NotRequiredToSend \/ RemoteWriteSucceeds \/ RemoteWriteFails

\* The call of UpdateStatus in progress returns.  Its error is only logged.
StatusReturns ==
  /\ pc = "reporting"
  /\ Addon!Return
  /\ UNCHANGED <<lastMetrics, content, used>>
  /\ ForwardFrame

\* A variant that returns the error of UpdateStatus instead of its own.
StatusHidesError ==
  /\ StatusReturns
  /\ IF report = "recording failed" THEN Goto("filter") /\ UNCHANGED batch
     ELSE Return(IF stale' THEN "error" ELSE "ok")

\* A variant that tries again, without a bound, after every failure to send.
StatusThenRetry ==
  /\ StatusReturns
  /\ CASE report = "recording failed" -> Goto("filter") /\ UNCHANGED batch
       [] report = "send failed"      -> Goto("report") /\ UNCHANGED batch
       [] OTHER -> Return(IF report \in Degraded THEN "error" ELSE "ok")

\* forward() returns its own error, or goes on if only recording rules failed.
UpdateStatusReturns ==
  /\ StatusReturns
  /\ \/ report = "recording failed" /\ Goto("filter") /\ UNCHANGED batch
     \/ report \in Degraded \ {"recording failed"} /\ Return("error")
     \/ report \in Available /\ Return("ok")

-----------------------------------------------------------------------------
(* The select of Run: any of its ready cases may be chosen.                *)

SelectFrame == UNCHANGED <<lock, field, lastMetrics, ctxDone, content, wait, batch, mode, outcome, callerVars, readerVars, statusVars,
                           installed, used>>

Stop ==
  /\ pc = "select" /\ ctxDone
  /\ pc' = "done"
  /\ UNCHANGED pending
  /\ SelectFrame

TimerFires ==
  /\ pc = "select"
  /\ pc' = "top"
  /\ UNCHANGED pending
  /\ SelectFrame

\* A variant that receives from a closed channel.
WakeWithoutSender ==
  /\ pc = "select"
  /\ pc' = "top"
  /\ pending' = pending - 1
  /\ SelectFrame

\* A variant that looks at the channel without receiving from it.
WakeKeepsSender ==
  /\ pc = "select" /\ pending > 0
  /\ pc' = "top"
  /\ UNCHANGED pending
  /\ SelectFrame

\* The Run loop receives from w.reconfigure, and one sender is done.
Wake ==
  /\ pc = "select" /\ pending > 0
  /\ pc' = "top"
  /\ pending' = pending - 1
  /\ SelectFrame

\* The context of Run is cancelled by its owner.
Cancel ==
  /\ ~ctxDone
  /\ ctxDone' = TRUE
  /\ UNCHANGED <<lock, field, lastMetrics, pending, content, runVars, mode,
                 callerVars, readerVars, statusVars, installed, used>>

-----------------------------------------------------------------------------
(* Reconfigure.                                                            *)

CallerFrame == UNCHANGED <<lastMetrics, ctxDone, content, runVars, mode,
                           readerVars, statusVars, used>>

\* A call starts with New(cfg), outside the lock.
CallReconfigure(c) ==
  /\ rpc[c] = "idle"
  /\ installed + Cardinality({d \in Callers : rpc[d] # "idle"}) <= MaxReconfigs
  /\ rpc' = [rpc EXCEPT ![c] = "new"]
  /\ UNCHANGED <<lock, field, pending, assigned, installed>>
  /\ CallerFrame

\* New rejects the configuration: Reconfigure returns its error.
NewFails(c) ==
  /\ rpc[c] = "new"
  /\ rpc' = [rpc EXCEPT ![c] = "idle"]
  /\ UNCHANGED <<lock, field, pending, assigned, installed>>
  /\ CallerFrame

NewSucceeds(c) ==
  /\ rpc[c] = "new"
  /\ rpc' = [rpc EXCEPT ![c] = "lock"]
  /\ UNCHANGED <<lock, field, pending, assigned, installed>>
  /\ CallerFrame

LockReconfigure(c) ==
  /\ rpc[c] = "lock"
  /\ CanLock(c)
  /\ lock' = c
  /\ assigned' = 0
  /\ rpc' = [rpc EXCEPT ![c] = "assign"]
  /\ UNCHANGED <<field, pending, installed>>
  /\ CallerFrame

\* The next of the eight assignments `w.x = worker.x`.
AssignField(c) ==
  /\ rpc[c] = "assign" /\ assigned < 8
  /\ field' = [field EXCEPT ![FieldOrder[assigned + 1]] = installed + 1]
  /\ assigned' = assigned + 1
  /\ UNCHANGED <<lock, rpc, pending, installed>>
  /\ CallerFrame

\* A variant that signals only a Run loop that is already waiting.
SignalIfSleeping(c) ==
  /\ rpc[c] = "assign" /\ assigned = 8
  /\ pending' = IF pc = "select" THEN pending + 1 ELSE pending
  /\ installed' = installed + 1
  /\ rpc' = [rpc EXCEPT ![c] = "unlock"]
  /\ UNCHANGED <<lock, field, assigned>>
  /\ CallerFrame

\* A variant that signals on the channel of the Worker that New returned.
SignalToNewWorker(c) ==
  /\ rpc[c] = "assign" /\ assigned = 8
  /\ installed' = installed + 1
  /\ rpc' = [rpc EXCEPT ![c] = "unlock"]
  /\ UNCHANGED <<lock, field, pending, assigned>>
  /\ CallerFrame

\* `go func() { w.reconfigure <- struct{}{} }()`: the sender is blocked until
\* the Run loop receives.  The configuration is now complete.
Signal(c) ==
  /\ rpc[c] = "assign" /\ assigned = 8
  /\ pending' = pending + 1
  /\ installed' = installed + 1
  /\ rpc' = [rpc EXCEPT ![c] = "unlock"]
  /\ UNCHANGED <<lock, field, assigned>>
  /\ CallerFrame

UnlockReconfigure(c) ==
  /\ rpc[c] = "unlock"
  /\ lock' = None
  /\ rpc' = [rpc EXCEPT ![c] = "idle"]
  /\ UNCHANGED <<field, pending, assigned, installed>>
  /\ CallerFrame

-----------------------------------------------------------------------------
(* LastMetrics, and the handler that encodes what it returned.             *)

ReaderFrame == UNCHANGED <<lock, field, lastMetrics, pending, ctxDone, content,
                           runVars, mode, callerVars, statusVars, installed, used>>

CallLastMetrics(r) ==
  /\ reader[r] = "idle"
  /\ reader' = [reader EXCEPT ![r] = "lock"]
  /\ UNCHANGED snap
  /\ ReaderFrame

ReadLastMetrics(r) ==
  /\ reader[r] = "lock"
  /\ CanLock(r)
  /\ snap' = [snap EXCEPT ![r] = lastMetrics]
  /\ reader' = [reader EXCEPT ![r] = "encode"]
  /\ ReaderFrame

\* The response is written; the handler drops its reference.
FinishEncoding(r) ==
  /\ reader[r] = "encode"
  /\ snap' = [snap EXCEPT ![r] = None]
  /\ reader' = [reader EXCEPT ![r] = "idle"]
  /\ ReaderFrame

-----------------------------------------------------------------------------

RunStep == ReadInterval \/ BeginForward \/ ForwardStep \/ UpdateStatusReturns \/ Stop \/ TimerFires \/ Wake

CallerStep(c) ==
  \/ CallReconfigure(c) \/ NewFails(c) \/ NewSucceeds(c) \/ LockReconfigure(c)
  \/ AssignField(c) \/ Signal(c) \/ UnlockReconfigure(c)

ReaderStep(r) == CallLastMetrics(r) \/ ReadLastMetrics(r) \/ FinishEncoding(r)

Next ==
  \/ RunStep
  \/ Cancel
  \/ \E c \in Callers : CallerStep(c)
  \/ \E r \in Readers : ReaderStep(r)

Spec == Init /\ [][Next]_vars

(***************************************************************************)
(* Fairness.  A goroutine that can run does run: weak fairness for steps   *)
(* that stay enabled; the scrape, the recording queries and the remote     *)
(* write inside forward() have deadlines of their own.  UpdateStatus has   *)
(* none: it talks to the API server with context.TODO() and a client       *)
(* without a timeout, so that UpdateStatusReturns has no fairness.         *)
(* sync.Mutex hands the lock to a waiter that starves, and select chooses  *)
(* uniformly among its ready cases: strong fairness for taking the lock,   *)
(* for receiving from a sender and for leaving when the context is done.   *)
(* Nothing makes a caller call, a client read its response, or the owner   *)
(* cancel the context.  The timer has no fairness on purpose: no promise   *)
(* below may rest on it.                                                   *)
(***************************************************************************)
Fairness ==
  /\ SF_vars(ReadInterval) /\ SF_vars(BeginForward)
  /\ WF_vars(ForwardStep)
  /\ SF_vars(Stop) /\ SF_vars(Wake)
  /\ \A c \in Callers :
       /\ WF_vars(NewFails(c) \/ NewSucceeds(c))
       /\ SF_vars(LockReconfigure(c))
       /\ WF_vars(AssignField(c) \/ Signal(c) \/ UnlockReconfigure(c))
  /\ \A r \in Readers : SF_vars(ReadLastMetrics(r))

FairSpec == Spec /\ Fairness

-----------------------------------------------------------------------------
(* Safety.                                                                 *)

\* A forward works with one configuration, the one installed when it began:
\* no Reconfigure changes a field between two reads of the same forward
\* (forward and Reconfigure hold w.lock throughout).
NoTornConfig ==
  /\ \A g, h \in used : g = h
  /\ pc \in Forwarding => used \subseteq {installed}

\* No wake-up is lost.  While the Run loop sleeps, if its last forward used,
\* or the interval it waits for belongs to, an older configuration than the
\* installed one, a sender is there to interrupt the sleep: although the
\* interval is read in another critical section than the one forward() uses,
\* and although Reconfigure may run before, during or after the forward.
StaleSleepIsInterrupted ==
  pc = "select" /\ (used # {installed} \/ wait \notin {installed, Minute}) => pending > 0

\* LastMetrics never hands out families that the transformers (which elide,
\* anonymize and drop samples) have not fully processed.
ServedOnlyProcessed == \A b \in Served \ {None} : content[b] \in {"packed", "empty"}

\* A slice that LastMetrics can hand out, or that a handler still encodes
\* without the lock, is never modified, whatever later forwards do.
ServedIsImmutable == [][\A b \in Served \ {None} : content'[b] = content[b]]_vars

\* While the Run loop sleeps, the condition in the ObservabilityAddon tells
\* how the last forward ended, unless the last update of it failed; except
\* that a success on simulated files is never reported, so that there an
\* earlier Degraded may stay.
StatusTellsOutcome ==
  pc = "select" /\ ~stale =>
    /\ outcome = "error" => status \in Degraded
    /\ outcome = "ok" /\ mode # "file" => status \in Available

-----------------------------------------------------------------------------
(* The inductive invariant behind NoTornConfig and StaleSleepIsInterrupted *)

\* The lock is held exactly by the goroutine that is in a critical section.
LockDiscipline ==
  /\ lock = Runner <=> pc \in Forwarding
  /\ \A c \in Callers : lock = c <=> rpc[c] \in {"assign", "unlock"}

\* The fields belong to the installed generation, but for those that the
\* Reconfigure in progress has assigned.
FieldsFollowLock ==
  \A i \in 1..8 :
    field[FieldOrder[i]] = IF (\E c \in Callers : rpc[c] = "assign") /\ i <= assigned
                           THEN installed + 1 ELSE installed

\* Any generation older than the installed one that the Run loop has read for
\* its current round came with a sender that it has not received from.
StaleReadsHaveSender ==
  /\ pc \notin {"top", "done"} /\ wait \notin {installed, Minute} => pending > 0
  /\ pc = "select" /\ used # {installed} => pending > 0
  /\ pc \in Forwarding \ {"fetch", "filter"} => used = {installed}

IndInv == TypeOK /\ LockDiscipline /\ FieldsFollowLock /\ StaleReadsHaveSender /\ NoTornConfig

-----------------------------------------------------------------------------
(* The inductive invariant behind ServedOnlyProcessed and ServedIsImmutable *)

\* The slice that a forward rewrites is one that nobody else can reach, and it
\* is processed before it is handed out.
Ownership ==
  /\ pc \in {"recording", "filter", "pack", "publish"} => batch \in Batches \ Served
  /\ report = "recording failed" => batch \in Batches \ Served
  /\ pc = "publish" => content[batch] \in {"packed", "empty"}

ServingInv == TypeOK /\ Ownership /\ ServedOnlyProcessed

-----------------------------------------------------------------------------
(* What a Worker promises its owner: AbstractWorker.                       *)

Abstract == INSTANCE AbstractWorker WITH
  installed <- installed, used <- used, cancelled <- ctxDone, stopped <- (pc = "done")

\* Every step of the Worker is a step of AbstractWorker or a stutter.
ImplementsAbstract == Abstract!Spec

\* A forward waits for the API server for ever, with the lock held.  Then
\* the Run loop, Reconfigure and LastMetrics stand still: what follows is
\* promised only if every call of UpdateStatus returns.
WaitsForAPIServer == <>[](pc = "reporting")

\* A configuration that Reconfigure installed is used by some forward, even
\* if the timer never fires, unless the context is cancelled first or the
\* API server stops to answer.
ConfigApplied == WaitsForAPIServer \/ Abstract!NewConfigUsed

\* Run returns once its context is cancelled, even if it is cancelled while a
\* forward is in progress and senders are waiting; a call of UpdateStatus that
\* hangs is the one thing that keeps it, for it does not see the context.
CancelStopsRun == WaitsForAPIServer \/ Abstract!CancelStops

\* The goroutines that Reconfigure spawns to send do not pile up: as long as
\* Run goes on, all of them come to an end, although one round of the Run loop
\* receives from one only.  Those that are left when Run returns stay blocked,
\* and so do all of them if the API server stops to answer.
SendersDrain == WaitsForAPIServer \/ (pending > 0 ~> (pending = 0 \/ ctxDone))

\* A call of Reconfigure returns, although a forward holds the lock across
\* all its HTTP exchanges, unless one of them is an UpdateStatus that hangs.
ReconfigureReturns ==
  WaitsForAPIServer \/ \A c \in Callers : rpc[c] = "new" ~> rpc[c] = "idle"
=============================================================================
