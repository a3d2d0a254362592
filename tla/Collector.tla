----------------------------- MODULE Collector -----------------------------
(***************************************************************************)
(* The process (cmd/metrics-collector/main.go): a run group of the Worker, *)
(* the SIGHUP loop and the HTTP server, and the reloads that the last two  *)
(* ask for.  The Worker is taken by its promise, AbstractWorker.           *)
(*                                                                         *)
(* The files that a configuration is read from (rules, token, salt, CA)    *)
(* have one version number, and New reads them one after the other outside *)
(* the Worker's lock, so that it may get a mixture of versions: a call, and *)
(* a configuration, is known by the oldest version among the files read.   *)
(* run.Group is github.com/oklog/run v1.1.0: once a member has returned,   *)
(* it interrupts all of them, one by one, and waits for all of them.       *)
(***************************************************************************)
EXTENDS Naturals, Sequences

CONSTANTS
  Handlers,  \* the goroutines that may serve a POST of /-/reload
  Listen,    \* --listen is given, so that there is an HTTP server
  MaxEdits,  \* bound: how often the files are edited
  MaxReloads \* bound: no reload is asked for after so many were installed

ASSUME CollectorAssumption ==
  /\ "hup" \notin Handlers
  /\ Listen \in BOOLEAN
  /\ MaxEdits \in Nat
  /\ MaxReloads \in Nat

VARIABLES
  (* the promise of the Worker *)
  installed, used, cancelled, stopped,
  stalled,     \* a forward waits for the API server, and holds the lock
  (* the files, and the configuration that was made of them *)
  disk,        \* the version of the files
  readable,    \* New accepts this version
  inForce,     \* the oldest version in the Worker's configuration
  (* reloads *)
  signalled,   \* the version on disk at the last SIGHUP
  buffer,      \* how many signals are in the channel hup, of capacity 1
  call,        \* where each call of Reconfigure is
  oldest,      \* the oldest version that New has read for the call so far
  got,         \* the oldest version that the last New of each caller has read
  (* the run group *)
  running,     \* the members that have not returned
  main,        \* "waiting", "interrupting" or "exited"
  interrupts,  \* how many members have been interrupted
  cause        \* why the first member returned

promised   == <<installed, used, cancelled, stopped>>
workerVars == <<promised, stalled>>
reloadVars == <<signalled, buffer, call, oldest, got>>
groupVars  == <<running, main, interrupts, cause>>
vars == <<workerVars, disk, readable, inForce, reloadVars, groupVars>>

W == INSTANCE AbstractWorker

\* The members in the order they are added to the group.
Members == IF Listen THEN <<"worker", "hup", "http">> ELSE <<"worker", "hup">>

AllMembers == {Members[k] : k \in DOMAIN Members}

Interrupted(a) == \E k \in 1..interrupts : Members[k] = a

Clients == {"hup"} \cup Handlers

VersionsType ==
  /\ disk \in 1..(MaxEdits + 1)
  /\ readable \in BOOLEAN
  /\ inForce \in 1..disk
  /\ stalled \in BOOLEAN

ReloadsType ==
  /\ signalled \in 0..disk
  /\ buffer \in 0..1
  /\ call \in [Clients -> {"idle", "read", "reading", "install"}]
  /\ oldest \in [Clients -> 0..disk]
  /\ got \in [Clients -> 0..disk]

GroupType ==
  /\ running \subseteq {"worker", "hup", "http"}
  /\ main \in {"waiting", "interrupting", "exited"}
  /\ interrupts \in 0..3
  /\ cause \in {"none", "reload failed", "server failed"}

TypeOK == VersionsType /\ ReloadsType /\ GroupType

\* forwarder.New has succeeded; version 1 is in force.
Init ==
  /\ W!Init /\ stalled = FALSE
  /\ disk = 1 /\ readable = TRUE /\ inForce = 1
  /\ signalled = 0 /\ buffer = 0
  /\ call = [p \in Clients |-> "idle"]
  /\ oldest = [p \in Clients |-> 0] /\ got = [p \in Clients |-> 0]
  /\ running = AllMembers
  /\ main = "waiting" /\ interrupts = 0 /\ cause = "none"

-----------------------------------------------------------------------------
(* The operator.                                                           *)

\* The files are edited, and may not make a valid configuration any more.
Edit ==
  /\ disk <= MaxEdits
  /\ disk' = disk + 1
  /\ readable' \in BOOLEAN
  /\ UNCHANGED <<workerVars, inForce, reloadVars, groupVars>>

\* A variant with a channel without a buffer: only a waiting loop gets it.
SignalUnbuffered ==
  /\ installed <= MaxReloads
  /\ signalled' = disk
  /\ buffer' = IF call["hup"] = "idle" THEN 1 ELSE buffer
  /\ UNCHANGED <<workerVars, disk, readable, inForce, call, oldest, got, groupVars>>

\* SIGHUP: signal.Notify drops it if the channel is full.
Signal ==
  /\ installed <= MaxReloads
  /\ signalled' = disk
  /\ buffer' = 1
  /\ UNCHANGED <<workerVars, disk, readable, inForce, call, oldest, got, groupVars>>

-----------------------------------------------------------------------------
(* Reloads.                                                                *)

\* The SIGHUP loop receives from the channel and calls Reconfigure.
Receive ==
  /\ "hup" \in running /\ call["hup"] = "idle" /\ buffer = 1
  /\ buffer' = 0
  /\ call' = [call EXCEPT !["hup"] = "read"]
  /\ UNCHANGED <<workerVars, disk, readable, inForce, signalled, oldest, got, groupVars>>

\* A handler of /-/reload calls Reconfigure.  The connections that are open
\* when the listener is closed go on.
Post(h) ==
  /\ Listen /\ call[h] = "idle"
  /\ installed <= MaxReloads
  /\ call' = [call EXCEPT ![h] = "read"]
  /\ UNCHANGED <<workerVars, disk, readable, inForce, signalled, buffer, oldest, got, groupVars>>

\* New reads the first file.  What it reads later is as new or newer.
BeginReading(p) ==
  /\ call[p] = "read"
  /\ oldest' = [oldest EXCEPT ![p] = disk]
  /\ call' = [call EXCEPT ![p] = "reading"]
  /\ UNCHANGED <<workerVars, disk, readable, inForce, signalled, buffer, got, groupVars>>

\* Whether New may accept what it reads for p, or refuse it: a mixture of two
\* versions may be either.
Accepts(p) == readable \/ oldest[p] # disk
Refuses(p) == ~readable \/ oldest[p] # disk

\* New has read the other files and has made the configuration.
ReadFiles(p) ==
  /\ call[p] = "reading" /\ Accepts(p)
  /\ got' = [got EXCEPT ![p] = oldest[p]]
  /\ oldest' = [oldest EXCEPT ![p] = 0]
  /\ call' = [call EXCEPT ![p] = "install"]
  /\ UNCHANGED <<workerVars, disk, readable, inForce, signalled, buffer, groupVars>>

\* A member of the group returns.
Ends(a, why) ==
  /\ running' = running \ {a}
  /\ cause' = IF cause = "none" /\ main = "waiting" THEN why ELSE cause
  /\ UNCHANGED <<main, interrupts>>

\* A variant in which a failed reload over HTTP stops the server.
ReloadFailsEverywhere(p) ==
  /\ call[p] = "reading" /\ Refuses(p)
  /\ oldest' = [oldest EXCEPT ![p] = 0]
  /\ call' = [call EXCEPT ![p] = "idle"]
  /\ IF p = "hup" THEN Ends("hup", "reload failed") ELSE Ends("http", "none")
  /\ UNCHANGED <<workerVars, disk, readable, inForce, signalled, buffer, got>>

\* New fails: the SIGHUP loop returns the error, a handler only answers 500.
ReloadFails(p) ==
  /\ call[p] = "reading" /\ Refuses(p)
  /\ oldest' = [oldest EXCEPT ![p] = 0]
  /\ call' = [call EXCEPT ![p] = "idle"]
  /\ IF p = "hup" THEN Ends("hup", "reload failed") ELSE UNCHANGED groupVars
  /\ UNCHANGED <<workerVars, disk, readable, inForce, signalled, buffer, got>>

\* Reconfigure gets the lock and installs what it has read.
Install(p) ==
  /\ call[p] = "install"
  /\ ~stalled /\ W!Reconfigure
  /\ inForce' = got[p]
  /\ call' = [call EXCEPT ![p] = "idle"]
  /\ UNCHANGED <<stalled, disk, readable, signalled, buffer, oldest, got, groupVars>>

\* The Worker forwards.
Forward ==
  /\ ~stalled /\ (W!Begin \/ W!Use)
  /\ UNCHANGED <<stalled, disk, readable, inForce, reloadVars, groupVars>>

\* A forward, which has read its configuration, calls UpdateStatus, which has
\* no deadline, with the lock held.
Stall ==
  /\ ~stalled /\ ~stopped /\ used = {installed}
  /\ stalled' = TRUE
  /\ UNCHANGED <<promised, disk, readable, inForce, reloadVars, groupVars>>

\* The API server answers.
Recover ==
  /\ stalled
  /\ stalled' = FALSE
  /\ UNCHANGED <<promised, disk, readable, inForce, reloadVars, groupVars>>

-----------------------------------------------------------------------------
(* The run group.                                                          *)

\* A member has returned: the group interrupts all of them.
FirstEnds ==
  /\ main = "waiting"
  /\ running # AllMembers
  /\ main' = "interrupting"
  /\ UNCHANGED <<workerVars, disk, readable, inForce, reloadVars, running, interrupts, cause>>

\* A variant of the group without the interrupt function of the Worker.
InterruptOthers ==
  /\ main = "interrupting" /\ interrupts < Len(Members)
  /\ interrupts' = interrupts + 1
  /\ UNCHANGED workerVars
  /\ UNCHANGED <<disk, readable, inForce, reloadVars, running, main, cause>>

\* The next one: cancel(), close(cancel) or l.Close().
Interrupt ==
  /\ main = "interrupting" /\ interrupts < Len(Members)
  /\ interrupts' = interrupts + 1
  /\ IF Members[interrupts + 1] = "worker" THEN W!Cancel ELSE UNCHANGED promised
  /\ UNCHANGED <<stalled, disk, readable, inForce, reloadVars, running, main, cause>>

\* worker.Run returns.
WorkerEnds ==
  /\ "worker" \in running
  /\ ~stalled /\ W!Stop
  /\ Ends("worker", "none")
  /\ UNCHANGED <<stalled, disk, readable, inForce, reloadVars>>

\* The SIGHUP loop receives from its channel cancel.
HupEnds ==
  /\ "hup" \in running /\ call["hup"] = "idle" /\ Interrupted("hup")
  /\ Ends("hup", "none")
  /\ UNCHANGED <<workerVars, disk, readable, inForce, reloadVars>>

\* http.Serve returns an error, of itself or because the listener is closed.
ServerEnds ==
  /\ "http" \in running
  /\ Ends("http", "server failed")
  /\ UNCHANGED <<workerVars, disk, readable, inForce, reloadVars>>

\* Every member has returned: so does g.Run, and the process ends.
Exit ==
  /\ main = "interrupting" /\ interrupts = Len(Members)
  /\ running = {}
  /\ main' = "exited"
  /\ UNCHANGED <<workerVars, disk, readable, inForce, reloadVars, running, interrupts, cause>>

Next ==
  /\ main # "exited"
  /\ \/ Edit \/ Signal \/ Receive \/ Forward \/ Stall \/ Recover
     \/ \E h \in Handlers : Post(h)
     \/ \E p \in Clients : BeginReading(p) \/ ReadFiles(p) \/ ReloadFails(p) \/ Install(p)
     \/ FirstEnds \/ Interrupt \/ WorkerEnds \/ HupEnds \/ ServerEnds \/ Exit

Spec == Init /\ [][Next]_vars

\* Goroutines run.  That a call of Reconfigure gets the lock, and that Run
\* returns once its context is cancelled, unless the API server stops to answer
\* for ever, is what Worker promises (ReconfigureReturns, CancelStopsRun):
\* strong fairness, for the API server may stall again and again, and none for
\* Recover.  A closed listener ends http.Serve; the select of the SIGHUP loop
\* is fair.
Fairness ==
  /\ WF_vars(Receive) /\ SF_vars(HupEnds)
  /\ \A p \in Clients : /\ WF_vars(BeginReading(p) \/ ReadFiles(p) \/ ReloadFails(p))
                         /\ SF_vars(Install(p))
  /\ WF_vars(FirstEnds) /\ WF_vars(Interrupt) /\ WF_vars(Exit)
  /\ SF_vars(WorkerEnds)
  /\ WF_vars(Interrupted("http") /\ ServerEnds)

FairSpec == Spec /\ Fairness

-----------------------------------------------------------------------------
(* Properties.                                                             *)

\* The process ends only because a reload that SIGHUP asked for failed or
\* because the server did: never by itself, and not because of a failed
\* reload over HTTP.
EndsForCause == running # AllMembers => cause # "none"

\* The API server never answers an UpdateStatus again.
WaitsForAPIServer == <>[]stalled

\* When one member has returned, the process ends, wherever the others are,
\* unless the Worker waits for the API server for ever: run.Group waits for
\* its Run, which does not see the cancellation.
EndsTogether == WaitsForAPIServer \/ (running # AllMembers ~> main = "exited")

\* No SIGHUP is lost, although signals are dropped while the channel is full:
\* the files as they were at the signal, or later ones, are read for it, unless
\* the process ends, or the SIGHUP loop waits for a lock that a forward keeps
\* because the API server does not answer.
SignalIsServed ==
  WaitsForAPIServer \/ \A v \in 1..(MaxEdits + 1) : signalled = v ~> (got["hup"] >= v \/ cause # "none")

Quiet == buffer = 0 /\ main = "waiting" /\ \A p \in Clients : call[p] = "idle"

\* When all reloads are done, nothing older is in force than the files that were
\* there at the last SIGHUP, unless a reload over HTTP installed it, which may
\* have read its files before and got the lock after.
SignalInForce ==
  Quiet /\ cause = "none" => inForce >= signalled \/ \E h \in Handlers : got[h] = inForce
-----------------------------------------------------------------------------
(* The inductive invariant.                                                *)

\* Nobody is interrupted, and nothing cancelled, before some member has ended
\* for a cause of its own.
GroupInv ==
  /\ main = "waiting" => interrupts = 0 /\ ~cancelled
  /\ main # "waiting" => cause # "none"
  /\ EndsForCause

\* Once the SIGHUP loop has read the files for the last signal it has received,
\* and no signal is waiting, it has read what was there at the last signal.
SignalRead ==
  buffer = 0 /\ cause = "none" =>
    /\ call["hup"] = "reading" => oldest["hup"] >= signalled
    /\ call["hup"] \notin {"read", "reading"} => got["hup"] >= signalled

\* What is in force was read by the call that installed it last, unless that
\* client has read the files again and is about to install them.
LastInstalled ==
  \/ \E p \in Clients : call[p] = "install" \/ got[p] = inForce
  \/ got["hup"] = 0

ReloadInv ==
  /\ \A p \in Clients : /\ call[p] = "reading" => oldest[p] >= 1
                        /\ call[p] = "install" => got[p] >= 1
  /\ SignalRead
  /\ LastInstalled

IndInv == TypeOK /\ GroupInv /\ ReloadInv
=============================================================================
