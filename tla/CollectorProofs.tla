--------------------------- MODULE CollectorProofs ---------------------------
(***************************************************************************)
(* Proofs about Collector for any number of handlers, edits and reloads,   *)
(* with and without an HTTP server.                                        *)
(***************************************************************************)
EXTENDS Collector, TLAPS

LEMMA MembersType == AllMembers \subseteq {"worker", "hup", "http"}
<1>1. CASE Listen
  BY <1>1 DEF Members, AllMembers
<1>2. CASE ~Listen
  BY <1>2 DEF Members, AllMembers
<1>. QED  BY <1>1, <1>2

LEMMA InitIndInv == Init => IndInv
<1>. SUFFICES ASSUME Init PROVE IndInv
  OBVIOUS
<1>1. TypeOK
  <2>1. GroupType
    BY MembersType DEF Init, GroupType
  <2>2. ReloadsType
    BY DEF Init, ReloadsType
  <2>3. VersionsType
    <3>1. disk \in 1..(MaxEdits + 1) /\ inForce \in 1..disk
      BY CollectorAssumption DEF Init
    <3>2. readable = TRUE /\ stalled = FALSE
      BY DEF Init
    <3>. QED  BY <3>1, <3>2 DEF VersionsType
  <2>. QED  BY <2>1, <2>2, <2>3 DEF TypeOK
<1>2. GroupInv
  BY DEF Init, W!Init, GroupInv, EndsForCause
<1>3. ReloadInv
  BY DEF Init, ReloadInv, SignalRead, LastInstalled, Clients
<1>. QED  BY <1>1, <1>2, <1>3 DEF IndInv

-----------------------------------------------------------------------------
(* Type correctness.                                                       *)

LEMMA GroupStepType == IndInv /\ [Next]_vars => GroupType'
<1>. SUFFICES ASSUME IndInv, [Next]_vars PROVE GroupType'
  OBVIOUS
<1>0. GroupType
  BY DEF IndInv, TypeOK
<1>1. ASSUME UNCHANGED groupVars
      PROVE  GroupType'
  BY <1>0, <1>1 DEF GroupType, groupVars
<1>2. ASSUME NEW a, NEW why \in {"none", "reload failed", "server failed"}, Ends(a, why)
      PROVE  GroupType'
  BY <1>0, <1>2 DEF GroupType, Ends
<1>3. CASE Edit \/ Signal \/ Receive \/ Forward \/ Stall \/ Recover \/ UNCHANGED vars
  BY <1>1, <1>3 DEF Edit, Signal, Receive, Forward, Stall, Recover, vars
<1>4. ASSUME NEW h \in Handlers, Post(h)
      PROVE  GroupType'
  BY <1>1, <1>4 DEF Post
<1>5. ASSUME NEW p \in Clients,
             BeginReading(p) \/ ReadFiles(p) \/ ReloadFails(p) \/ Install(p)
      PROVE  GroupType'
  BY <1>1, <1>2, <1>5 DEF BeginReading, ReadFiles, ReloadFails, Install
<1>6. CASE FirstEnds \/ Exit
  BY <1>0, <1>6 DEF FirstEnds, Exit, GroupType
<1>7. CASE Interrupt
  <2>1. interrupts \in 0..3 /\ interrupts < Len(Members) /\ interrupts' = interrupts + 1
    BY <1>0, <1>7 DEF Interrupt, GroupType
  <2>2. interrupts < 3
    BY <2>1 DEF Members
  <2>3. interrupts' \in 0..3
    BY <2>1, <2>2
  <2>. QED  BY <1>0, <1>7, <2>3 DEF Interrupt, GroupType
<1>8. CASE WorkerEnds \/ HupEnds \/ ServerEnds
  BY <1>2, <1>8 DEF WorkerEnds, HupEnds, ServerEnds
<1>. QED
  BY <1>3, <1>4, <1>5, <1>6, <1>7, <1>8 DEF Next

LEMMA ReloadStepType ==
  ASSUME IndInv, [Next]_vars
  PROVE  VersionsType' /\ ReloadsType'
<1>. USE CollectorAssumption DEF VersionsType, ReloadsType
<1>0. VersionsType /\ ReloadsType /\ "hup" \in Clients /\ Handlers \subseteq Clients
  BY DEF IndInv, TypeOK, Clients
<1>1. ASSUME UNCHANGED <<disk, readable, inForce, stalled, reloadVars>>
      PROVE  VersionsType' /\ ReloadsType'
  BY <1>0, <1>1 DEF reloadVars
<1>2. CASE Forward \/ FirstEnds \/ Interrupt \/ WorkerEnds \/ HupEnds \/ ServerEnds \/ Exit
           \/ UNCHANGED vars
  BY <1>1, <1>2 DEF Forward, FirstEnds, Interrupt, WorkerEnds, HupEnds, ServerEnds, Exit, vars,
                    workerVars
<1>3. CASE Edit \/ Stall \/ Recover
  <2>1. CASE Edit
    <3>1. /\ disk <= MaxEdits /\ disk' = disk + 1 /\ readable' \in BOOLEAN
          /\ UNCHANGED <<stalled, inForce, signalled, buffer, call, oldest, got>>
      BY <2>1 DEF Edit, reloadVars, workerVars
    <3>2. disk' \in 1..(MaxEdits + 1) /\ 1..disk \subseteq 1..disk' /\ 0..disk \subseteq 0..disk'
      BY <1>0, <3>1
    <3>3. VersionsType'
      BY <1>0, <3>1, <3>2
    <3>4. oldest' \in [Clients -> 0..disk'] /\ got' \in [Clients -> 0..disk']
      BY <1>0, <3>1, <3>2
    <3>. QED  BY <1>0, <3>1, <3>2, <3>3, <3>4
  <2>2. CASE Stall \/ Recover
    BY <1>0, <2>2 DEF Stall, Recover, reloadVars
  <2>. QED  BY <1>3, <2>1, <2>2
<1>4. CASE Signal \/ Receive
  BY <1>0, <1>4 DEF Signal, Receive, workerVars
<1>5. ASSUME NEW h \in Handlers, Post(h)
      PROVE  VersionsType' /\ ReloadsType'
  BY <1>0, <1>5 DEF Post, workerVars
<1>6. ASSUME NEW p \in Clients, BeginReading(p) \/ ReadFiles(p) \/ ReloadFails(p)
      PROVE  VersionsType' /\ ReloadsType'
  <2>1. CASE BeginReading(p)
    BY <1>0, <2>1 DEF BeginReading, workerVars
  <2>2. CASE ReadFiles(p)
    BY <1>0, <2>2 DEF ReadFiles, workerVars
  <2>3. CASE ReloadFails(p)
    <3>1. /\ oldest' = [oldest EXCEPT ![p] = 0] /\ call' = [call EXCEPT ![p] = "idle"]
          /\ UNCHANGED <<stalled, disk, readable, inForce, signalled, buffer, got>>
      BY <2>3 DEF ReloadFails, workerVars
    <3>2. VersionsType'
      BY <1>0, <3>1
    <3>3. oldest' \in [Clients -> 0..disk']
      BY <1>0, <3>1
    <3>. QED  BY <1>0, <3>1, <3>2, <3>3
  <2>. QED  BY <1>6, <2>1, <2>2, <2>3
<1>7. ASSUME NEW p \in Clients, Install(p)
      PROVE  VersionsType' /\ ReloadsType'
  <2>1. got[p] \in 1..disk
    BY <1>0, <1>7 DEF Install, IndInv, ReloadInv
  <2>. QED  BY <1>0, <1>7, <2>1 DEF Install
<1>. QED
  BY <1>2, <1>3, <1>4, <1>5, <1>6, <1>7 DEF Next

LEMMA NextTypeOK == IndInv /\ [Next]_vars => TypeOK'
  BY GroupStepType, ReloadStepType DEF TypeOK

-----------------------------------------------------------------------------
(* The run group.                                                          *)

\* A member that ends while the group waits has a cause.
LEMMA EndsGroupInv ==
  ASSUME GroupInv, NEW a, NEW why, Ends(a, why), why # "none" \/ main # "waiting",
         UNCHANGED cancelled
  PROVE  GroupInv'
  BY DEF GroupInv, EndsForCause, Ends, AllMembers, Members

LEMMA NextGroupInv == IndInv /\ [Next]_vars => GroupInv'
<1>. SUFFICES ASSUME IndInv, [Next]_vars PROVE GroupInv'
  OBVIOUS
<1>0. GroupInv /\ interrupts \in Nat
  <2>1. interrupts \in 0..3
    BY DEF IndInv, TypeOK, GroupType
  <2>. QED  BY <2>1 DEF IndInv
<1>1. ASSUME UNCHANGED <<groupVars, cancelled>>
      PROVE  GroupInv'
  BY <1>0, <1>1 DEF groupVars, GroupInv, EndsForCause, AllMembers, Members
<1>2. CASE Edit \/ Signal \/ Receive \/ Forward \/ Stall \/ Recover \/ UNCHANGED vars
  BY <1>1, <1>2 DEF Edit, Signal, Receive, Forward, Stall, Recover, W!Begin, W!Use, vars,
                    workerVars, promised
<1>3. ASSUME NEW h \in Handlers, Post(h)
      PROVE  GroupInv'
  BY <1>1, <1>3 DEF Post, workerVars, promised
<1>4. ASSUME NEW p \in Clients, BeginReading(p) \/ ReadFiles(p) \/ Install(p)
      PROVE  GroupInv'
  BY <1>1, <1>4 DEF BeginReading, ReadFiles, Install, W!Reconfigure, workerVars, promised
<1>5. ASSUME NEW p \in Clients, ReloadFails(p)
      PROVE  GroupInv'
  <2>1. CASE p = "hup"
    BY <1>0, <1>5, <2>1, EndsGroupInv DEF ReloadFails, workerVars, promised
  <2>2. CASE p # "hup"
    BY <1>1, <1>5, <2>2 DEF ReloadFails, workerVars, promised
  <2>. QED  BY <2>1, <2>2
<1>6. CASE FirstEnds
  BY <1>0, <1>6 DEF FirstEnds, GroupInv, EndsForCause, workerVars, promised, AllMembers, Members
<1>7. CASE Interrupt
  BY <1>0, <1>7 DEF Interrupt, GroupInv, EndsForCause, promised, AllMembers, Members
<1>8. CASE WorkerEnds
  <2>1. main # "waiting" /\ UNCHANGED cancelled
    BY <1>0, <1>8 DEF WorkerEnds, W!Stop, GroupInv
  <2>. QED  BY <1>0, <1>8, <2>1, EndsGroupInv DEF WorkerEnds
<1>9. CASE HupEnds
  <2>1. main # "waiting"
    BY <1>0, <1>9 DEF HupEnds, Interrupted, GroupInv
  <2>. QED  BY <1>0, <1>9, <2>1, EndsGroupInv DEF HupEnds, workerVars, promised
<1>10. CASE ServerEnds
  BY <1>0, <1>10, EndsGroupInv DEF ServerEnds, workerVars, promised
<1>11. CASE Exit
  BY <1>0, <1>11 DEF Exit, GroupInv, EndsForCause, workerVars, promised, AllMembers, Members
<1>. QED
  BY <1>2, <1>3, <1>4, <1>5, <1>6, <1>7, <1>8, <1>9, <1>10, <1>11 DEF Next

-----------------------------------------------------------------------------
(* Reloads.                                                                *)

LEMMA ReloadStepReloadInv ==
  ASSUME IndInv, NEW p \in Clients,
         BeginReading(p) \/ ReadFiles(p) \/ ReloadFails(p) \/ Install(p)
  PROVE  ReloadInv'
<1>. USE DEF ReloadInv, SignalRead, LastInstalled
<1>0. /\ call \in [Clients -> {"idle", "read", "reading", "install"}]
      /\ oldest \in [Clients -> 0..disk] /\ got \in [Clients -> 0..disk]
      /\ disk \in Nat /\ signalled \in 0..disk /\ disk >= 1 /\ "hup" \in Clients
      /\ ReloadInv
  BY CollectorAssumption DEF IndInv, TypeOK, VersionsType, ReloadsType, Clients
<1>1. CASE BeginReading(p)
  <2>1. /\ call[p] = "read" /\ call' = [call EXCEPT ![p] = "reading"]
        /\ oldest' = [oldest EXCEPT ![p] = disk]
        /\ UNCHANGED <<buffer, signalled, cause, inForce, got>>
    BY <1>1 DEF BeginReading, groupVars
  <2>. QED  BY <1>0, <2>1
<1>2. CASE ReadFiles(p)
  <2>1. /\ call[p] = "reading" /\ call' = [call EXCEPT ![p] = "install"]
        /\ got' = [got EXCEPT ![p] = oldest[p]] /\ oldest' = [oldest EXCEPT ![p] = 0]
        /\ UNCHANGED <<buffer, signalled, cause, inForce>>
    BY <1>2 DEF ReadFiles, groupVars
  <2>2. \A q \in Clients : /\ call'[q] = "reading" => oldest'[q] >= 1
                           /\ call'[q] = "install" => got'[q] >= 1
    BY <1>0, <2>1
  <2>3. SignalRead'
    BY <1>0, <2>1
  <2>4. LastInstalled'
    BY <1>0, <2>1
  <2>. QED  BY <2>2, <2>3, <2>4
<1>3. CASE ReloadFails(p)
  <2>1. /\ call[p] = "reading" /\ call' = [call EXCEPT ![p] = "idle"]
        /\ oldest' = [oldest EXCEPT ![p] = 0]
        /\ UNCHANGED <<buffer, signalled, inForce, got>>
    BY <1>3 DEF ReloadFails
  <2>2. p = "hup" => cause' # "none"
    BY <1>3 DEF ReloadFails, Ends, IndInv, GroupInv
  <2>3. p # "hup" => cause' = cause
    BY <1>3 DEF ReloadFails, groupVars
  <2>. QED  BY <1>0, <2>1, <2>2, <2>3
<1>4. CASE Install(p)
  <2>1. /\ call[p] = "install" /\ call' = [call EXCEPT ![p] = "idle"] /\ inForce' = got[p]
        /\ UNCHANGED <<buffer, signalled, cause, oldest, got>>
    BY <1>4 DEF Install, groupVars
  <2>. QED  BY <1>0, <2>1
<1>. QED  BY <1>1, <1>2, <1>3, <1>4

LEMMA NextReloadInv == IndInv /\ [Next]_vars => ReloadInv'
<1>. SUFFICES ASSUME IndInv, [Next]_vars PROVE ReloadInv'
  OBVIOUS
<1>. USE DEF ReloadInv, SignalRead, LastInstalled, reloadVars, groupVars
<1>0. /\ call \in [Clients -> {"idle", "read", "reading", "install"}] /\ "hup" \in Clients
      /\ "hup" \notin Handlers /\ Handlers \subseteq Clients /\ ReloadInv
  BY CollectorAssumption DEF IndInv, TypeOK, VersionsType, ReloadsType, Clients
<1>1. ASSUME UNCHANGED <<signalled, buffer, call, oldest, got, inForce>>, cause' \in {cause, "none"} => cause' = cause
      PROVE  ReloadInv'
  BY <1>0, <1>1
<1>2. CASE Edit \/ Forward \/ Stall \/ Recover \/ FirstEnds \/ Interrupt \/ Exit \/ UNCHANGED vars
  BY <1>1, <1>2 DEF Edit, Forward, Stall, Recover, FirstEnds, Interrupt, Exit, vars
<1>3. CASE WorkerEnds \/ HupEnds \/ ServerEnds
  <2>1. cause' # "none" \/ cause' = cause
    BY <1>3 DEF WorkerEnds, HupEnds, ServerEnds, Ends
  <2>. QED  BY <1>1, <1>3, <2>1 DEF WorkerEnds, HupEnds, ServerEnds
<1>4. CASE Signal
  BY <1>0, <1>4 DEF Signal
<1>5. CASE Receive
  BY <1>0, <1>5 DEF Receive
<1>6. ASSUME NEW h \in Handlers, Post(h)
      PROVE  ReloadInv'
  BY <1>0, <1>6 DEF Post
<1>. QED
  BY <1>2, <1>3, <1>4, <1>5, <1>6, ReloadStepReloadInv DEF Next

LEMMA NextIndInv == IndInv /\ [Next]_vars => IndInv'
  BY NextTypeOK, NextGroupInv, NextReloadInv DEF IndInv

\* The inductive invariant holds in every reachable state.
THEOREM Invariance == Spec => []IndInv
  BY InitIndInv, NextIndInv, PTL DEF Spec

\* The process never ends by itself, nor because of a reload over HTTP.
THEOREM EndsOnlyForCause == Spec => []EndsForCause
<1>1. IndInv => EndsForCause
  BY DEF IndInv, GroupInv
<1>. QED  BY <1>1, Invariance, PTL

\* When the reloads are done, no files older than those of the last SIGHUP are
\* in force, although signals are dropped, unless a reload over HTTP has put
\* them there.
THEOREM SignalTakesEffect == Spec => []SignalInForce
<1>1. ASSUME IndInv PROVE SignalInForce
  <2>. SUFFICES ASSUME Quiet, cause = "none"
                PROVE  inForce >= signalled \/ \E h \in Handlers : got[h] = inForce
    BY DEF SignalInForce
  <2>1. /\ inForce \in Nat /\ inForce >= 1 /\ signalled \in Nat /\ "hup" \in Clients
        /\ got["hup"] \in Nat
    BY <1>1, CollectorAssumption DEF IndInv, TypeOK, VersionsType, ReloadsType, Clients
  <2>2. got["hup"] >= signalled
    BY <1>1, <2>1 DEF IndInv, ReloadInv, SignalRead, Quiet
  <2>3. got["hup"] = 0 \/ \E p \in Clients : got[p] = inForce
    BY <1>1, <2>1 DEF IndInv, ReloadInv, LastInstalled, Quiet
  <2>. QED  BY <2>1, <2>2, <2>3 DEF Clients
<1>. QED  BY <1>1, Invariance, PTL
=============================================================================
