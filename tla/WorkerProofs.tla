---------------------------- MODULE WorkerProofs ----------------------------
(***************************************************************************)
(* Proofs about Worker for any number of callers, readers, slices and      *)
(* reconfigurations: IndInv is an inductive invariant of Spec.             *)
(***************************************************************************)
EXTENDS Worker, TLAPS

-----------------------------------------------------------------------------
(* Facts about the fields.                                                 *)

\* No field is assigned twice by Reconfigure.
LEMMA FieldOrderInjective ==
  ASSUME NEW i \in 1..8, NEW j \in 1..8, FieldOrder[i] = FieldOrder[j]
  PROVE  i = j
  BY SMTT(60) DEF FieldOrder

LEMMA FieldOrderType == \A i \in 1..8 : FieldOrder[i] \in Reconfigured /\ FieldOrder[i] \in Fields
  BY DEF Reconfigured, Fields

\* Unless a caller of Reconfigure holds the lock, every field that it assigns
\* belongs to the installed configuration.
LEMMA FieldsInstalled ==
  ASSUME TypeOK, LockDiscipline, FieldsFollowLock, lock \notin Callers
  PROVE  \A f \in Reconfigured : field[f] = installed
<1>1. \A c \in Callers : rpc[c] # "assign"
  BY DEF LockDiscipline
<1>. QED  BY <1>1 DEF FieldsFollowLock, Reconfigured

LEMMA ReconfiguredFields ==
  {"fromClient", "toClient", "interval", "from", "to", "transformer", "rules",
   "recordingRules"} \subseteq Reconfigured
<1>1. /\ FieldOrder[1] = "fromClient" /\ FieldOrder[2] = "toClient"
      /\ FieldOrder[3] = "interval" /\ FieldOrder[4] = "from"
      /\ FieldOrder[5] = "to" /\ FieldOrder[6] = "transformer"
      /\ FieldOrder[7] = "rules" /\ FieldOrder[8] = "recordingRules"
  BY DEF FieldOrder
<1>. QED  BY <1>1, SMT DEF Reconfigured
-----------------------------------------------------------------------------
(* Type correctness.                                                       *)

LEMMA InitTypeOK == Init => TypeOK
<1>. SUFFICES ASSUME Init PROVE TypeOK
  OBVIOUS
<1>1. /\ field \in [Fields -> Nat] /\ content \in [Batches -> Stages]
      /\ snap \in [Readers -> Batches \cup {None}]
  BY DEF Init, Stages
<1>2. /\ rpc \in [Callers -> {"idle", "new", "lock", "assign", "unlock"}]
      /\ reader \in [Readers -> {"idle", "lock", "encode"}]
  BY DEF Init
<1>3. pending \in Nat /\ wait \in Nat /\ assigned \in 0..8 /\ installed \in Nat
  BY DEF Init
<1>4. report = "none" /\ pc = "top"
  BY DEF Init
<1>. QED
  BY <1>1, <1>2, <1>3, <1>4, Zenon DEF Init, TypeOK

\* A field holds a generation, whichever goroutine reads it.
LEMMA FieldType == TypeOK => \A f \in Fields : field[f] \in Nat
  BY DEF TypeOK

\* The part of TypeOK that steps of forward() leave alone.
LEMMA ForwardFrameType ==
  ASSUME TypeOK, ForwardFrame
  PROVE  /\ field' \in [Fields -> Nat]
         /\ pending' \in Nat
         /\ ctxDone' \in BOOLEAN
         /\ mode' \in Modes
         /\ rpc' \in [Callers -> {"idle", "new", "lock", "assign", "unlock"}]
         /\ assigned' \in 0..8
         /\ reader' \in [Readers -> {"idle", "lock", "encode"}]
         /\ snap' \in [Readers -> Batches \cup {None}]
         /\ installed' \in Nat
  BY DEF TypeOK, ForwardFrame, callerVars, readerVars

\* The messages of conditions are not the mark for "no call".
LEMMA MessagesAreNotNone == "none" \notin Degraded \cup Available
  BY DEF Degraded, Available

\* UpdateStatus is called: it is the call in progress.
LEMMA UpdateStatusType ==
  ASSUME TypeOK, NEW message \in Degraded \cup Available, UpdateStatus(message)
  PROVE  /\ lock' \in Callers \cup {Runner, None}
         /\ pc' = "reporting" /\ report' = message /\ report' # "none"
         /\ wait' \in Nat \cup {Minute}
         /\ batch' \in Batches \cup {None}
         /\ outcome' \in {"none", "ok", "error"}
         /\ status' \in Degraded \cup Available \cup {"unset"} /\ stale' \in BOOLEAN
  BY MessagesAreNotNone DEF TypeOK, UpdateStatus, Goto, Addon!Call

\* UpdateStatus returns: no call is in progress.
LEMMA StatusReturnsType ==
  ASSUME TypeOK, StatusReturns
  PROVE  /\ report' = "none" /\ report \in Degraded \cup Available
         /\ status' \in Degraded \cup Available \cup {"unset"} /\ stale' \in BOOLEAN
         /\ UNCHANGED <<lastMetrics, content, used>> /\ ForwardFrame
<1>1. Addon!Return /\ UNCHANGED <<lastMetrics, content, used>> /\ ForwardFrame
  BY DEF StatusReturns
<1>. QED  BY <1>1 DEF TypeOK, Addon!Return

\* The steps that leave UpdateStatus alone are not taken while it runs.
LEMMA NoReport ==
  ASSUME TypeOK, pc # "reporting", pc' # "reporting", UNCHANGED statusVars
  PROVE  /\ report' = "none" /\ (pc' = "reporting" <=> report' # "none")
         /\ report' \in Degraded \cup Available \cup {"none"}
         /\ status' \in Degraded \cup Available \cup {"unset"} /\ stale' \in BOOLEAN
  BY DEF TypeOK, statusVars

LEMMA ReadType ==
  ASSUME TypeOK, NEW fs \in SUBSET Fields, Read(fs)
  PROVE  used' \subseteq Nat
  BY FieldType DEF TypeOK, Read

LEMMA ReturnType ==
  ASSUME TypeOK, NEW result \in {"ok", "error"}, Return(result)
  PROVE  /\ lock' \in Callers \cup {Runner, None}
         /\ pc' = "select"
         /\ wait' \in Nat \cup {Minute}
         /\ batch' \in Batches \cup {None}
         /\ outcome' \in {"none", "ok", "error"}
  BY DEF TypeOK, Return

LEMMA GotoType ==
  ASSUME TypeOK, NEW label \in Forwarding, Goto(label)
  PROVE  /\ lock' \in Callers \cup {Runner, None}
         /\ pc' = label
         /\ wait' \in Nat \cup {Minute}
         /\ outcome' \in {"none", "ok", "error"}
  BY DEF TypeOK, Goto

LEMMA AllocateType ==
  ASSUME TypeOK, NEW stage \in Stages, Allocate(stage)
  PROVE  batch' \in Batches \cup {None} /\ content' \in [Batches -> Stages]
<1>1. PICK b \in Fresh :
        /\ batch' = b
        /\ content' = [x \in Batches |-> IF x = b THEN stage
                                        ELSE IF x \in Fresh THEN "raw" ELSE content[x]]
  BY DEF Allocate
<1>2. b \in Batches
  BY DEF Fresh
<1>. QED  BY <1>1, <1>2 DEF TypeOK, Stages

LEMMA ForwardStepTypeOK == TypeOK /\ ForwardStep => TypeOK'
<1>. SUFFICES ASSUME TypeOK, ForwardStep PROVE TypeOK'
  OBVIOUS
<1>0. Fields = Reconfigured \cup {"simulatedTimeseriesFile"}
  BY DEF Fields
<1>1. CASE FetchSimulated
  BY <1>1, ForwardFrameType, AllocateType, GotoType, NoReport
  DEF FetchSimulated, TypeOK, Stages, Forwarding
<1>2. CASE BeginFederate
  BY <1>2, <1>0, ForwardFrameType, ReadType, GotoType, NoReport, ReconfiguredFields
  DEF BeginFederate, TypeOK, Forwarding
<1>3. CASE FederateSucceeds
  BY <1>3, ForwardFrameType, AllocateType, GotoType, NoReport
  DEF FederateSucceeds, TypeOK, Stages, Forwarding
<1>4. CASE FederateFails
  BY <1>4, <1>0, ForwardFrameType, ReadType, UpdateStatusType, ReconfiguredFields
  DEF FederateFails, TypeOK, Degraded, Forwarding
<1>5. CASE QueryRecordingRules
  <2>1. /\ pc = "recording" /\ UNCHANGED <<lastMetrics, content>> /\ ForwardFrame
        /\ Read({"from", "recordingRules", "fromClient"})
    BY <1>5 DEF QueryRecordingRules
  <2>2. CASE Goto("filter") /\ UNCHANGED <<batch, statusVars>>
    BY <2>1, <2>2, <1>0, ForwardFrameType, ReadType, GotoType, NoReport, ReconfiguredFields
    DEF TypeOK, Forwarding
  <2>3. CASE UpdateStatus("recording failed")
    BY <2>1, <2>3, <1>0, ForwardFrameType, ReadType, UpdateStatusType, ReconfiguredFields
    DEF TypeOK, Degraded, Forwarding
  <2>. QED  BY <1>5, <2>2, <2>3 DEF QueryRecordingRules
<1>6. CASE FilterSucceeds
  BY <1>6, <1>0, ForwardFrameType, ReadType, GotoType, NoReport, ReconfiguredFields
  DEF FilterSucceeds, TypeOK, Stages, Forwarding
<1>7. CASE FilterFails
  BY <1>7, <1>0, ForwardFrameType, ReadType, UpdateStatusType, ReconfiguredFields
  DEF FilterFails, TypeOK, Stages, Degraded, Forwarding
<1>8. CASE Pack
  <2>1. content' \in [Batches -> Stages]
    BY <1>8 DEF Pack, TypeOK, Stages
  <2>2. /\ UNCHANGED <<batch, lastMetrics, used, statusVars>> /\ ForwardFrame
        /\ pc = "pack" /\ Goto("publish")
    BY <1>8 DEF Pack
  <2>. QED  BY <2>1, <2>2, ForwardFrameType, GotoType, NoReport DEF TypeOK, Forwarding
<1>9. CASE Publish
  BY <1>9, ForwardFrameType, GotoType, NoReport DEF Publish, TypeOK, Forwarding
<1>10. CASE NothingToSend
  BY <1>10, ForwardFrameType, UpdateStatusType
  DEF NothingToSend, TypeOK, Available, Forwarding
<1>11. CASE NotRequiredToSend
  BY <1>11, <1>0, ForwardFrameType, ReadType, UpdateStatusType, ReconfiguredFields
  DEF NotRequiredToSend, TypeOK, Available, Forwarding
<1>12. ASSUME RemoteWrite
       PROVE  /\ pc = "report" /\ UNCHANGED <<lastMetrics, content>> /\ ForwardFrame
              /\ used' \subseteq Nat
  BY <1>12, <1>0, ReadType, ReconfiguredFields DEF RemoteWrite
<1>13. CASE RemoteWriteSucceeds
  BY <1>12, <1>13, ForwardFrameType, ReturnType, UpdateStatusType, NoReport
  DEF RemoteWriteSucceeds, TypeOK, Available, Forwarding
<1>14. CASE RemoteWriteFails
  BY <1>12, <1>14, ForwardFrameType, UpdateStatusType
  DEF RemoteWriteFails, TypeOK, Degraded, Forwarding
<1>. QED
  BY <1>1, <1>2, <1>3, <1>4, <1>5, <1>6, <1>7, <1>8, <1>9, <1>10, <1>11, <1>13,
     <1>14 DEF ForwardStep

LEMMA UpdateStatusReturnsTypeOK == TypeOK /\ UpdateStatusReturns => TypeOK'
<1>. SUFFICES ASSUME TypeOK, UpdateStatusReturns PROVE TypeOK'
  OBVIOUS
<1>1. /\ StatusReturns
      /\ \/ Goto("filter") /\ UNCHANGED batch
         \/ Return("error")
         \/ Return("ok")
  BY DEF UpdateStatusReturns
<1>2. /\ report' = "none" /\ UNCHANGED <<lastMetrics, content, used>> /\ ForwardFrame
      /\ status' \in Degraded \cup Available \cup {"unset"} /\ stale' \in BOOLEAN
  BY <1>1, StatusReturnsType
<1>3. /\ pc' \in {"filter", "select"} /\ lock' \in Callers \cup {Runner, None}
      /\ wait' \in Nat \cup {Minute} /\ batch' \in Batches \cup {None}
      /\ outcome' \in {"none", "ok", "error"}
  BY <1>1, ReturnType, GotoType DEF TypeOK, Forwarding
<1>. QED  BY <1>2, <1>3, ForwardFrameType DEF TypeOK, Forwarding

LEMMA RunStepTypeOK == TypeOK /\ RunStep => TypeOK'
<1>. SUFFICES ASSUME TypeOK, RunStep PROVE TypeOK'
  OBVIOUS
<1>1. CASE ReadInterval
  <2>1. field["interval"] \in Nat
    BY FieldType, ReconfiguredFields DEF Fields
  <2>. QED  BY <1>1, <2>1, ForwardFrameType, NoReport DEF ReadInterval, TypeOK
<1>2. CASE BeginForward
  BY <1>2, ForwardFrameType, NoReport DEF BeginForward, TypeOK, Forwarding
<1>3. CASE ForwardStep
  BY <1>3, ForwardStepTypeOK
<1>4. CASE UpdateStatusReturns
  BY <1>4, UpdateStatusReturnsTypeOK
<1>5. CASE Stop
  BY <1>5, NoReport DEF Stop, SelectFrame, TypeOK, callerVars, readerVars
<1>6. CASE TimerFires
  BY <1>6, NoReport DEF TimerFires, SelectFrame, TypeOK, callerVars, readerVars
<1>7. CASE Wake
  BY <1>7, NoReport DEF Wake, SelectFrame, TypeOK, callerVars, readerVars
<1>. QED
  BY <1>1, <1>2, <1>3, <1>4, <1>5, <1>6, <1>7 DEF RunStep

LEMMA CallerStepTypeOK ==
  ASSUME TypeOK, NEW c \in Callers, CallerStep(c)
  PROVE  TypeOK'
<1>. USE DEF TypeOK, CallerFrame, runVars, readerVars, statusVars
<1>1. CASE CallReconfigure(c)
  BY <1>1 DEF CallReconfigure
<1>2. CASE NewFails(c)
  BY <1>2 DEF NewFails
<1>3. CASE NewSucceeds(c)
  BY <1>3 DEF NewSucceeds
<1>4. CASE LockReconfigure(c)
  BY <1>4 DEF LockReconfigure
<1>5. CASE AssignField(c)
  <2>1. assigned' \in 0..8
    BY <1>5 DEF AssignField
  <2>2. installed + 1 \in Nat
    OBVIOUS
  <2>3. field' \in [Fields -> Nat]
    BY <1>5, <2>2 DEF AssignField
  <2>. QED  BY <1>5, <2>1, <2>3 DEF AssignField
<1>6. CASE Signal(c)
  BY <1>6 DEF Signal
<1>7. CASE UnlockReconfigure(c)
  BY <1>7 DEF UnlockReconfigure
<1>. QED
  BY <1>1, <1>2, <1>3, <1>4, <1>5, <1>6, <1>7 DEF CallerStep

LEMMA ReaderStepTypeOK ==
  ASSUME TypeOK, NEW r \in Readers, ReaderStep(r)
  PROVE  TypeOK'
<1>1. UNCHANGED <<lock, field, lastMetrics, pending, ctxDone, content, pc, wait, batch, outcome,
                  mode, rpc, assigned, report, status, stale, installed, used>>
  BY DEF ReaderStep, CallLastMetrics, ReadLastMetrics, FinishEncoding, ReaderFrame,
         runVars, callerVars, statusVars
<1>2. reader' \in [Readers -> {"idle", "lock", "encode"}]
  BY DEF ReaderStep, CallLastMetrics, ReadLastMetrics, FinishEncoding, TypeOK
<1>3. snap' \in [Readers -> Batches \cup {None}]
  BY DEF ReaderStep, CallLastMetrics, ReadLastMetrics, FinishEncoding, TypeOK
<1>. QED  BY <1>1, <1>2, <1>3 DEF TypeOK

\* Every variable keeps its type in every step.
LEMMA NextTypeOK == TypeOK /\ [Next]_vars => TypeOK'
<1>. SUFFICES ASSUME TypeOK, [Next]_vars PROVE TypeOK'
  OBVIOUS
<1>1. CASE Cancel
  BY <1>1 DEF Cancel, TypeOK, runVars, callerVars, readerVars, statusVars
<1>2. CASE UNCHANGED vars
  BY <1>2 DEF vars, TypeOK
<1>. QED
  BY <1>1, <1>2, RunStepTypeOK, CallerStepTypeOK, ReaderStepTypeOK DEF Next

\* The variables have their types in every reachable state.
THEOREM TypeCorrectness == Spec => []TypeOK
  BY InitTypeOK, NextTypeOK, PTL DEF Spec

-----------------------------------------------------------------------------
(* The lock and the configuration.                                         *)

LEMMA InitIndInv == Init => IndInv
<1>. SUFFICES ASSUME Init PROVE IndInv
  OBVIOUS
<1>1. TypeOK
  BY InitTypeOK
<1>2. LockDiscipline
  BY WorkerAssumption DEF Init, LockDiscipline, Forwarding
<1>3. FieldsFollowLock
  BY FieldOrderType DEF Init, FieldsFollowLock
<1>4. StaleReadsHaveSender
  BY DEF Init, StaleReadsHaveSender, Forwarding
<1>5. NoTornConfig
  BY DEF Init, NoTornConfig
<1>. QED
  BY <1>1, <1>2, <1>3, <1>4, <1>5 DEF IndInv

\* What the invariant needs to know of a step of forward(): it holds the lock,
\* it reads only the installed configuration, and it has read it when it ends.
LEMMA ForwardReads ==
  ASSUME IndInv, ForwardStep \/ UpdateStatusReturns
  PROVE  /\ lock = Runner /\ pc \in Forwarding
         /\ UNCHANGED <<field, pending, callerVars, installed>>
         /\ \/ pc' \in Forwarding /\ lock' = Runner /\ wait' = wait
            \/ pc' = "select" /\ lock' = None /\ wait' \in {wait, Minute} /\ used' = {installed}
         /\ used' \subseteq {installed} /\ used' \in {used, {installed}}
         /\ pc' \in Forwarding \ {"fetch", "filter"} => used' = {installed}
<1>1. pc \in Forwarding
  BY DEF ForwardStep, Forwarding, FetchSimulated, BeginFederate, FederateSucceeds,
         FederateFails, QueryRecordingRules, FilterSucceeds, FilterFails, Pack,
         Publish, NothingToSend, NotRequiredToSend, RemoteWriteSucceeds, RemoteWriteFails,
         RemoteWrite, UpdateStatusReturns, StatusReturns
<1>2. lock = Runner /\ used \subseteq {installed}
  BY <1>1 DEF IndInv, LockDiscipline, NoTornConfig
<1>3. \A f \in Reconfigured : field[f] = installed
  BY <1>2, FieldsInstalled, WorkerAssumption DEF IndInv
<1>4. ASSUME NEW fs \in SUBSET Reconfigured, fs # {}, Read(fs)
      PROVE  used' = {installed}
  BY <1>2, <1>3, <1>4 DEF Read
<1>5. ForwardFrame => UNCHANGED <<field, pending, callerVars, installed>>
  BY DEF ForwardFrame
<1>6. pc \in Forwarding \ {"fetch", "filter"} => used = {installed}
  BY DEF IndInv, StaleReadsHaveSender
<1>. USE <1>1, <1>2, <1>5, <1>6, ReconfiguredFields DEF Forwarding
<1>7. CASE FetchSimulated
  BY <1>7 DEF FetchSimulated, Goto
<1>8. CASE BeginFederate
  BY <1>8, <1>4 DEF BeginFederate, Goto
<1>9. CASE FederateSucceeds
  BY <1>9 DEF FederateSucceeds, Goto
<1>10. CASE FederateFails
  BY <1>10, <1>4 DEF FederateFails, UpdateStatus, Goto
<1>11. CASE QueryRecordingRules
  BY <1>11, <1>4 DEF QueryRecordingRules, UpdateStatus, Goto
<1>12. CASE FilterSucceeds
  BY <1>12, <1>4 DEF FilterSucceeds, Goto
<1>13. CASE FilterFails
  BY <1>13, <1>4 DEF FilterFails, UpdateStatus, Goto
<1>14. CASE Pack
  BY <1>14 DEF Pack, Goto
<1>15. CASE Publish
  BY <1>15 DEF Publish, Goto
<1>16. CASE NothingToSend
  BY <1>16 DEF NothingToSend, UpdateStatus, Goto
<1>17. CASE NotRequiredToSend
  BY <1>17, <1>4 DEF NotRequiredToSend, UpdateStatus, Goto
<1>18. CASE RemoteWriteSucceeds
  BY <1>18, <1>4 DEF RemoteWriteSucceeds, RemoteWrite, Return, UpdateStatus, Goto
<1>19. CASE RemoteWriteFails
  BY <1>19, <1>4 DEF RemoteWriteFails, RemoteWrite, UpdateStatus, Goto
<1>20. CASE UpdateStatusReturns
  BY <1>20 DEF UpdateStatusReturns, StatusReturns, Return, Goto
<1>. QED
  BY <1>7, <1>8, <1>9, <1>10, <1>11, <1>12, <1>13, <1>14, <1>15, <1>16, <1>17,
     <1>18, <1>19, <1>20 DEF ForwardStep

\* A step of the Run loop outside forward() reads no field but the interval,
\* and it does so while the lock is free.
LEMMA RunStepIndInv == IndInv /\ RunStep => IndInv'
<1>. SUFFICES ASSUME IndInv, RunStep PROVE IndInv'
  OBVIOUS
<1>0. TypeOK'
  BY RunStepTypeOK DEF IndInv
<1>. USE <1>0 DEF IndInv
<1>1. CASE ReadInterval
  <2>1. lock = None /\ wait' = installed /\ UNCHANGED <<lock, used, field, installed, pending, rpc, assigned>>
    <3>1. lock = None
      BY <1>1 DEF ReadInterval, CanLock
    <3>2. field["interval"] = installed
      BY <3>1, FieldsInstalled, ReconfiguredFields, WorkerAssumption
    <3>. QED  BY <1>1, <3>1, <3>2 DEF ReadInterval, ForwardFrame, callerVars
  <2>2. pc = "top" /\ pc' = "lock"
    BY <1>1 DEF ReadInterval
  <2>3. LockDiscipline'
    BY <2>1, <2>2 DEF LockDiscipline, Forwarding
  <2>4. FieldsFollowLock'
    BY <2>1 DEF FieldsFollowLock
  <2>5. StaleReadsHaveSender'
    BY <2>1, <2>2 DEF StaleReadsHaveSender, Forwarding
  <2>6. NoTornConfig'
    BY <2>1, <2>2 DEF NoTornConfig, Forwarding
  <2>. QED  BY <2>3, <2>4, <2>5, <2>6
<1>2. CASE BeginForward
  <2>1. /\ lock = None /\ pc = "lock" /\ lock' = Runner /\ pc' = "fetch" /\ used' = {}
        /\ UNCHANGED <<wait, field, installed, pending, rpc, assigned>>
    BY <1>2 DEF BeginForward, CanLock, ForwardFrame, callerVars
  <2>2. LockDiscipline'
    BY <2>1, WorkerAssumption DEF LockDiscipline, Forwarding
  <2>3. FieldsFollowLock'
    BY <2>1 DEF FieldsFollowLock
  <2>4. StaleReadsHaveSender'
    BY <2>1 DEF StaleReadsHaveSender, Forwarding
  <2>5. NoTornConfig'
    BY <2>1 DEF NoTornConfig
  <2>. QED  BY <2>2, <2>3, <2>4, <2>5
<1>3. CASE ForwardStep \/ UpdateStatusReturns
  <2>1. /\ lock = Runner /\ pc \in Forwarding
        /\ UNCHANGED <<field, pending, rpc, assigned, installed>>
        /\ \/ pc' \in Forwarding /\ lock' = Runner /\ wait' = wait
           \/ pc' = "select" /\ lock' = None /\ wait' \in {wait, Minute} /\ used' = {installed}
        /\ used' \subseteq {installed}
        /\ pc' \in Forwarding \ {"fetch", "filter"} => used' = {installed}
    BY <1>3, ForwardReads DEF callerVars
  <2>2. LockDiscipline'
    BY <2>1, WorkerAssumption DEF LockDiscipline, Forwarding
  <2>3. FieldsFollowLock'
    BY <2>1 DEF FieldsFollowLock
  <2>4. StaleReadsHaveSender'
    BY <2>1 DEF StaleReadsHaveSender, Forwarding
  <2>5. NoTornConfig'
    BY <2>1 DEF NoTornConfig
  <2>. QED  BY <2>2, <2>3, <2>4, <2>5
<1>4. ASSUME Stop \/ TimerFires \/ Wake
      PROVE  IndInv'
  <2>1. /\ pc = "select" /\ pc' \in {"top", "done"}
        /\ UNCHANGED <<lock, used, field, installed, rpc, assigned>>
    BY <1>4 DEF Stop, TimerFires, Wake, SelectFrame, callerVars
  <2>2. LockDiscipline'
    BY <2>1 DEF LockDiscipline, Forwarding
  <2>3. FieldsFollowLock'
    BY <2>1 DEF FieldsFollowLock
  <2>4. StaleReadsHaveSender'
    BY <2>1 DEF StaleReadsHaveSender, Forwarding
  <2>5. NoTornConfig'
    BY <2>1 DEF NoTornConfig, Forwarding
  <2>. QED  BY <2>2, <2>3, <2>4, <2>5
<1>. QED
  BY <1>1, <1>2, <1>3, <1>4 DEF RunStep

\* Reconfigure changes fields only while it holds the lock, and leaves a
\* sender behind when they belong to a new configuration.
LEMMA CallerStepIndInv ==
  ASSUME IndInv, NEW c \in Callers, CallerStep(c)
  PROVE  IndInv'
<1>0. TypeOK' /\ TypeOK
  BY CallerStepTypeOK DEF IndInv
<1>. USE <1>0 DEF IndInv
<1>1. UNCHANGED <<pc, wait, used>>
  BY DEF CallerStep, CallReconfigure, NewFails, NewSucceeds, LockReconfigure, AssignField,
         Signal, UnlockReconfigure, CallerFrame, runVars
<1>2. rpc \in [Callers -> {"idle", "new", "lock", "assign", "unlock"}]
  BY DEF TypeOK
<1>3. ASSUME CallReconfigure(c) \/ NewFails(c) \/ NewSucceeds(c)
      PROVE  IndInv'
  <2>1. /\ UNCHANGED <<lock, field, pending, assigned, installed>>
        /\ \A d \in Callers : rpc'[d] # rpc[d] =>
             {rpc[d], rpc'[d]} \subseteq {"idle", "new", "lock"}
    BY <1>2, <1>3 DEF CallReconfigure, NewFails, NewSucceeds
  <2>2. LockDiscipline'
    BY <1>1, <2>1 DEF LockDiscipline
  <2>3. FieldsFollowLock'
    BY <2>1 DEF FieldsFollowLock
  <2>4. StaleReadsHaveSender'
    BY <1>1, <2>1 DEF StaleReadsHaveSender
  <2>5. NoTornConfig'
    BY <1>1, <2>1 DEF NoTornConfig
  <2>. QED  BY <2>2, <2>3, <2>4, <2>5
<1>4. CASE LockReconfigure(c)
  <2>1. /\ lock = None /\ lock' = c /\ rpc[c] = "lock" /\ assigned' = 0
        /\ rpc' = [rpc EXCEPT ![c] = "assign"]
        /\ UNCHANGED <<field, pending, installed>>
    BY <1>4 DEF LockReconfigure, CanLock
  <2>2. LockDiscipline'
    BY <1>1, <1>2, <2>1, WorkerAssumption DEF LockDiscipline
  <2>3. FieldsFollowLock'
    <3>1. \A i \in 1..8 : field[FieldOrder[i]] = installed
      BY <2>1, FieldsInstalled, FieldOrderType, WorkerAssumption
    <3>2. \A i \in 1..8 : ~(i <= assigned')
      BY <2>1
    <3>. QED  BY <2>1, <3>1, <3>2 DEF FieldsFollowLock
  <2>4. StaleReadsHaveSender'
    BY <1>1, <2>1 DEF StaleReadsHaveSender
  <2>5. NoTornConfig'
    BY <1>1, <2>1 DEF NoTornConfig
  <2>. QED  BY <2>2, <2>3, <2>4, <2>5
<1>5. CASE AssignField(c)
  <2>1. /\ rpc[c] = "assign" /\ assigned < 8 /\ assigned' = assigned + 1
        /\ field' = [field EXCEPT ![FieldOrder[assigned + 1]] = installed + 1]
        /\ UNCHANGED <<lock, rpc, pending, installed>>
    BY <1>5 DEF AssignField
  <2>2. LockDiscipline'
    BY <1>1, <2>1 DEF LockDiscipline
  <2>3. FieldsFollowLock'
    <3>1. assigned \in 0..7 /\ assigned + 1 \in 1..8
      BY <2>1 DEF TypeOK
    <3>2. \A i \in 1..8 : field[FieldOrder[i]] = IF i <= assigned THEN installed + 1 ELSE installed
      BY <2>1 DEF FieldsFollowLock
    <3>3. DOMAIN field = Fields
      BY DEF TypeOK
    <3>4. ASSUME NEW i \in 1..8
          PROVE  field'[FieldOrder[i]] = IF i <= assigned + 1 THEN installed + 1 ELSE installed
      <4>1. CASE i = assigned + 1
        BY <4>1, <2>1, <3>3, FieldOrderType
      <4>2. CASE i # assigned + 1
        <5>1. FieldOrder[i] # FieldOrder[assigned + 1]
          BY <4>2, <3>1, FieldOrderInjective
        <5>2. field'[FieldOrder[i]] = field[FieldOrder[i]]
          BY <5>1, <2>1, <3>3, FieldOrderType
        <5>. QED  BY <5>2, <4>2, <3>1, <3>2
      <4>. QED  BY <4>1, <4>2
    <3>. QED  BY <2>1, <3>4 DEF FieldsFollowLock
  <2>4. StaleReadsHaveSender'
    BY <1>1, <2>1 DEF StaleReadsHaveSender
  <2>5. NoTornConfig'
    BY <1>1, <2>1 DEF NoTornConfig
  <2>. QED  BY <2>2, <2>3, <2>4, <2>5
<1>6. CASE Signal(c)
  <2>1. /\ rpc[c] = "assign" /\ assigned = 8 /\ lock = c
        /\ pending' = pending + 1 /\ installed' = installed + 1
        /\ rpc' = [rpc EXCEPT ![c] = "unlock"]
        /\ UNCHANGED <<lock, field, assigned>>
    BY <1>6 DEF Signal, LockDiscipline
  <2>2. pending' > 0
    BY <2>1 DEF TypeOK
  <2>3. pc \notin Forwarding
    BY <2>1, WorkerAssumption DEF LockDiscipline
  <2>4. LockDiscipline'
    BY <1>1, <1>2, <2>1 DEF LockDiscipline
  <2>5. FieldsFollowLock'
    <3>1. \A i \in 1..8 : field[FieldOrder[i]] = installed + 1
      BY <2>1 DEF FieldsFollowLock
    <3>2. \A d \in Callers : rpc'[d] # "assign"
      BY <1>2, <2>1 DEF LockDiscipline
    <3>. QED  BY <2>1, <3>1, <3>2 DEF FieldsFollowLock
  <2>6. StaleReadsHaveSender'
    BY <1>1, <2>2, <2>3 DEF StaleReadsHaveSender
  <2>7. NoTornConfig'
    BY <1>1, <2>3 DEF NoTornConfig
  <2>. QED  BY <2>4, <2>5, <2>6, <2>7
<1>7. CASE UnlockReconfigure(c)
  <2>1. /\ rpc[c] = "unlock" /\ lock = c /\ lock' = None
        /\ rpc' = [rpc EXCEPT ![c] = "idle"]
        /\ UNCHANGED <<field, pending, assigned, installed>>
    BY <1>7 DEF UnlockReconfigure, LockDiscipline
  <2>2. LockDiscipline'
    BY <1>1, <1>2, <2>1, WorkerAssumption DEF LockDiscipline
  <2>3. FieldsFollowLock'
    BY <1>2, <2>1 DEF FieldsFollowLock
  <2>4. StaleReadsHaveSender'
    BY <1>1, <2>1 DEF StaleReadsHaveSender
  <2>5. NoTornConfig'
    BY <1>1, <2>1 DEF NoTornConfig
  <2>. QED  BY <2>2, <2>3, <2>4, <2>5
<1>. QED
  BY <1>3, <1>4, <1>5, <1>6, <1>7 DEF CallerStep

\* Every step preserves the invariant.
LEMMA NextIndInv == IndInv /\ [Next]_vars => IndInv'
<1>. SUFFICES ASSUME IndInv, [Next]_vars PROVE IndInv'
  OBVIOUS
<1>1. TypeOK'
  BY NextTypeOK DEF IndInv
<1>2. ASSUME UNCHANGED <<lock, field, pending, pc, wait, rpc, assigned, installed, used>>
      PROVE  IndInv'
  BY <1>1, <1>2 DEF IndInv, LockDiscipline, FieldsFollowLock, StaleReadsHaveSender, NoTornConfig
<1>3. CASE Cancel
  BY <1>2, <1>3 DEF Cancel, runVars, callerVars
<1>4. ASSUME NEW r \in Readers, ReaderStep(r)
      PROVE  IndInv'
  BY <1>2, <1>4 DEF ReaderStep, CallLastMetrics, ReadLastMetrics, FinishEncoding, ReaderFrame,
                    runVars, callerVars
<1>5. CASE UNCHANGED vars
  BY <1>2, <1>5 DEF vars
<1>. QED
  BY <1>3, <1>4, <1>5, RunStepIndInv, CallerStepIndInv DEF Next

\* The inductive invariant holds in every reachable state.
THEOREM Invariance == Spec => []IndInv
  BY InitIndInv, NextIndInv, PTL DEF Spec

\* No forward ever mixes two configurations, with any number of callers of
\* Reconfigure and any number of reconfigurations.
THEOREM NeverTorn == Spec => []NoTornConfig
<1>1. IndInv => NoTornConfig
  BY DEF IndInv
<1>. QED  BY <1>1, Invariance, PTL

\* No wake-up is lost: the Run loop never sleeps on a configuration, or for
\* an interval, older than the installed one unless a sender is about to
\* interrupt it.
THEOREM NoLostWakeUp == Spec => []StaleSleepIsInterrupted
<1>1. IndInv => StaleSleepIsInterrupted
  BY DEF IndInv, StaleSleepIsInterrupted, StaleReadsHaveSender
<1>. QED  BY <1>1, Invariance, PTL

-----------------------------------------------------------------------------
(* A Worker keeps the promises of AbstractWorker.                          *)

LEMMA InitRefines == Init => Abstract!Init
  BY DEF Init, Abstract!Init

LEMMA ForwardStepRefines ==
  ASSUME IndInv, ForwardStep \/ UpdateStatusReturns
  PROVE  Abstract!Use \/ UNCHANGED <<installed, used, ctxDone, pc = "done">>
<1>1. /\ pc # "done" /\ pc' # "done" /\ UNCHANGED installed
      /\ used' \in {used, {installed}}
  BY ForwardReads DEF Forwarding
<1>2. used \subseteq {installed}
  BY ForwardReads DEF IndInv, NoTornConfig
<1>3. UNCHANGED ctxDone
  BY DEF ForwardStep, ForwardFrame, FetchSimulated, BeginFederate, FederateSucceeds,
         FederateFails, QueryRecordingRules, FilterSucceeds, FilterFails, Pack,
         Publish, NothingToSend, NotRequiredToSend, RemoteWriteSucceeds, RemoteWriteFails,
         RemoteWrite, UpdateStatusReturns, StatusReturns
<1>. QED  BY <1>1, <1>2, <1>3 DEF Abstract!Use

LEMMA NextRefines ==
  ASSUME IndInv, [Next]_vars
  PROVE  [Abstract!Next]_(Abstract!vars)
<1>. USE DEF Abstract!Next, Abstract!vars
<1>1. CASE ReadInterval
  BY <1>1 DEF ReadInterval, ForwardFrame
<1>2. CASE BeginForward
  BY <1>2 DEF BeginForward, ForwardFrame, Abstract!Begin
<1>3. CASE ForwardStep \/ UpdateStatusReturns
  BY <1>3, ForwardStepRefines
<1>4. CASE Stop
  BY <1>4 DEF Stop, SelectFrame, Abstract!Stop
<1>5. ASSUME TimerFires \/ Wake
      PROVE  UNCHANGED <<installed, used, ctxDone, pc = "done">>
  BY <1>5 DEF TimerFires, Wake, SelectFrame
<1>6. CASE Cancel
  BY <1>6 DEF Cancel, runVars, Abstract!Cancel
<1>7. ASSUME NEW c \in Callers, CallerStep(c), ~Signal(c)
      PROVE  UNCHANGED <<installed, used, ctxDone, pc = "done">>
  BY <1>7 DEF CallerStep, CallReconfigure, NewFails, NewSucceeds, LockReconfigure,
              AssignField, UnlockReconfigure, CallerFrame, runVars
<1>8. ASSUME NEW c \in Callers, Signal(c)
      PROVE  Abstract!Reconfigure
  BY <1>8 DEF Signal, CallerFrame, runVars, Abstract!Reconfigure
<1>9. ASSUME NEW r \in Readers, ReaderStep(r)
      PROVE  UNCHANGED <<installed, used, ctxDone, pc = "done">>
  BY <1>9 DEF ReaderStep, CallLastMetrics, ReadLastMetrics, FinishEncoding, ReaderFrame, runVars
<1>10. CASE UNCHANGED vars
  BY <1>10 DEF vars
<1>. QED
  BY <1>1, <1>2, <1>3, <1>4, <1>5, <1>6, <1>7, <1>8, <1>9, <1>10 DEF Next, RunStep

\* The Worker, with its lock, its steps and its senders, implements the
\* abstract worker that replaces whole configurations at once.
THEOREM Refinement == Spec => ImplementsAbstract
  BY InitRefines, NextRefines, Invariance, PTL DEF Spec, ImplementsAbstract, Abstract!Spec

-----------------------------------------------------------------------------
(* What is served.                                                         *)

LEMMA ServedType == TypeOK => Served \subseteq Batches \cup {None}
  BY DEF TypeOK, Served

LEMMA InitServingInv == Init => ServingInv
<1>. SUFFICES ASSUME Init PROVE ServingInv
  OBVIOUS
<1>1. TypeOK
  BY InitTypeOK
<1>2. Served \subseteq {None}
  BY DEF Init, Served
<1>. QED  BY <1>1, <1>2 DEF Init, ServingInv, Ownership, ServedOnlyProcessed

\* The slice that forward() allocates is its own, and slices that others can
\* reach are not recycled.
LEMMA AllocateServing ==
  ASSUME ServingInv, NEW stage \in Stages, Allocate(stage), UNCHANGED <<lastMetrics, snap>>
  PROVE  /\ batch' \in Batches \ Served /\ Served' = Served
         /\ \A b \in Served \ {None} : content'[b] = content[b]
<1>1. PICK b \in Fresh :
        /\ batch' = b
        /\ content' = [x \in Batches |-> IF x = b THEN stage
                                        ELSE IF x \in Fresh THEN "raw" ELSE content[x]]
  BY DEF Allocate
<1>2. Served' = Served
  BY DEF Served
<1>. QED  BY <1>1, <1>2, ServedType DEF Fresh, ServingInv

\* The steps that rewrite families write to that slice only.
LEMMA RewriteServing ==
  ASSUME ServingInv, pc \in {"filter", "pack"}, UNCHANGED <<lastMetrics, snap>>,
         NEW stage, content' = [content EXCEPT ![batch] = stage]
  PROVE  /\ batch \in Batches \ Served /\ Served' = Served
         /\ content'[batch] = stage
         /\ \A b \in Served \ {None} : content'[b] = content[b]
<1>1. batch \in Batches \ Served /\ Served' = Served
  BY DEF ServingInv, Ownership, Served
<1>. QED  BY <1>1, ServedType DEF ServingInv, TypeOK

\* What the steps of forward() do to slices.
LEMMA ForwardServes ==
  ASSUME ServingInv, ForwardStep \/ UpdateStatusReturns
  PROVE  /\ \A b \in Served \ {None} : content'[b] = content[b]
         /\ Ownership'
         /\ Served' \subseteq Served \cup {batch}
         /\ Served' # Served => pc = "publish" /\ UNCHANGED content
<1>1. ForwardFrame => UNCHANGED snap
  BY DEF ForwardFrame, readerVars
<1>2. UNCHANGED <<lastMetrics, snap>> => Served' = Served
  BY DEF Served
<1>3. /\ pc = "recording" => batch \in Batches \ Served
      /\ pc = "filter" => batch \in Batches \ Served
      /\ pc = "pack" => batch \in Batches \ Served
      /\ report = "recording failed" => batch \in Batches \ Served
  BY DEF ServingInv, Ownership
<1>4. pc # "reporting" /\ UNCHANGED statusVars => report' # "recording failed"
  BY DEF ServingInv, TypeOK, statusVars
<1>5. ASSUME NEW message, UpdateStatus(message)
      PROVE  pc' = "reporting" /\ report' = message /\ batch' = batch
  BY <1>5 DEF UpdateStatus, Addon!Call, Goto
<1>6. ASSUME NEW message, UpdateStatus(message), message # "recording failed"
       PROVE  Ownership'
  BY <1>5, <1>6 DEF Ownership
<1>7. UNCHANGED <<content, lastMetrics, snap>> => /\ \A b \in Served \ {None} : content'[b] = content[b]
                                                  /\ Served' = Served
  BY <1>2
<1>8. StatusReturns => report' # "recording failed" /\ UNCHANGED <<content, lastMetrics, snap>>
  BY <1>1 DEF StatusReturns, Addon!Return
<1>. USE <1>1, <1>2, <1>3, <1>4
<1>9. CASE FetchSimulated
  <2>1. PICK stage \in Stages : Allocate(stage)
    BY <1>9 DEF FetchSimulated, Stages
  <2>. QED  BY <1>9, <2>1, AllocateServing DEF FetchSimulated, Goto, Ownership
<1>10. CASE BeginFederate
  BY <1>10 DEF BeginFederate, Goto, Ownership
<1>11. CASE FederateSucceeds
  BY <1>11, AllocateServing DEF FederateSucceeds, Goto, Ownership, Stages
<1>12. CASE FederateFails
  BY <1>12, <1>6, <1>7 DEF FederateFails
<1>13. CASE QueryRecordingRules
  <2>1. pc = "recording" /\ UNCHANGED <<lastMetrics, content, snap>>
    BY <1>13 DEF QueryRecordingRules
  <2>2. CASE Goto("filter") /\ UNCHANGED <<batch, statusVars>>
    BY <2>1, <2>2 DEF Goto, Ownership
  <2>3. CASE UpdateStatus("recording failed")
    BY <2>1, <2>3, <1>5 DEF Ownership
  <2>. QED  BY <1>13, <2>2, <2>3 DEF QueryRecordingRules
<1>14. CASE FilterSucceeds
  <2>1. PICK stage : content' = [content EXCEPT ![batch] = stage]
    BY <1>14 DEF FilterSucceeds
  <2>. QED  BY <1>14, <2>1, RewriteServing DEF FilterSucceeds, Goto, Ownership
<1>15. CASE FilterFails
  BY <1>15, <1>5, RewriteServing DEF FilterFails, Ownership
<1>16. CASE Pack
  <2>1. PICK stage \in {"packed", "empty"} : content' = [content EXCEPT ![batch] = stage]
    BY <1>16 DEF Pack
  <2>. QED  BY <1>16, <2>1, RewriteServing DEF Pack, Goto, Ownership
<1>17. CASE Publish
  BY <1>17 DEF Publish, Goto, Ownership, Served
<1>18. CASE NothingToSend
  BY <1>18, <1>6, <1>7 DEF NothingToSend
<1>19. CASE NotRequiredToSend
  BY <1>19, <1>6, <1>7 DEF NotRequiredToSend
<1>20. CASE RemoteWriteSucceeds
  <2>1. UNCHANGED <<content, lastMetrics, snap>>
    BY <1>20 DEF RemoteWriteSucceeds, RemoteWrite
  <2>2. CASE Return("ok") /\ UNCHANGED statusVars
    <3>1. pc' = "select" /\ report' # "recording failed"
      BY <1>20, <2>2 DEF RemoteWriteSucceeds, RemoteWrite, Return
    <3>. QED  BY <3>1, <2>1, <1>7 DEF Ownership
  <2>3. CASE UpdateStatus("sent")
    BY <2>1, <2>3, <1>6, <1>7
  <2>. QED  BY <1>20, <2>2, <2>3 DEF RemoteWriteSucceeds
<1>21. CASE RemoteWriteFails
  BY <1>21, <1>6, <1>7 DEF RemoteWriteFails, RemoteWrite
<1>22. CASE UpdateStatusReturns
  BY <1>22, <1>8 DEF UpdateStatusReturns, Return, Goto, Ownership
<1>. QED
  BY <1>9, <1>10, <1>11, <1>12, <1>13, <1>14, <1>15, <1>16, <1>17, <1>18, <1>19, <1>20, <1>21,
     <1>22 DEF ForwardStep

\* The other goroutines write to no slice, and hand out what is served already.
LEMMA OthersServe ==
  ASSUME ServingInv, [Next]_vars, ~(ForwardStep \/ UpdateStatusReturns)
  PROVE  UNCHANGED content /\ Ownership' /\ Served' \subseteq Served \cup {None}
<1>1. ASSUME UNCHANGED <<content, lastMetrics, snap, batch, report>>,
             pc' = pc \/ pc' \notin {"recording", "filter", "pack", "publish"}
      PROVE  UNCHANGED content /\ Ownership' /\ Served' \subseteq Served \cup {None}
  BY <1>1 DEF ServingInv, Ownership, Served
<1>2. ASSUME ReadInterval \/ BeginForward
      PROVE  UNCHANGED <<content, lastMetrics, snap, batch, report>> /\ pc' \in {"lock", "fetch"}
  BY <1>2 DEF ReadInterval, BeginForward, ForwardFrame, readerVars, statusVars
<1>3. ASSUME Stop \/ TimerFires \/ Wake
      PROVE  UNCHANGED <<content, lastMetrics, snap, batch, report>> /\ pc' \in {"done", "top"}
  BY <1>3 DEF Stop, TimerFires, Wake, SelectFrame, readerVars, statusVars
<1>4. ASSUME NEW c \in Callers, CallerStep(c)
      PROVE  UNCHANGED <<content, lastMetrics, snap, batch, report, pc>>
  BY <1>4 DEF CallerStep, CallReconfigure, NewFails, NewSucceeds, LockReconfigure, AssignField,
              Signal, UnlockReconfigure, CallerFrame, runVars, readerVars, statusVars
<1>5. CASE Cancel \/ UNCHANGED vars
  BY <1>1, <1>5 DEF Cancel, vars, runVars, readerVars, statusVars
<1>6. ASSUME NEW r \in Readers, ReaderStep(r)
      PROVE  UNCHANGED content /\ Ownership' /\ Served' \subseteq Served \cup {None}
  <2>1. UNCHANGED <<content, lastMetrics, batch, pc, report>>
    BY <1>6 DEF ReaderStep, CallLastMetrics, ReadLastMetrics, FinishEncoding, ReaderFrame, runVars, statusVars
  <2>2. \A q \in Readers : snap'[q] \in {snap[q], lastMetrics, None}
    BY <1>6 DEF ServingInv, TypeOK, ReaderStep, CallLastMetrics, ReadLastMetrics, FinishEncoding
  <2>3. Served' \subseteq Served \cup {None}
    BY <2>1, <2>2 DEF Served
  <2>. QED  BY <2>1, <2>3, WorkerAssumption DEF ServingInv, Ownership
<1>. QED  BY <1>1, <1>2, <1>3, <1>4, <1>5, <1>6 DEF Next, RunStep

LEMMA NextServingInv ==
  ASSUME ServingInv, [Next]_vars
  PROVE  ServingInv' /\ \A b \in Served \ {None} : content'[b] = content[b]
<1>1. TypeOK'
  BY NextTypeOK DEF ServingInv
<1>2. CASE ForwardStep \/ UpdateStatusReturns
  <2>1. ServedOnlyProcessed'
    BY <1>2, ForwardServes DEF ServingInv, ServedOnlyProcessed, Ownership
  <2>. QED  BY <1>1, <1>2, <2>1, ForwardServes DEF ServingInv
<1>3. CASE ~(ForwardStep \/ UpdateStatusReturns)
  <2>1. ServedOnlyProcessed'
    BY <1>3, OthersServe DEF ServingInv, ServedOnlyProcessed
  <2>. QED  BY <1>1, <1>3, <2>1, OthersServe DEF ServingInv
<1>. QED  BY <1>2, <1>3

\* /federate never hands out families that are not elided, anonymized and
\* packed to the end, for any number of readers.
THEOREM OnlyProcessedServed == Spec => []ServedOnlyProcessed
<1>1. ServingInv /\ [Next]_vars => ServingInv'
  BY NextServingInv
<1>2. ServingInv => ServedOnlyProcessed
  BY DEF ServingInv
<1>. QED  BY InitServingInv, <1>1, <1>2, PTL DEF Spec

\* What a handler of /federate encodes without the lock is never written to.
THEOREM ServedNeverModified == Spec => ServedIsImmutable
<1>1. ServingInv /\ [Next]_vars => ServingInv'
  BY NextServingInv
<1>2. ServingInv /\ [Next]_vars => [\A b \in Served \ {None} : content'[b] = content[b]]_vars
  BY NextServingInv
<1>. QED  BY InitServingInv, <1>1, <1>2, PTL DEF Spec, ServedIsImmutable

-----------------------------------------------------------------------------
(* What the addon tells.                                                   *)

\* A forward returns when its last UpdateStatus returns, with the outcome that
\* was reported; only a success on simulated files is not reported.
LEMMA ForwardTells ==
  ASSUME ForwardStep \/ UpdateStatusReturns
  PROVE  StatusTellsOutcome'
<1>1. ASSUME NEW message, UpdateStatus(message)
      PROVE  pc' = "reporting"
  BY <1>1 DEF UpdateStatus, Goto
<1>2. ASSUME ForwardStep, ~RemoteWriteSucceeds
      PROVE  pc' # "select"
  BY <1>1, <1>2 DEF ForwardStep, FetchSimulated, BeginFederate, FederateSucceeds, FederateFails,
     QueryRecordingRules, FilterSucceeds, FilterFails, Pack, Publish, NothingToSend,
     NotRequiredToSend, RemoteWriteFails, Goto
<1>3. CASE RemoteWriteSucceeds
  BY <1>1, <1>3 DEF RemoteWriteSucceeds, RemoteWrite, ForwardFrame, Return, StatusTellsOutcome
<1>4. CASE UpdateStatusReturns
  <2>1. ~stale' => status' = report
    <3>1. Addon!Return
      BY <1>4 DEF UpdateStatusReturns, StatusReturns
    <3>. QED  BY <3>1 DEF Addon!Return
  <2>2. \/ pc' = "filter"
        \/ report \in Degraded /\ outcome' = "error"
        \/ report \in Available /\ outcome' = "ok"
    BY <1>4 DEF UpdateStatusReturns, Goto, Return
  <2>. QED  BY <2>1, <2>2 DEF StatusTellsOutcome
<1>5. pc' # "select" => StatusTellsOutcome'
  BY DEF StatusTellsOutcome
<1>. QED  BY <1>2, <1>3, <1>4, <1>5

\* While the Run loop sleeps, the addon tells how the last forward ended,
\* unless its last update failed: no step but a forward's own changes it.
THEOREM OutcomeTold == Spec => []StatusTellsOutcome
<1>1. Init => StatusTellsOutcome
  BY DEF Init, StatusTellsOutcome
<1>2. ASSUME StatusTellsOutcome, [Next]_vars
      PROVE  StatusTellsOutcome'
  <2>1. CASE ForwardStep \/ UpdateStatusReturns
    BY <2>1, ForwardTells
  <2>2. ASSUME ReadInterval \/ BeginForward \/ Stop \/ TimerFires \/ Wake
        PROVE  pc' # "select"
    BY <2>2 DEF ReadInterval, BeginForward, Stop, TimerFires, Wake
  <2>3. ASSUME NEW c \in Callers, CallerStep(c)
        PROVE  UNCHANGED <<pc, outcome, mode, status, stale>>
    BY <2>3 DEF CallerStep, CallReconfigure, NewFails, NewSucceeds, LockReconfigure,
                AssignField, Signal, UnlockReconfigure, CallerFrame, runVars, statusVars
  <2>4. ASSUME NEW r \in Readers, ReaderStep(r)
        PROVE  UNCHANGED <<pc, outcome, mode, status, stale>>
    BY <2>4 DEF ReaderStep, CallLastMetrics, ReadLastMetrics, FinishEncoding, ReaderFrame,
                runVars, statusVars
  <2>5. ASSUME Cancel \/ UNCHANGED vars
        PROVE  UNCHANGED <<pc, outcome, mode, status, stale>>
    BY <2>5 DEF Cancel, vars, runVars, statusVars
  <2>. QED
    BY <1>2, <2>1, <2>2, <2>3, <2>4, <2>5 DEF Next, RunStep, StatusTellsOutcome
<1>. QED  BY <1>1, <1>2, PTL DEF Spec
=============================================================================
