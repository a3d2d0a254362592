---------------------------- MODULE StatusReport ----------------------------
(***************************************************************************)
(* StatusReport.UpdateStatus (pkg/status/status.go): the conditions of the *)
(* ObservabilityAddon, read from the API server, recomputed and written    *)
(* back with optimistic concurrency while others write to the same object. *)
(*                                                                         *)
(* One goroutine reports, the forward() of the Worker.  Every report has a *)
(* reason equal to its type, so a condition is its type, its status and    *)
(* its message.  (Without an API server, with STANDALONE set, UpdateStatus *)
(* does nothing: there is no object to be wrong about.)                    *)
(***************************************************************************)
EXTENDS Naturals, Sequences, FiniteSets

CONSTANTS
  Foreign  \* the types of the conditions that the object may have at first

ASSUME StatusReportAssumption == Foreign \cap {"Degraded", "Available"} = {}

VARIABLES
  conditions,  \* addon.Status.Conditions in the API server
  unchanged,   \* nobody has written the object since the last Get
  pc,          \* "idle", or the request that is on its way, "get" or "update"
  message,     \* the message that is, or was last, reported
  computed,    \* the conditions that the Update is about to write
  stale        \* the last UpdateStatus returned an error

vars == <<conditions, unchanged, pc, message, computed, stale>>

\* The messages forward() reports, by the type of their condition.
Degraded  == {"retrieve failed", "recording failed", "filter failed", "send failed"}
Available == {"nothing to send", "not required to send", "sent"}
Messages  == Degraded \cup Available

TypeOf(m) == IF m \in Degraded THEN "Degraded" ELSE "Available"

Types == {"Degraded", "Available"} \cup Foreign

Condition == [type : Types, status : BOOLEAN, message : Messages \cup {"other"}]

TypeOK ==
  /\ conditions \in Seq(Condition)
  /\ unchanged \in BOOLEAN
  /\ pc \in {"idle", "get", "update"}
  /\ message \in Messages
  /\ computed \in Seq(Condition)
  /\ stale \in BOOLEAN

\* The object has no condition yet, or one that the operator has set.
Init ==
  /\ conditions \in {<<>>} \cup
       {<<[type |-> t, status |-> TRUE, message |-> "other"]>> : t \in Foreign}
  /\ unchanged = TRUE
  /\ pc = "idle"
  /\ message \in Messages
  /\ computed = <<>>
  /\ stale = FALSE

-----------------------------------------------------------------------------
(* The conditions after a report.                                          *)

\* The condition that a report of m makes True.
Reported(m) == [type |-> TypeOf(m), status |-> TRUE, message |-> m]

\* Nothing has to be written: the condition is there as it should be.
UpToDate(cs, m) ==
  /\ \E i \in DOMAIN cs : cs[i] = Reported(m)
  /\ \A i \in DOMAIN cs : cs[i].type = TypeOf(m) => cs[i] = Reported(m)

\* A variant that does not notice an existing condition that is not True.
UpdatedDuplicates(cs, m) ==
  LET kept == SelectSeq(cs, LAMBDA c : c.type # TypeOf(m) \/ ~c.status)
  IN  Append([i \in DOMAIN kept |-> [kept[i] EXCEPT !.status = FALSE]], Reported(m))

\* A variant that updates a condition where it is.
UpdatedInPlace(cs, m) ==
  IF \E i \in DOMAIN cs : cs[i].type = TypeOf(m)
  THEN [i \in DOMAIN cs |-> IF cs[i].type = TypeOf(m) THEN Reported(m)
                            ELSE [cs[i] EXCEPT !.status = FALSE]]
  ELSE Append([i \in DOMAIN cs |-> [cs[i] EXCEPT !.status = FALSE]], Reported(m))

\* Whether the loop of UpdateStatus leaves c in the list, and as what.
Stays(c, m) == c.type # TypeOf(m) \/ c = Reported(m)
Lowered(c, m) == IF c.type = TypeOf(m) THEN c ELSE [c EXCEPT !.status = FALSE]

\* The variable conditions after k rounds of the loop: those of other types are no
\* longer True, and one of the reported type is left out, for it comes last.
Kept(cs, m) ==
  LET kept[k \in 0..Len(cs)] ==
        IF k = 0 THEN <<>>
        ELSE IF Stays(cs[k], m) THEN Append(kept[k - 1], Lowered(cs[k], m))
        ELSE kept[k - 1]
  IN  kept

Updated(cs, m) == Append(Kept(cs, m)[Len(cs)], Reported(m))

-----------------------------------------------------------------------------
(* UpdateStatus.                                                           *)

Return(failed) ==
  /\ pc' = "idle"
  /\ stale' = failed
  /\ UNCHANGED unchanged

\* forward() reports m.
Call(m) ==
  /\ pc = "idle"
  /\ message' = m
  /\ pc' = "get"
  /\ UNCHANGED <<conditions, unchanged, computed, stale>>

\* The Get fails: UpdateStatus returns its error.
GetFails ==
  /\ pc = "get"
  /\ Return(TRUE)
  /\ UNCHANGED <<conditions, message, computed>>

\* The Get shows that there is nothing to update.
GetIsEnough ==
  /\ pc = "get" /\ UpToDate(conditions, message)
  /\ Return(FALSE)
  /\ UNCHANGED <<conditions, message, computed>>

Get ==
  /\ pc = "get" /\ ~UpToDate(conditions, message)
  /\ unchanged' = TRUE
  /\ computed' = Updated(conditions, message)
  /\ pc' = "update"
  /\ UNCHANGED <<conditions, message, stale>>

\* The API server stores what was computed from the object it still has.
UpdateSucceeds ==
  /\ pc = "update" /\ unchanged
  /\ conditions' = computed
  /\ Return(FALSE)
  /\ UNCHANGED <<message, computed>>

\* A variant of the conflict that UpdateStatus does not report.
UpdateConflictIgnored ==
  /\ pc = "update" /\ ~unchanged
  /\ Return(FALSE)
  /\ UNCHANGED <<conditions, message, computed>>

\* The API server rejects an update of an object that has changed meanwhile.
UpdateConflicts ==
  /\ pc = "update" /\ ~unchanged
  /\ Return(TRUE)
  /\ UNCHANGED <<conditions, message, computed>>

\* The Update fails otherwise, perhaps after it was stored.
UpdateFails ==
  /\ pc = "update"
  /\ Return(TRUE)
  /\ conditions' = conditions \/ (unchanged /\ conditions' = computed)
  /\ UNCHANGED <<message, computed>>

\* Somebody else writes another part of the object.
OtherWrites ==
  /\ unchanged
  /\ unchanged' = FALSE
  /\ UNCHANGED <<conditions, pc, message, computed, stale>>

Next ==
  \/ \E m \in Messages : Call(m)
  \/ GetFails \/ GetIsEnough \/ Get
  \/ UpdateSucceeds \/ UpdateConflicts \/ UpdateFails
  \/ OtherWrites

Spec == Init /\ [][Next]_vars

-----------------------------------------------------------------------------
(* Properties.                                                             *)

OneEach(cs) == \A i, j \in DOMAIN cs : cs[i].type = cs[j].type => i = j

OnlyLastTrue(cs) == \A i \in DOMAIN cs : cs[i].status => i = Len(cs)

\* However long the collector runs, the list of conditions does not grow: each
\* type has one.
OneConditionPerType == OneEach(conditions)

\* The condition that became True last is the last one of the list, and the only
\* one that is True, whatever updates were lost or rejected in between: the addon
\* is never available and degraded at once.
TrueIsLast == OnlyLastTrue(conditions)

\* What is about to be written has these properties, too, and the condition that
\* is reported is the last one.
WriteInv ==
  pc = "update" =>
    /\ OneEach(computed) /\ OnlyLastTrue(computed)
    /\ computed # <<>> /\ computed[Len(computed)] = Reported(message)

\* The inductive invariant.
IndInv == TypeOK /\ OneConditionPerType /\ TrueIsLast /\ WriteInv

-----------------------------------------------------------------------------
(* UpdateStatus as the Worker sees it: AddonStatus.                        *)

\* The message of the reported condition that is True.
Status ==
  LET true == {i \in DOMAIN conditions :
                 conditions[i].status /\ conditions[i].type \in {"Degraded", "Available"}}
  IN  IF true = {} THEN "unset" ELSE conditions[CHOOSE i \in true : TRUE].message

Abstract == INSTANCE AddonStatus WITH
  status <- Status, call <- IF pc = "idle" THEN "none" ELSE message

\* When UpdateStatus returns without an error, the very message that it was called
\* with is in force; with an error, that message or the one before is.  In between,
\* and while others write to the object, nothing else comes into force.
ImplementsAddonStatus == Abstract!Spec
=============================================================================
