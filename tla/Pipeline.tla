------------------------------ MODULE Pipeline ------------------------------
(***************************************************************************)
(* What one forward does to the metric families it retrieved: Filter with  *)
(* the MultiTransformer that the collector builds (cmd/metrics-collector/  *)
(* main.go, createClients in pkg/forwarder/forwarder.go), then Pack, then  *)
(* the conversion to the series of the remote write request.  The other    *)
(* transformers of pkg/metricfamily are in a chain of their own.           *)
(*                                                                         *)
(* Everything is rewritten in place, and label pairs are objects that      *)
(* metrics refer to: the transformer that adds labels makes one pair per   *)
(* family and label, shared by all its metrics, and the anonymizer writes  *)
(* into the pairs.  A pair is identified by the family and the metric it   *)
(* was scraped with, or by the metric 0 if it was added; `hashes` counts   *)
(* how often its value was hashed.  A label set has no duplicate names, as *)
(* Prometheus guarantees for what is scraped.                              *)
(***************************************************************************)
EXTENDS Naturals, Sequences, SequencesExt, FiniteSets

CONSTANTS
  Inputs,      \* bound: the sequences of families that may be retrieved
  LibraryInputs, \* bound: those that the other transformers are given
  LabelNames,  \* label names, `__name__` among them
  Added,       \* those of --label
  Elided,      \* those of --elide-label
  Anonymized,  \* those of --anonymize-labels
  TooLong,     \* those whose name or value is too long to be sent
  Blank,       \* those whose value is empty
  Required,    \* those that NewRequiredLabels is given, each with a value
  LongNames,   \* names of families that are too long to be sent
  Whitelist,   \* matchsets: a set of names, and the labels a metric must have
  Renames,     \* --rename, a function from old names of families to new ones
  MinTime,     \* the oldest time that is not dropped (now - 24 hours)
  Now,         \* the present
  NoTime,      \* the timestamp of a sample without one
  Nil          \* a nil pointer to a family or to a metric

\* What is retrieved: families of samples.  The labels `other` have another value
\* than the one that NewRequiredLabels is given for their name.
Sample == [labels : SUBSET LabelNames, other : SUBSET LabelNames,
           time : Nat \cup {NoTime}, typed : BOOLEAN]
Shape  == [name : STRING, type : STRING, samples : Seq(Sample)]

\* What it is in memory: metrics with label pairs, in families.
LabelPair == [family : Nat, metric : Nat, name : LabelNames]
Metric == [id : Nat \ {0}, labels : SUBSET LabelPair, time : Nat \cup {NoTime}, typed : BOOLEAN]
MetricFamily == [index : Nat \ {0}, name : STRING, type : STRING, metric : Seq(Metric \cup {Nil})]

\* The label that convertToTimeseries puts before those of the metric.
NameLabel == "__name__"

ASSUME PipelineAssumption ==
  /\ NameLabel \in LabelNames
  /\ Added \cup Elided \cup Anonymized \cup TooLong \cup Blank \subseteq LabelNames
  /\ MinTime \in Nat \ {0} /\ Now \in Nat /\ NoTime \notin Nat
  /\ Nil \notin Metric /\ Nil \notin MetricFamily
  /\ Inputs \cup LibraryInputs \subseteq Seq(Shape)
  /\ Renames \in [DOMAIN Renames -> STRING]

VARIABLES
  input,     \* the families as they were retrieved
  families,  \* the slice that Filter works on
  stages,    \* the transformers of the MultiTransformer
  at,        \* the family that the loop of Filter, or of the conversion, has reached
  stage,     \* the transformer that comes next
  latest,    \* the field timestamp of DropUnsorted
  hashes,    \* how often the value of each label pair was hashed
  series,    \* what convertToTimeseries has made, and returns
  pc         \* "filter", "pack", "convert"; "done", "failed" or "unsupported"

filterVars == <<stages, at, stage, latest, hashes>>
vars == <<input, families, filterVars, series, pc>>

-----------------------------------------------------------------------------
(* Families, metrics and label pairs.                                      *)

Pair(f, m, name) == [family |-> f, metric |-> m, name |-> name]

\* The pairs that were scraped, and those that may be added.
AllPairs ==
  UNION {{Pair(f, m, name) : m \in 0..Len(input[f].samples), name \in LabelNames} :
           f \in DOMAIN input}

Metrics(f) == ToSet(f.metric) \ {Nil}

Names(m) == {p.name : p \in m.labels}

\* What a retrieved family with the samples `samples` looks like in memory.
Family(f, shape) ==
  [index |-> f, name |-> shape.name, type |-> shape.type,
   metric |-> [m \in DOMAIN shape.samples |->
                 [id |-> m,
                  labels |-> {Pair(f, m, name) : name \in shape.samples[m].labels},
                  time |-> shape.samples[m].time,
                  typed |-> shape.samples[m].typed]]]

\* The elements of s at the positions P, in their order: what PackMetrics and Pack
\* make of s, as module Pack shows, if P is where the elements to keep are.
Packed(s, P) ==
  {[k \in DOMAIN h |-> s[h[k]]] : h \in
     {h \in SetToSeqs(P) : \A k, l \in DOMAIN h : k < l => h[k] < h[l]}}

-----------------------------------------------------------------------------
(* The transformers.  Each maps the metrics of a family.                   *)

\* Applies op to every metric, as a loop that follows the pointers would.
EachMetric(f, op(_)) == [f EXCEPT !.metric = [k \in DOMAIN @ |-> op(@[k])]]

\* The pairs that one Transform of the label transformer makes.
AddedPairs == {Pair(at, 0, name) : name \in Added}

\* A variant that appends without looking for a label of that name.
AppendDuplicates(labels) == labels \cup AddedPairs

\* appendLabels: pairs of the same name are replaced, the others appended.
AppendLabels(labels) == {p \in labels : p.name \notin Added} \cup AddedPairs

Label(f) == EachMetric(f, LAMBDA m : [m EXCEPT !.labels = AppendLabels(@)])

Rename(f) ==
  IF f.name \in DOMAIN Renames THEN [f EXCEPT !.name = Renames[f.name]] ELSE f

Elide(f) ==
  EachMetric(f, LAMBDA m : [m EXCEPT !.labels = {p \in @ : p.name \notin Elided}])

\* errorInvalidFederateSamples and dropInvalidFederateSamples agree on these.
NameValid(name) == name # "" /\ name \notin LongNames
FamilyValid(f) == NameValid(f.name) /\ f.type \in {"simple", "composite"}
SampleValid(m) == m.time # NoTime /\ m.time >= MinTime /\ m.typed

\* A variant that drops what is exactly 24 hours old.
DropInvalidOffByOne(f) ==
  EachMetric(f, LAMBDA m :
    IF m = Nil \/ ~(SampleValid(m) /\ m.time > MinTime) THEN Nil
    ELSE [m EXCEPT !.labels = {p \in @ : p.name \notin TooLong}])

\* A variant that forgets to compare the type of the sample.
DropInvalidUntyped(f) ==
  EachMetric(f, LAMBDA m :
    IF m = Nil \/ m.time = NoTime \/ ~(m.time >= MinTime) THEN Nil
    ELSE [m EXCEPT !.labels = {p \in @ : p.name \notin TooLong}])

\* The labels that are too long go, and so do invalid samples.
DropInvalid(f) ==
  EachMetric(f, LAMBDA m :
    IF m = Nil \/ ~SampleValid(m) THEN Nil
    ELSE [m EXCEPT !.labels = {p \in @ : p.name \notin TooLong}])

PackMetrics(f) ==
  {[f EXCEPT !.metric = s] : s \in Packed(f.metric, {k \in DOMAIN f.metric : f.metric[k] # Nil})}

\* MetricsByTimestamp.Less, for metrics.
Earlier(a, b) ==
  \/ a = Nil /\ b # Nil
  \/ a # Nil /\ b # Nil /\ a.time = NoTime /\ b.time # NoTime
  \/ a # Nil /\ b # Nil /\ a.time # NoTime /\ b.time # NoTime /\ a.time < b.time

\* sort.Sort is not stable: any order that Less allows may come out.
Sorted(f) ==
  {[f EXCEPT !.metric = s] : s \in
     {t \in SetToSeqs(ToSet(f.metric)) :
        \A k, l \in DOMAIN t : k < l => ~Earlier(t[l], t[k])}}

\* transformMetricLabelValues hashes what it finds, metric by metric.
HashedPairs(f) ==
  [p \in DOMAIN hashes |->
     IF p.name \in Anonymized \ Blank
     THEN hashes[p] + Cardinality({m \in Metrics(f) : p \in m.labels})
     ELSE hashes[p]]

-----------------------------------------------------------------------------
(* Transformers that the collector does not use.                           *)

\* GetTimestampMs: a missing timestamp counts as 0.
TimeOf(m) == IF m.time = NoTime THEN 0 ELSE m.time

\* The labels of a metric that have the value that is required.
Right(m) == {p.name : p \in {q \in m.labels : q.name \notin input[q.family].samples[q.metric].other}}

\* match: all matchers of some matchset match the name or a label.  A matcher
\* is abstracted to the names, or to the label, that it matches.
Matches(name, labels) ==
  \E set \in Whitelist : name \in set.names /\ set.labels \subseteq labels

Whitelisted(f) ==
  EachMetric(f, LAMBDA m : IF m # Nil /\ Matches(f.name, Names(m)) THEN m ELSE Nil)

DropExpired(f) ==
  EachMetric(f, LAMBDA m : IF m = Nil \/ TimeOf(m) < MinTime THEN Nil ELSE m)

\* The field of DropUnsorted after n rounds of its loop: the last time it has kept.
LastKept(f) ==
  LET last[n \in 0..Len(f.metric)] ==
        IF n = 0 THEN latest
        ELSE IF f.metric[n] = Nil \/ TimeOf(f.metric[n]) < last[n - 1] THEN last[n - 1]
        ELSE TimeOf(f.metric[n])
  IN  last

\* What is older than that is dropped.
DropUnsorted(f) ==
  [f EXCEPT !.metric = [n \in DOMAIN @ |->
     IF @[n] = Nil \/ TimeOf(@[n]) < LastKept(f)[n - 1] THEN Nil ELSE @[n]]]

OverwriteTimestamps(f) == EachMetric(f, LAMBDA m : [m EXCEPT !.time = Now])

DropTimestamp(f) ==
  EachMetric(f, LAMBDA m : IF m = Nil THEN Nil ELSE [m EXCEPT !.time = NoTime])

\* errorOnUnsorted.Transform returns no error; timestamps may be required.
ErrorOnUnsortedAccepts(f, require) ==
  /\ require => \A m \in Metrics(f) : m.time # NoTime
  /\ \A k, l \in DOMAIN f.metric :
       k < l /\ f.metric[k] # Nil /\ f.metric[l] # Nil =>
         TimeOf(f.metric[k]) <= TimeOf(f.metric[l])

-----------------------------------------------------------------------------
(* Filter.                                                                 *)

\* A variant that drops samples before all metrics are relabelled.
StagesDropFirst == <<"drop", "label", "rename", "elide", "pack", "sort", "anonymize">>

\* A variant that anonymizes before the labels are added.
StagesAnonymizeFirst == <<"anonymize", "label", "rename", "elide", "drop", "pack", "sort">>

\* The order in which MultiTransformer.Transform applies them: the functions
\* given to WithFunc first, then what was given to With.
Stages == <<"label", "rename", "elide", "drop", "pack", "sort", "anonymize">>

\* One after the other, the transformers that the collector does not use.
LibraryStages == <<"whitelist", "require", "expired", "empty", "unsorted", "pack",
                   "errorUnsorted", "timeless", "overwrite">>

Init ==
  /\ \/ stages = Stages /\ input \in Inputs
     \/ stages = LibraryStages /\ input \in LibraryInputs
  /\ families = [f \in DOMAIN input |-> Family(f, input[f])]
  /\ at = 1
  /\ stage = 1
  /\ latest = 0
  /\ hashes = [p \in AllPairs |-> 0]
  /\ series = <<>>
  /\ pc = "filter"

InStage(s) == pc = "filter" /\ at <= Len(families) /\ stages[stage] = s

\* Transform returned ok: on to the next transformer, or to the next family.
Accept(f) ==
  /\ families' = [families EXCEPT ![at] = f]
  /\ IF stage < Len(stages) THEN stage' = stage + 1 /\ UNCHANGED at
     ELSE stage' = 1 /\ at' = at + 1
  /\ UNCHANGED <<input, stages, series, pc>>

\* A transformer rejects the family: Filter leaves it out.
Reject ==
  /\ families' = [families EXCEPT ![at] = Nil]
  /\ stage' = 1
  /\ at' = at + 1
  /\ UNCHANGED <<input, stages, series, pc>>

\* A transformer returns an error, and so does Filter.
Fail ==
  /\ pc' = "failed"
  /\ UNCHANGED <<input, families, stages, at, stage, series>>

\* The transformers that rewrite a family and accept it.
RewriteStep ==
  /\ \/ InStage("label")     /\ Accept(Label(families[at]))
     \/ InStage("rename")    /\ Accept(Rename(families[at]))
     \/ InStage("elide")     /\ Accept(Elide(families[at]))
     \/ InStage("sort")      /\ \E f \in Sorted(families[at]) : Accept(f)
     \/ InStage("expired")   /\ Accept(DropExpired(families[at]))
     \/ InStage("timeless")  /\ Accept(DropTimestamp(families[at]))
     \/ InStage("overwrite") /\ Accept(OverwriteTimestamps(families[at]))
  /\ UNCHANGED <<latest, hashes>>

DropStep ==
  /\ InStage("drop")
  /\ IF FamilyValid(families[at]) THEN Accept(DropInvalid(families[at]))
                                  ELSE Reject
  /\ UNCHANGED <<latest, hashes>>

PackStep ==
  /\ InStage("pack")
  /\ IF Metrics(families[at]) # {} THEN \E f \in PackMetrics(families[at]) : Accept(f)
                                   ELSE Reject
  /\ UNCHANGED <<latest, hashes>>

AnonymizeStep ==
  /\ InStage("anonymize")
  /\ Accept(families[at])
  /\ hashes' = HashedPairs(families[at])
  /\ UNCHANGED latest

\* At least one metric is to match.
WhitelistStep ==
  /\ InStage("whitelist")
  /\ LET f == Whitelisted(families[at]) IN
       IF Metrics(f) # {} THEN Accept(f) ELSE Reject
  /\ UNCHANGED <<latest, hashes>>

\* DropEmptyFamilies
EmptyStep ==
  /\ InStage("empty")
  /\ IF Metrics(families[at]) # {} THEN Accept(families[at]) ELSE Reject
  /\ UNCHANGED <<latest, hashes>>

\* A label that is missing, or that has another value, is an error.
RequireStep ==
  /\ InStage("require")
  /\ IF \A m \in Metrics(families[at]) : Required \subseteq Right(m)
     THEN Accept(families[at]) ELSE Fail
  /\ UNCHANGED <<latest, hashes>>

ErrorUnsortedStep ==
  /\ InStage("errorUnsorted")
  /\ IF ErrorOnUnsortedAccepts(families[at], FALSE) THEN Accept(families[at]) ELSE Fail
  /\ UNCHANGED <<latest, hashes>>

\* A variant that does not forget the last timestamp of a family.
UnsortedStepKeepsTime ==
  /\ InStage("unsorted")
  /\ LET f == DropUnsorted(families[at]) IN
       /\ Accept(f)
       /\ latest' = IF Metrics(f) = {} THEN latest
                    ELSE CHOOSE t \in {TimeOf(m) : m \in Metrics(f)} :
                           \A m \in Metrics(f) : TimeOf(m) <= t
  /\ UNCHANGED hashes

UnsortedStep ==
  /\ InStage("unsorted")
  /\ Accept(DropUnsorted(families[at]))
  /\ latest' = 0
  /\ UNCHANGED hashes

\* Filter returns nil, whatever was left out.
EndFilter ==
  /\ pc = "filter" /\ at > Len(families)
  /\ pc' = "pack"
  /\ UNCHANGED <<input, families, filterVars, series>>

PackFamilies ==
  /\ pc = "pack"
  /\ families' \in Packed(families, {f \in DOMAIN families :
                                       families[f] # Nil /\ Len(families[f].metric) > 0})
  /\ pc' = "convert"
  /\ at' = 1
  /\ UNCHANGED <<input, stages, stage, latest, hashes, series>>

\* How many labels of each name the series of a metric gets: the name of the
\* family comes first, whatever labels the metric has.
LabelCounts(m) ==
  [name \in LabelNames |-> (IF name = NameLabel THEN 1 ELSE 0)
                             + Cardinality({p \in m.labels : p.name = name})]

\* The series of a sample: its time is not in the future.
Series(f, m) ==
  [family |-> f.index, id |-> m.id, name |-> f.name, labels |-> LabelCounts(m),
   time |-> IF m.time > Now THEN Now ELSE m.time]

\* convertToTimeseries goes on with the next family.
ConvertFrame == UNCHANGED <<input, families, stages, stage, latest, hashes>>

\* A variant that leaves families of an unsupported type out.
ConvertSkips ==
  /\ pc = "convert" /\ at <= Len(families)
  /\ series' = IF families[at].type # "simple" THEN series
               ELSE series \o [k \in DOMAIN families[at].metric |->
                                 Series(families[at], families[at].metric[k])]
  /\ at' = at + 1
  /\ UNCHANGED pc /\ ConvertFrame

\* A round of the loop over the families; a histogram or a summary is an error.
Convert ==
  /\ pc = "convert" /\ at <= Len(families)
  /\ IF families[at].type # "simple" THEN pc' = "unsupported" /\ UNCHANGED <<at, series>>
     ELSE /\ series' = series \o [k \in DOMAIN families[at].metric |->
                                   Series(families[at], families[at].metric[k])]
          /\ at' = at + 1
          /\ UNCHANGED pc
  /\ ConvertFrame

EndConvert ==
  /\ pc = "convert" /\ at > Len(families)
  /\ pc' = "done"
  /\ UNCHANGED <<at, series>> /\ ConvertFrame

Next ==
  \/ RewriteStep \/ DropStep \/ PackStep \/ AnonymizeStep
  \/ WhitelistStep \/ EmptyStep \/ RequireStep \/ ErrorUnsortedStep \/ UnsortedStep
  \/ EndFilter \/ PackFamilies \/ Convert \/ EndConvert

Spec == Init /\ [][Next]_vars

-----------------------------------------------------------------------------
(* Properties.                                                             *)

\* errorInvalidFederateSamples.Transform returns no error.
ErrorInvalidAccepts(f) ==
  /\ FamilyValid(f)
  /\ \A m \in Metrics(f) : SampleValid(m) /\ Names(m) \cap TooLong = {}

\* No transformer follows a nil pointer: label, elide and overwrite dereference
\* every metric (label.go:47, elide.go:29, overwrite.go:34), while others leave
\* nil metrics behind.
NoNilDereferenced ==
  (\E s \in {"label", "elide", "overwrite"} : InStage(s)) => Nil \notin ToSet(families[at].metric)

\* What the collector's chain leaves is what convertToTimeseries dereferences
\* without a check, and what the checking transformers of the package accept:
\* named and typed families of samples that are there, valid, recent, in order.
AcceptedByChecks ==
  pc \in {"convert", "done"} /\ stages = Stages => \A f \in ToSet(families) :
    /\ f.metric # <<>> /\ Nil \notin ToSet(f.metric)
    /\ ErrorInvalidAccepts(f) /\ ErrorOnUnsortedAccepts(f, TRUE)

\* The labels that a sample is to have in the end.
Expected(sample) == (sample.labels \cup Added) \ (Elided \cup TooLong)

\* No valid sample of a valid family is lost, neither with invalid ones nor
\* while slices are compacted and sorted in place: there is one series for it,
\* under the name that --rename gives to its family, with every label that it
\* should have once, besides the name, and none that is elided, even if --label
\* adds it, and with its time, or the present one for a future one.
NoValidSampleLost ==
  pc = "done" /\ stages = Stages =>
    \A f \in DOMAIN input : \A k \in DOMAIN input[f].samples :
      LET sample == input[f].samples[k] IN
      FamilyValid(Rename(input[f])) /\ SampleValid(sample) =>
        \E n \in DOMAIN series :
          /\ series[n] =
               [family |-> f, id |-> k, name |-> Rename(input[f]).name,
                labels |-> [name \in LabelNames |->
                              (IF name = NameLabel THEN 1 ELSE 0)
                                + (IF name \in Expected(sample) THEN 1 ELSE 0)],
                time |-> IF sample.time <= Now THEN sample.time ELSE Now]
          /\ \A l \in DOMAIN series : series[l] = series[n] => l = n

\* The conversion fails as a whole, and only for a family of a type that it
\* does not support and that has a valid sample: such a family makes every
\* forward fail that retrieves it, whatever else was retrieved.
FailsForUnsupported ==
  stages = Stages /\ pc \in {"done", "unsupported"} =>
    (pc = "unsupported" <=>
      \E f \in DOMAIN input :
        /\ input[f].type = "composite" /\ NameValid(Rename(input[f]).name)
        /\ \E k \in DOMAIN input[f].samples : SampleValid(input[f].samples[k]))

\* A series has two labels of one name, which the endpoint would refuse, exactly
\* if its sample has a label __name__ in the end: one that came with it, as with
\* the answers to the recording rules (metricsclient.go:155-164), or was given by
\* --label, and was neither elided nor too long.  Nothing else repeats a label.
OnlyNameRepeats ==
  stages = Stages => \A n \in DOMAIN series : \A name \in LabelNames :
    LET sample == input[series[n].family].samples[series[n].id] IN
    series[n].labels[name] > 1 <=> name = NameLabel /\ name \in Expected(sample)

\* What is to be anonymized is hashed: a scraped value exactly once, an added
\* one, whose pair is shared, at least once; and nothing else is.
AnonymizedIsHashed ==
  pc = "done" /\ stages = Stages =>
    \A f \in ToSet(families) : \A m \in Metrics(f) : \A p \in m.labels :
      /\ p.name \in Anonymized \ Blank => hashes[p] >= 1
      /\ p.name \in Anonymized \ Blank /\ p.metric # 0 => hashes[p] = 1
      /\ p.name \notin Anonymized \ Blank => hashes[p] = 0

\* The samples of a family that match the whitelist and are not expired, and those of
\* them that are not older than one before them.
Eligible(shape) ==
  {n \in DOMAIN shape.samples :
     Matches(shape.name, shape.samples[n].labels) /\ TimeOf(shape.samples[n]) >= MinTime}

InOrder(shape) ==
  {n \in Eligible(shape) : \A l \in Eligible(shape) :
     l < n => TimeOf(shape.samples[l]) <= TimeOf(shape.samples[n])}

\* A sample that matches lacks a label that is required, or has another value for it.
Unfit(shape) ==
  \E k \in DOMAIN shape.samples :
    /\ Matches(shape.name, shape.samples[k].labels)
    /\ ~(Required \subseteq shape.samples[k].labels \ shape.samples[k].other)

\* The transformers that the collector does not use agree with each other.
\* Filter fails exactly at a family with a sample that matches the whitelist and
\* in which a required label is missing or has another value: nothing that
\* DropUnsorted leaves is unsorted for NewErrorOnUnsorted.  Otherwise what is
\* left is what is eligible and not older than an eligible sample before it in
\* its own family, whatever is in the families before, although DropUnsorted
\* keeps a field from call to call.
LibraryAgrees ==
  /\ pc = "failed" => Unfit(input[at])
  /\ pc \in {"convert", "done"} /\ stages = LibraryStages =>
       \A f \in DOMAIN input :
         /\ ~Unfit(input[f])
         /\ {m.id : m \in UNION {Metrics(g) : g \in {h \in ToSet(families) : h.index = f}}} =
              InOrder(input[f])

\* "label values are expected to remain stable over many sessions"
\* (anonymize.go:19): the hash of a value does not depend on how many samples
\* its family happens to have.
HashedOnce == pc = "done" => \A p \in DOMAIN hashes : hashes[p] <= 1
=============================================================================
