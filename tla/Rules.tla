-------------------------------- MODULE Rules --------------------------------
(***************************************************************************)
(* The match rules and the recording rules, from the flags to the requests *)
(* (New, getFederateMetrics and getRecordingMetrics in                     *)
(* pkg/forwarder/forwarder.go).                                            *)
(*                                                                         *)
(* main hands the same Config to every call of New, so that all Workers    *)
(* are made from the same two arrays of strings.  New appends the lines of *)
(* the match file to the slice of the flags, which writes into the array   *)
(* if its capacity suffices, and then trims the rules and removes blank    *)
(* ones in place: outside the lock, while the Run loop may read the slices *)
(* of the installed Worker, and while another New does the same.           *)
(*                                                                         *)
(* A string is a model value; it is read and written as a whole.  So are   *)
(* the bytes that one append moves.                                        *)
(***************************************************************************)
EXTENDS Naturals, Sequences, SequencesExt

CONSTANTS
  Main,       \* the goroutine that starts the process
  Callers,    \* the goroutines that call Reconfigure
  Setups,     \* bound: the flags [match, recording, file] of the process
  Files,      \* bound: the contents of the match file, sequences of lines
  Trim,       \* strings.TrimSpace, a function on the strings
  Blank,      \* the empty string
  Malformed,  \* the recording rules that are not JSON
  MaxCalls,   \* bound: how many calls of Reconfigure may begin
  Sizes,      \* the capacities that an array takes when strings are appended one by one
  None        \* no Worker yet

Strings == DOMAIN Trim

Kinds == {"match", "recording"}

\* An answer to the query of a rule.  One that cannot be decoded has no families.
Answer == [rule : Strings, decoded : BOOLEAN]

\* A file has at least one line, an empty one if the file is empty.
ASSUME RulesAssumption ==
  /\ Main \notin Callers
  /\ Files \subseteq Seq(Strings) \ {<<>>}
  /\ \A s \in Strings : Trim[s] \in Strings /\ Trim[Trim[s]] = Trim[s]
  /\ Blank \in Strings /\ Trim[Blank] = Blank
  /\ Setups \subseteq [match : Seq(Strings), recording : Seq(Strings), file : BOOLEAN]
  /\ Sizes \subseteq Nat
  /\ \A s \in Setups : \A kind \in Kinds : \E size \in Sizes : Len(s[kind]) <= size
  /\ None \notin [Kinds -> [copy : Seq(Strings), len : Nat]]

VARIABLES
  setup,     \* the flags: two sequences of rules, and whether there is a file
  array,     \* the arrays behind cfg.Rules and cfg.RecordingRules
  job,       \* the call of New, or Reconfigure, of each goroutine
  calls,     \* how many calls of Reconfigure have begun
  worker,    \* w.rules and w.recordingRules of the Worker in use
  wanted,    \* history: the rules these were to be
  pc,        \* where forward() is; it holds the lock unless this is "idle"
  k,         \* the rule that its loop has reached
  params,    \* the parameters v that it has collected
  url,       \* the path and the query of the URL that all Workers share
  sent,      \* the requests of the current or the last forward
  recorded   \* the locals of getRecordingMetrics: the answers whose families it
             \* has appended, whether there was an error, and originPath

forwardVars == <<pc, k, params, url, sent, recorded>>
vars == <<setup, array, job, calls, worker, wanted, forwardVars>>

-----------------------------------------------------------------------------
(* Slices.                                                                 *)

\* A slice has an array of its own, `copy`, or else the one of the Config.
Shared(n) == [copy |-> <<>>, len |-> n]

Elements(kind, slice) == IF slice.copy = <<>> THEN array[kind] ELSE slice.copy

Value(kind, slice) == SubSeq(Elements(kind, slice), 1, slice.len)

\* A variant of the flag library that leaves room for one more.
CapacityWithRoom(n) == n + 1

\* The capacity of a slice after n strings were appended one by one.
Capacity(n) ==
  CHOOSE c \in Sizes : c >= n /\ \A d \in Sizes : d >= n => c <= d

\* Of the first n strings, for every n, those that are not in drop.
UpTo(strings, drop) ==
  LET rest[n \in 0..Len(strings)] ==
        IF n = 0 THEN <<>>
        ELSE IF strings[n] \in drop THEN rest[n - 1] ELSE Append(rest[n - 1], strings[n])
  IN  rest

Without(strings, drop) == UpTo(strings, drop)[Len(strings)]

Trimmed(strings) == [n \in DOMAIN strings |-> Trim[strings[n]]]

\* What the rules should be: trimmed, without blank ones, in order.
KeptUpTo(strings) == UpTo(Trimmed(strings), {Blank})

Kept(strings) == KeptUpTo(strings)[Len(strings)]

Idle == [at |-> "idle", kind |-> "match", slices |-> [kind \in Kinds |-> Shared(0)],
         i |-> 1, text |-> Blank, lines |-> <<>>]

Init ==
  /\ setup \in Setups
  /\ array = [kind \in Kinds |->
       [n \in 1..Capacity(Len(setup[kind])) |->
          IF n <= Len(setup[kind]) THEN setup[kind][n] ELSE Blank]]
  /\ job = [c \in Callers \cup {Main} |-> Idle]
  /\ calls = 0
  /\ worker = None
  /\ wanted = [kind \in Kinds |-> <<>>]
  /\ pc = "idle"
  /\ k = 1
  /\ params = <<>>
  /\ url = [path |-> "federate", query |-> <<>>]
  /\ sent = <<>>
  /\ recorded = [answers |-> <<>>, error |-> FALSE, origin |-> "federate"]

-----------------------------------------------------------------------------
(* New.                                                                    *)

NewFrame == UNCHANGED <<setup, worker, wanted, forwardVars>>

\* main calls New once; after that, the others call Reconfigure.
CallNew(c) ==
  /\ job[c].at = "idle"
  /\ IF c = Main THEN worker = None /\ UNCHANGED calls
     ELSE worker # None /\ calls < MaxCalls /\ calls' = calls + 1
  /\ job' = [job EXCEPT ![c] = [Idle EXCEPT !.at = "rules"]]
  /\ UNCHANGED array /\ NewFrame

\* New returns an error (createClients, the match file, status.New): a reload
\* leaves the Worker in use, and the process that cannot start ends.
NewFails(c) ==
  /\ job[c].at \in {"rules", "status"}
  /\ job' = [job EXCEPT ![c] = IF c = Main THEN [Idle EXCEPT !.at = "failed"] ELSE Idle]
  /\ UNCHANGED <<array, calls>> /\ NewFrame

\* `rules := cfg.Rules`, without a file.
TakeFlags(c) ==
  /\ job[c].at = "rules" /\ ~setup.file
  /\ job' = [job EXCEPT ![c].at = "trim",
                        ![c].slices["match"] = Shared(Len(setup.match))]
  /\ UNCHANGED <<array, calls>> /\ NewFrame

\* `append(rules, lines...)`: behind the flags if the array has room for the
\* lines, else into a new array.
AppendFile(c) ==
  /\ job[c].at = "rules" /\ setup.file
  /\ \E lines \in Files :
       LET n   == Len(setup.match)
           all == SubSeq(array["match"], 1, n) \o lines
           inPlace == Len(all) <= Len(array["match"])
       IN  /\ array' = IF inPlace
                       THEN [array EXCEPT !["match"] = all \o SubSeq(@, Len(all) + 1, Len(@))]
                       ELSE array
           /\ job' = [job EXCEPT ![c].at = "trim", ![c].lines = lines,
                        ![c].slices["match"] = [copy |-> IF inPlace THEN <<>> ELSE all,
                                                len  |-> Len(all)]]
  /\ UNCHANGED calls /\ NewFrame

\* The loop over the rules: `s := strings.TrimSpace(rules[i])`.
TrimRule(c) ==
  LET slice == job[c].slices[job[c].kind] IN
  /\ job[c].at = "trim" /\ job[c].i <= slice.len
  /\ job' = [job EXCEPT ![c].at = "store",
                        ![c].text = Trim[Elements(job[c].kind, slice)[job[c].i]]]
  /\ UNCHANGED <<array, calls>> /\ NewFrame

\* The round ends with the array `elements` behind a slice of length n.
Store(c, elements, n, i) ==
  LET kind == job[c].kind
      own  == job[c].slices[kind].copy # <<>>
  IN  /\ array' = IF own THEN array ELSE [array EXCEPT ![kind] = elements]
      /\ job' = [job EXCEPT ![c].at = "trim", ![c].i = i,
                            ![c].slices[kind] = [copy |-> IF own THEN elements ELSE <<>>,
                                                 len  |-> n]]
      /\ UNCHANGED calls /\ NewFrame

\* `rules[i] = s`
KeepRule(c) ==
  LET slice == job[c].slices[job[c].kind] IN
  /\ job[c].at = "store" /\ job[c].text # Blank
  /\ Store(c, [Elements(job[c].kind, slice) EXCEPT ![job[c].i] = job[c].text],
           slice.len, job[c].i + 1)

\* `append(rules[:i], rules[i+1:]...)`: the rest moves down by one, and the
\* last element stays where it was, too.
DropRule(c) ==
  LET slice    == job[c].slices[job[c].kind]
      elements == Elements(job[c].kind, slice)
  IN  /\ job[c].at = "store" /\ job[c].text = Blank
      /\ Store(c, [p \in DOMAIN elements |->
                     IF job[c].i <= p /\ p < slice.len THEN elements[p + 1] ELSE elements[p]],
               slice.len - 1, job[c].i)

\* The match rules are done: `recordingRules := cfg.RecordingRules`.
TakeRecordingRules(c) ==
  /\ job[c].at = "trim" /\ job[c].kind = "match"
  /\ job[c].i > job[c].slices["match"].len
  /\ job' = [job EXCEPT ![c].kind = "recording", ![c].i = 1,
                        ![c].slices["recording"] = Shared(Len(setup.recording))]
  /\ UNCHANGED <<array, calls>> /\ NewFrame

\* So are the recording rules: what is left is status.New, which may fail.
EndRules(c) ==
  /\ job[c].at = "trim" /\ job[c].kind = "recording"
  /\ job[c].i > job[c].slices["recording"].len
  /\ job' = [job EXCEPT ![c].at = "status"]
  /\ UNCHANGED <<array, calls>> /\ NewFrame

\* The Worker that New returns to main is used; Reconfigure copies the slices
\* of its own one into it, holding the lock.
Install(c) ==
  /\ job[c].at = "status"
  /\ pc = "idle"
  /\ worker' = job[c].slices
  /\ wanted' = [match     |-> Kept(setup.match \o job[c].lines),
                recording |-> Kept(setup.recording)]
  /\ job' = [job EXCEPT ![c] = Idle]
  /\ UNCHANGED <<setup, array, calls, forwardVars>>

-----------------------------------------------------------------------------
(* forward(), with the lock.                                               *)

ForwardFrame == UNCHANGED <<setup, array, job, calls, worker, wanted>>

InstalledRule(kind) == Elements(kind, worker[kind])[k]

AnswerTo(rule, decoded) == [rule |-> rule, decoded |-> decoded]

Request == [path |-> url'.path, query |-> url'.query]

\* A variant that forgets to reset the query.
BeginForwardKeepsQuery ==
  /\ pc = "idle" /\ worker # None
  /\ pc' = "match" /\ k' = 1 /\ sent' = <<>>
  /\ params' = url.query
  /\ recorded' = [recorded EXCEPT !.answers = <<>>, !.error = FALSE]
  /\ UNCHANGED url /\ ForwardFrame

\* getFederateMetrics begins with the query reset.
BeginForward ==
  /\ pc = "idle" /\ worker # None
  /\ pc' = "match" /\ k' = 1 /\ sent' = <<>>
  /\ url' = [url EXCEPT !.query = <<>>]
  /\ params' = <<>>
  /\ recorded' = [recorded EXCEPT !.answers = <<>>, !.error = FALSE]
  /\ ForwardFrame

\* `v.Add("match[]", rule)`
AddMatch ==
  /\ pc = "match" /\ k <= worker["match"].len
  /\ params' = Append(params, InstalledRule("match"))
  /\ k' = k + 1
  /\ UNCHANGED <<pc, url, sent, recorded>> /\ ForwardFrame

\* The request is sent and fails: forward returns.
FederateFails ==
  /\ pc = "match" /\ k > worker["match"].len
  /\ url' = [url EXCEPT !.query = params]
  /\ sent' = Append(sent, Request)
  /\ pc' = "idle"
  /\ UNCHANGED <<k, params, recorded>> /\ ForwardFrame

\* The request is sent and answered: getRecordingMetrics sets its path.
FederateSucceeds ==
  /\ pc = "match" /\ k > worker["match"].len
  /\ sent' = Append(sent, [path |-> url.path, query |-> params])
  /\ url' = [path |-> "query", query |-> params]
  /\ recorded' = [answers |-> <<>>, error |-> FALSE, origin |-> url.path]
  /\ pc' = "recording" /\ k' = 1
  /\ UNCHANGED params /\ ForwardFrame

\* A rule that is not JSON is skipped.
SkipMalformed ==
  /\ pc = "recording" /\ k <= worker["recording"].len
  /\ InstalledRule("recording") \in Malformed
  /\ recorded' = [recorded EXCEPT !.error = TRUE]
  /\ k' = k + 1
  /\ UNCHANGED <<pc, params, url, sent>> /\ ForwardFrame

\* A variant in which a query that succeeds hides the error of an earlier one.
QueryRuleHidesError ==
  /\ pc = "recording" /\ k <= worker["recording"].len
  /\ InstalledRule("recording") \notin Malformed
  /\ url' = [url EXCEPT !.query = <<InstalledRule("recording")>>]
  /\ sent' = Append(sent, Request)
  /\ \/ \E decoded \in BOOLEAN :
          recorded' = [recorded EXCEPT !.error = FALSE,
                         !.answers = Append(@, AnswerTo(InstalledRule("recording"), decoded))]
     \/ recorded' = [recorded EXCEPT !.error = TRUE]
  /\ k' = k + 1
  /\ UNCHANGED <<pc, params>> /\ ForwardFrame

\* A query replaces the one before it, is sent, and fails or is answered.  An
\* answer that cannot be decoded is logged, and is no error: it has no families.
QueryRule ==
  /\ pc = "recording" /\ k <= worker["recording"].len
  /\ InstalledRule("recording") \notin Malformed
  /\ url' = [url EXCEPT !.query = <<InstalledRule("recording")>>]
  /\ sent' = Append(sent, Request)
  /\ \/ \E decoded \in BOOLEAN :
          recorded' = [recorded EXCEPT
                         !.answers = Append(@, AnswerTo(InstalledRule("recording"), decoded))]
     \/ recorded' = [recorded EXCEPT !.error = TRUE]
  /\ k' = k + 1
  /\ UNCHANGED <<pc, params>> /\ ForwardFrame

\* The deferred reset of the path; forward leaves all families of recording
\* rules out if there was an error, and goes on.
EndRecording ==
  /\ pc = "recording" /\ k > worker["recording"].len
  /\ url' = [url EXCEPT !.path = recorded.origin]
  /\ recorded' = IF recorded.error THEN [recorded EXCEPT !.answers = <<>>] ELSE recorded
  /\ pc' = "idle"
  /\ UNCHANGED <<k, params, sent>> /\ ForwardFrame

-----------------------------------------------------------------------------

NewStep(c) ==
  \/ CallNew(c) \/ NewFails(c) \/ TakeFlags(c) \/ AppendFile(c)
  \/ TrimRule(c) \/ KeepRule(c) \/ DropRule(c)
  \/ TakeRecordingRules(c) \/ EndRules(c) \/ Install(c)

ForwardStep ==
  \/ BeginForward \/ AddMatch \/ FederateFails \/ FederateSucceeds
  \/ SkipMalformed \/ QueryRule \/ EndRecording

Next == (\E c \in Callers \cup {Main} : NewStep(c)) \/ ForwardStep

Spec == Init /\ [][Next]_vars

-----------------------------------------------------------------------------
(* Properties.                                                             *)

\* s has the elements of t, in order, and may repeat some of them at the end.
\* A blank rule that was removed once leaves the last rule in the array twice,
\* so that the next New finds it twice.
RepeatsOf(s, t) == IsPrefix(t, s) /\ ToSet(s) = ToSet(t)

\* The rules of the queries after the first request.
Queries == [n \in 1..(Len(sent) - 1) |-> sent[n + 1].query[1]]

\* A forward asks for the rules of the installed configuration, for all of
\* them, and for nothing else: although reloads rewrite the arrays that the
\* rules are in, and although all requests go through one URL object whose
\* path and query are set for each.
AsksForInstalledRules ==
  pc = "recording" =>
    /\ sent[1].path = "federate" /\ RepeatsOf(sent[1].query, wanted["match"])
    /\ \A n \in 2..Len(sent) : sent[n].path = "query" /\ Len(sent[n].query) = 1
    /\ k > worker["recording"].len =>
         RepeatsOf(Queries, Without(wanted["recording"], Malformed))

\* There is an answer to each query of the k - 1 rules so far.
AllAnswered ==
  /\ Len(recorded.answers) = k - 1 /\ Len(Queries) = k - 1
  /\ \A n \in 1..(k - 1) : recorded.answers[n].rule = Queries[n]

\* If one of several recording queries fails, or one of the rules is malformed,
\* nothing of any answer is forwarded; otherwise there is an answer to each of
\* them, and a rule has no families only if its own could not be decoded
\* (metricsclient.go:120-126), or was an empty one.
AllAnsweredOrNone == pc = "idle" /\ recorded.answers # <<>> => AllAnswered

\* "all access to shared fields are synchronized" (forwarder.go:88): the rules
\* that the Run loop reads change only when a Worker is installed, which takes
\* the lock, and not while some New, which may fail yet, works on its own ones.
InstalledRules == [kind \in Kinds |-> Value(kind, worker[kind])]

InstalledRulesStay ==
  [][worker # None /\ worker' = worker => InstalledRules' = InstalledRules]_vars

-----------------------------------------------------------------------------
(* The inductive invariants.                                               *)

\* No match file fits behind the flags.
NoRoom ==
  \A s \in Setups : s.file =>
    \A lines \in Files : Len(s.match) + Len(lines) > Capacity(Len(s.match))

Slice == [copy : Seq(Strings), len : Nat]

Job == [at : {"idle", "failed", "rules", "trim", "store", "status"}, kind : Kinds,
        slices : [Kinds -> Slice], i : Nat \ {0}, text : Strings, lines : Seq(Strings)]

TypeOK ==
  /\ setup \in Setups
  /\ array \in [Kinds -> Seq(Strings)]
  /\ job \in [Callers \cup {Main} -> Job]
  /\ worker \in [Kinds -> Slice] \cup {None}
  /\ wanted \in [Kinds -> Seq(Strings)]
  /\ pc \in {"idle", "match", "recording"}
  /\ k \in Nat \ {0}
  /\ params \in Seq(Strings)
  /\ url \in [path : {"federate", "query"}, query : Seq(Strings)]
  /\ sent \in Seq([path : {"federate", "query"}, query : Seq(Strings)])
  /\ recorded \in [answers : Seq(Answer), error : BOOLEAN, origin : {"federate", "query"}]

\* Slices stay within their arrays, and the loops within their slices.
Fits ==
  /\ \A kind \in Kinds : Len(array[kind]) = Capacity(Len(setup[kind]))
  /\ \A c \in DOMAIN job : \A kind \in Kinds :
       job[c].slices[kind].len <= Len(Elements(kind, job[c].slices[kind]))
  /\ \A c \in DOMAIN job :
       job[c].at = "store" => job[c].i <= job[c].slices[job[c].kind].len
  /\ worker # None => \A kind \in Kinds : worker[kind].len <= Len(Elements(kind, worker[kind]))
  /\ pc # "idle" => worker # None

\* Without an error so far, there is an answer for every rule so far.
RecordedInv ==
  /\ pc = "match" => sent = <<>> /\ recorded.answers = <<>>
  /\ pc = "recording" => sent # <<>>
  /\ pc = "recording" /\ ~recorded.error => AllAnswered
  /\ pc = "idle" /\ recorded.answers # <<>> => AllAnswered

\* This much holds whether or not a match file fits behind the flags.
BaseInv == TypeOK /\ Fits /\ RecordedInv

\* Behind a match file there is an array for each call of New.
Copied(kind) == kind = "match" /\ setup.file

\* The rules as they were given.
Raw(kind, lines) == IF Copied(kind) THEN setup.match \o lines ELSE setup[kind]

\* The loop has reached i with the rules before it as they should be, and the
\* others as they were given, each as far to the front as rules were removed.
Looped(elements, raw, len, i) ==
  LET moved == Len(raw) - len
      kept  == KeptUpTo(raw)[i + moved - 1]
  IN  /\ len <= Len(raw) /\ i <= len + 1
      /\ Len(kept) = i - 1
      /\ \A p \in 1..(i - 1) : elements[p] = kept[p]
      /\ \A p \in i..Len(raw) :
           elements[p] = raw[IF p + moved <= Len(raw) THEN p + moved ELSE Len(raw)]

\* An array that some New is done with: the rules as they should be, and then
\* only the last one that was given.
Clean(kind) ==
  LET raw  == setup[kind]
      kept == Kept(raw)
  IN  /\ \A p \in 1..Len(kept) : array[kind][p] = kept[p]
      /\ \A p \in (Len(kept) + 1)..Len(raw) :
           array[kind][p] \in {Last(raw), Trim[Last(raw)]}

\* A later New goes over it again, and may end up with the last rule repeated.
Again(kind, slice, i) ==
  LET raw == setup[kind]
      m   == Len(Kept(raw))
  IN  /\ Clean(kind)
      /\ m <= slice.len /\ slice.len <= Len(raw) /\ i <= slice.len + 1
      /\ raw # <<>> /\ Trim[Last(raw)] = Blank => i <= m + 1
      /\ \A p \in (m + 1)..(i - 1) : array[kind][p] = Trim[Last(raw)]

\* The place in the rules that should be there, of the p-th one that is.
Clamp(p, kept) == IF p <= Len(kept) THEN p ELSE Len(kept)

\* A slice that a New is done with has the rules that it should have, and may
\* repeat the last one.
Done(kind, slice, kept) ==
  /\ slice.copy = <<>> <=> ~Copied(kind)
  /\ Len(kept) <= slice.len
  /\ kept = <<>> => slice.len = 0
  /\ \A p \in 1..slice.len : Elements(kind, slice)[p] = kept[Clamp(p, kept)]
  /\ ~Copied(kind) =>
       /\ Clean(kind)
       /\ kept = Kept(setup[kind]) /\ slice.len <= Len(setup[kind])
       /\ Len(kept) < slice.len => Trim[Last(setup[kind])] # Blank

\* The first New, of main, is alone with the arrays; so is each with its copy.
Alone(kind) == Copied(kind) \/ worker = None

\* What a call of New in its loop knows of its rules.
LoopInv(c) ==
  LET kind  == job[c].kind
      slice == job[c].slices[kind]
      raw   == Raw(kind, job[c].lines)
      i     == job[c].i
  IN  /\ slice.copy = <<>> <=> ~Copied(kind)
      /\ slice.copy # <<>> => Len(slice.copy) = Len(raw)
      /\ IF Alone(kind) THEN Looped(Elements(kind, slice), raw, slice.len, i)
         ELSE Again(kind, slice, i)
      /\ job[c].at = "store" =>
           job[c].text =
             IF Alone(kind) THEN Trim[Elements(kind, slice)[i]]
             ELSE IF i <= Len(Kept(raw)) THEN Kept(raw)[i] ELSE Trim[Last(raw)]

Looping(c) == job[c].at \in {"trim", "store"}

JobInv(c) ==
  /\ job[c].at = "rules" => job[c].kind = "match" /\ job[c].i = 1
  /\ ~setup.file => job[c].lines = <<>>
  /\ Looping(c) => LoopInv(c)
  /\ \A kind \in Kinds :
       \/ job[c].at = "status"
       \/ Looping(c) /\ kind = "match" /\ job[c].kind = "recording"
       => Done(kind, job[c].slices[kind], Kept(Raw(kind, job[c].lines)))

\* The array has not been touched by the first New yet.
Untouched(kind) ==
  \/ Copied(kind)
  \/ worker = None /\ job[Main].at \in {"idle", "rules"}
  \/ worker = None /\ Looping(Main) /\ kind = "recording" /\ job[Main].kind = "match"

ArraysInv ==
  \A kind \in Kinds : Untouched(kind) =>
    \A p \in 1..Len(setup[kind]) : array[kind][p] = setup[kind][p]

\* Before the first Worker there is main alone; then there are the others.
WorkerInv ==
  IF worker = None THEN \A c \in Callers : job[c].at = "idle"
  ELSE job[Main].at = "idle" /\ \A kind \in Kinds : Done(kind, worker[kind], wanted[kind])

\* Each request is for what it should be for, up to where its loop has come.
Asked ==
  /\ pc = "idle" => url.path = "federate"
  /\ pc = "match" =>
       /\ url.path = "federate"
       /\ k <= worker["match"].len + 1
       /\ params = SubSeq(Value("match", worker["match"]), 1, k - 1)
  /\ pc = "recording" =>
       LET rules == wanted["recording"] IN
       /\ url.path = "query" /\ recorded.origin = "federate"
       /\ sent[1].path = "federate" /\ RepeatsOf(sent[1].query, wanted["match"])
       /\ \A n \in 2..Len(sent) : sent[n].path = "query" /\ Len(sent[n].query) = 1
       /\ k <= worker["recording"].len + 1
       /\ IF k - 1 <= Len(rules) THEN Queries = UpTo(rules, Malformed)[k - 1]
          ELSE RepeatsOf(Queries, Without(rules, Malformed))

\* And this if none does.
IndInv ==
  BaseInv /\ ArraysInv /\ (\A c \in DOMAIN job : JobInv(c)) /\ WorkerInv /\ Asked
=============================================================================
