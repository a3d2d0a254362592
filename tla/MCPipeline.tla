----------------------------- MODULE MCPipeline -----------------------------
(* Instances of Pipeline for TLC: the families that may be retrieved.       *)
EXTENDS Pipeline

MCSample(labels, time, typed) ==
  [labels |-> labels, other |-> {}, time |-> time, typed |-> typed]

MCSamples ==
  {MCSample(labels, time, TRUE) :
     labels \in {{}, {"job", "replica"}, {"cluster", "user", "__name__"}, {"user", "long", "empty"}},
     time \in {1, 2}}
  \cup {MCSample({"job"}, NoTime, TRUE), MCSample({"job"}, 0, TRUE), MCSample({"job"}, 2, FALSE),
        MCSample({"job"}, 3, TRUE)}

Shapes(max) ==
  {[name |-> n, type |-> "simple", samples |-> s] :
     n \in {"up", "old", "gone"}, s \in BoundedSeq(MCSamples, max)}
  \cup {[name |-> n, type |-> "simple", samples |-> s] :
          n \in {"", "lengthy"}, s \in BoundedSeq(MCSamples, 1)}
  \cup {[name |-> "up", type |-> t, samples |-> s] :
          t \in {"none", "unknown", "composite"}, s \in BoundedSeq(MCSamples, 1)}

\* What Retrieve appends before it meets the end of the answer.
Trailing == [name |-> "", type |-> "none", samples |-> <<>>]

\* Up to three samples and the trailing family, or two families of one sample.
MCInputs ==
  {<<f, Trailing>> : f \in Shapes(3)} \cup {<<f, g>> : f \in Shapes(1), g \in Shapes(1)}

\* For the transformers that the collector does not use: samples that match
\* the whitelist or not, in any order, some expired, some without a time, one of
\* another job than is required.
MCLibrarySamples ==
  {MCSample({"job"}, time, TRUE) : time \in {0, 1, 2, NoTime}}
  \cup {MCSample({"user"}, 1, TRUE), MCSample({}, 2, TRUE),
        [MCSample({"job"}, 2, TRUE) EXCEPT !.other = {"job"}]}

MCLibraryFamilies(names, max) ==
  {[name |-> n, type |-> "simple", samples |-> s] :
     n \in names, s \in BoundedSeq(MCLibrarySamples, max)}

MCLibraryInputs ==
  {<<f, g>> : f \in MCLibraryFamilies({"up"}, 3), g \in MCLibraryFamilies({"up", "old"}, 1)}

\* The metrics up with a job, and all up and old ones with a user.
MCWhitelist ==
  {[names |-> {"up"}, labels |-> {"job"}], [names |-> {"up", "old"}, labels |-> {"user"}]}

\* One family of up to two samples.
MCSmallInputs == {<<f>> : f \in Shapes(2)}

MCRenames == [n \in {"old", "gone"} |-> IF n = "old" THEN "up" ELSE ""]
=============================================================================
