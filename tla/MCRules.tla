------------------------------ MODULE MCRules ------------------------------
(* Instances of Rules for TLC: the flags, and what the match file contains. *)
EXTENDS Rules

MCTrim == [s \in {"a", " a", "b", " b", "c", "x", "y", "", " "} |->
             CASE s = " a" -> "a" [] s = " b" -> "b" [] s = " " -> "" [] OTHER -> s]

Setup(match, recording, file) == [match |-> match, recording |-> recording, file |-> file]

\* No file, or no room for one: every array of one, two or four flags is full.
MCSetups ==
  {Setup(m, r, FALSE) :
     m \in {<<>>, <<"a">>, <<" a", "b">>, <<"a", "", " b">>, <<" ", " a", "", "b">>,
            <<"a", "", "b", " ">>, <<"a", "b", "c">>},
     r \in {<<>>, <<"c", " ", " a">>}}
  \cup {Setup(m, <<"c", "b">>, TRUE) :
          m \in {<<>>, <<" a">>, <<"a", "">>, <<"a", " ", "b", "c">>}}

MCFiles == {<<"">>, <<"x", "">>, <<" ", "y", "x">>}

\* Three flags, and room for one line.
MCRoom == {Setup(<<"a", "b", "c">>, <<>>, TRUE)}
MCLines == {<<"x">>, <<"y">>}
=============================================================================
