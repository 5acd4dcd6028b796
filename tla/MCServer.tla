------------------------------ MODULE MCServer ------------------------------
(* Instances of Server for TLC.                                            *)
EXTENDS Server, TLC

\* Two users who administer, or one with a character.
Stocks2 ==
    {[make |-> Users, changes |-> 1],
     [make |-> {CHOOSE u \in Users : TRUE} \cup Chars, changes |-> 2]}
=============================================================================
