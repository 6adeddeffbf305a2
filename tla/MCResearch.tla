----------------------------- MODULE MCResearch -----------------------------
(* Three files, one of them in two versions, of which the second puts the  *)
(* same text in another place and has another source.                      *)
EXTENDS Research
CONSTANTS air, tide, seed, moon, hoax, nasa, noaa, usda
MCFiles == {[stem |-> 1, source |-> nasa, attributed |-> TRUE, pieces |-> <<air, Blank, tide>>],
            [stem |-> 1, source |-> noaa, attributed |-> TRUE, pieces |-> <<seed, air>>],
            [stem |-> 2, source |-> usda, attributed |-> TRUE, pieces |-> <<seed>>],
            [stem |-> 3, source |-> usda, attributed |-> FALSE, pieces |-> <<seed>>]}
=============================================================================
