---------------------------- MODULE LaggingCopy ----------------------------
(***************************************************************************)
(* What an in-memory copy of a table promises that is rebuilt, after every *)
(* change, by a read and a later assignment: it holds a value the table    *)
(* had at one moment, perhaps not the latest, and never a mixture.         *)
(***************************************************************************)
CONSTANT Values

VARIABLES source, copy,
          taken  \* values read and not yet assigned

vars == <<source, copy, taken>>

Init == source \in Values /\ copy = source /\ taken = {}

Change == source' \in Values /\ UNCHANGED <<copy, taken>>

\* A reader takes the value; the same value may be with several readers.
Take == taken' = taken \cup {source} /\ UNCHANGED <<source, copy>>

Put == copy' \in taken /\ taken' \subseteq taken /\ UNCHANGED source

\* The program starts again.
Reload == copy' = source /\ taken' = {} /\ UNCHANGED source

Next == Change \/ Take \/ Put \/ Reload

Spec == Init /\ [][Next]_vars
=============================================================================
