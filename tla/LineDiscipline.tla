--------------------------- MODULE LineDiscipline ---------------------------
(***************************************************************************)
(* What console input promises.  Keys collect in a line that can still be  *)
(* edited; a newline or end-of-file key, or a full buffer, makes the line  *)
(* ready, after which nothing edits it; readers take ready keys in order.  *)
(***************************************************************************)
EXTENDS Integers, Sequences, SequencesExt

CONSTANTS Char, Ends, Capacity

VARIABLES
    line,       \* the keys of the line that is being edited
    ready       \* the keys that readers may take

ldvars == <<line, ready>>

LDInit ==
    /\ line = <<>> /\ ready = <<>>

Used == Len(line) + Len(ready)

\* A key that ends the line, or takes the last place.
Completes(c) == c \in Ends \/ Used + 1 = Capacity

Type(c) ==
    /\ Used < Capacity
    /\ IF Completes(c)
         THEN ready' = ready \o Append(line, c) /\ line' = <<>>
         ELSE line' = Append(line, c) /\ UNCHANGED ready

Erase ==
    /\ line # <<>>
    /\ line' = Front(line)
    /\ UNCHANGED ready

KillLine ==
    /\ line' = <<>>
    /\ UNCHANGED ready

Take ==
    /\ ready # <<>>
    /\ ready' = Tail(ready)
    /\ UNCHANGED line

LDNext ==
    \/ \E c \in Char : Type(c)
    \/ Erase \/ KillLine \/ Take

LDSpec == LDInit /\ [][LDNext]_ldvars
=============================================================================
