----------------------------- MODULE OpenFiles -----------------------------
(***************************************************************************)
(* What a process may expect of file descriptors: each number it was given *)
(* leads to one file until the process closes it, only its own calls move  *)
(* the position, and a number is not given out again while it is open.     *)
(***************************************************************************)
EXTENDS Naturals

CONSTANTS Procs, Descriptors, Files, Positions

VARIABLE table  \* table[p][d]: the file and the position of p's open descriptor d

Closed == [p \in Procs |-> [d \in {} |-> 0]]

Init == table = Closed

Open(p) ==
  \E d \in Descriptors \ DOMAIN table[p], f \in Files :
    table' = [table EXCEPT ![p] = [e \in DOMAIN @ \cup {d} |->
                IF e = d THEN [file |-> f, pos |-> 0] ELSE @[e]]]

Close(p) ==
  \E d \in DOMAIN table[p] :
    table' = [table EXCEPT ![p] = [e \in DOMAIN @ \ {d} |-> @[e]]]

(* SEEK, READ and WRITE. *)
Move(p) ==
  \E d \in DOMAIN table[p], pos \in Positions :
    table' = [table EXCEPT ![p][d].pos = pos]

(* The processes of the next run of the system start with nothing open.     *)
Restart == table' = Closed

Next == (\E p \in Procs : Open(p) \/ Close(p) \/ Move(p)) \/ Restart

Spec == Init /\ [][Next]_table
=============================================================================
