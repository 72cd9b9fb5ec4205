---------------------------- MODULE MCYfsFiles ----------------------------
(***************************************************************************)
(* Small instances of YfsFiles for TLC.                                    *)
(***************************************************************************)
EXTENDS YfsFiles, TLC

MCNames == {"a", Dot, DotDot, NoName}

Abs(toks) == [abs |-> TRUE, toks |-> toks, slash |-> FALSE]

(* "/a" and "/a/." *)
FilePaths == {Abs(<<"a">>), Abs(<<"a", Dot>>)}

MCOffsets == {-7, 4, 24}
MCHeap == {[inum |-> 1, name |-> Dot]}

(* What nothing reads again: the last reply, the data a program got, and    *)
(* what an unused or lost descriptor still says.                            *)
FilesView ==
  <<fs, server, cwd, boots, held,
    [c \in Clients |-> [d \in Descriptors |->
       IF d \in held[c] THEN fds[c][d] ELSE fds[c][d].used]]>>
=============================================================================
