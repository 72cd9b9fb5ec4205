------------------------------- MODULE MCYfs -------------------------------
(***************************************************************************)
(* Small instances of Yfs for TLC.                                         *)
(***************************************************************************)
EXTENDS YfsClaims, TLC

MCNames == {"a", "b", Dot, DotDot, NoName}

Abs(toks) == [abs |-> TRUE,  toks |-> toks, slash |-> FALSE]
Rel(toks) == [abs |-> FALSE, toks |-> toks, slash |-> FALSE]

(* "/a", "/b", "/a/b", "/a/.", "..", "b" *)
SessionPaths == {Abs(<<"a">>), Abs(<<"b">>), Abs(<<"a", "b">>), Abs(<<"a", Dot>>),
                 Rel(<<DotDot>>), Rel(<<"b">>)}

(* "/a", "/a/b", "/.", "b": two processes, one in a directory that the      *)
(* other removes                                                            *)
SharedPaths == {Abs(<<"a">>), Abs(<<"a", "b">>), Abs(<<Dot>>), Rel(<<"b">>)}

(* "/a", "/b", "/a/b", "/a/" *)
RestartPaths == {Abs(<<"a">>), Abs(<<"b">>), Abs(<<"a", "b">>),
                 [abs |-> TRUE, toks |-> <<"a">>, slash |-> TRUE]}

(* The last reply is written and never read: states that differ in it alone *)
(* have the same future.                                                    *)
VolumeView == <<fs, server, cwd, boots>>

SameClients == Permutations(Clients)
=============================================================================
