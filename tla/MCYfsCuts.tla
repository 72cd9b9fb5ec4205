---------------------------- MODULE MCYfsCuts ----------------------------
(***************************************************************************)
(* Small instances of YfsCuts for TLC.                                     *)
(***************************************************************************)
EXTENDS YfsCuts, TLC

MCNames == {"a", "b", Dot, DotDot, NoName}

Abs(toks) == [abs |-> TRUE, toks |-> toks, slash |-> FALSE]

(* "/a", "/a/b" and "/a/." *)
CutPaths == {Abs(<<"a">>), Abs(<<"a", "b">>), Abs(<<"a", Dot>>)}

VolumeView == <<fs, server, cwd, boots>>
=============================================================================
