---------------------------- MODULE MCOutputPaths ----------------------------
(***************************************************************************)
(* An instance of OutputPaths for TLC: a name without an extension, with   *)
(* one that is replaced, with .txt in both cases, once and twice, and with *)
(* a leading and a final dot.                                              *)
(***************************************************************************)
EXTENDS OutputPaths

MCIqNames == {<<"x">>, <<"x", "iq">>, <<"x", "raw">>, <<"x", "txt">>,
              <<"x", "TXT">>, <<"x", "txt", "TXT">>, <<"x", "empty">>,
              <<"empty", "txt">>, <<"empty", "TXT">>,
              <<"empty", "empty", "TXT">>}
=============================================================================
