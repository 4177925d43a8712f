----------------------------- MODULE MCSession -----------------------------
(* The instance of Session for TLC.                                        *)
EXTENDS Session
MCOptions == {<<"CALLBACK", <<TRUE>>>>, <<"BAIL", <<TRUE>>>>, <<"WARNING", << >>>>}
============================================================================
