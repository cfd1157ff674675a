----------------------------- MODULE MCFrontend -----------------------------
(***************************************************************************)
(* Instances of Frontend for TLC.                                          *)
(***************************************************************************)
EXTENDS FrontendNames, TLC

ThreeNodes == <<"s1", "s2", "s3">>
OneFile == {<<"f">>}
Tree == {<<"d">>, <<"d", "f">>}
Data == {<<1, 2>>}
OneByte == {<<1>>}
=============================================================================
