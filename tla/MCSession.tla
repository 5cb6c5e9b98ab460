----------------------------- MODULE MCSession ------------------------------
(***************************************************************************)
(* An instance of Session: two people at one browser.                      *)
(***************************************************************************)
EXTENDS Session, TLC

AllOps == Kinds \ {"none", "me", "refresh"}
=============================================================================
