----------------------------- MODULE MCAccounts ------------------------------
(***************************************************************************)
(* Instances of Accounts.  A scene narrows what happens to what the        *)
(* question asked of it needs:                                             *)
(*   alone      one request at a time, on the account of Ann, who is a     *)
(*              member: everything but register and update_profile, with   *)
(*              three links or two sessions;                               *)
(*   resets     two requests at a time that log in and out, forget and     *)
(*              reset the password of Ann, with three links or one         *)
(*              session, while nothing expires;                            *)
(*   newcomers  two requests at a time with which Ann and Bob register,    *)
(*              change nicknames and addresses and follow links, while     *)
(*              nothing expires;                                           *)
(*   letters    two requests at a time that log in, change the address of  *)
(*              Ann, send its link again and follow links, in one session  *)
(*              and while nothing expires, until her address has been      *)
(*              overtaken, after which nothing is promised of it;          *)
(*   changes    two requests at a time that log in, change the address of  *)
(*              Ann and follow links.                                      *)
(***************************************************************************)
EXTENDS Accounts, TLC

CONSTANTS ann, bob, e1, e2, n1, n2, p1, p2, r1, r2, Scenes

VARIABLE scene

JustAnn == {ann}
AnnAndBob == {ann, bob}
TwoRequests == {r1, r2}

HomeOf == [u \in Member |-> e1]
AliasOf == [u \in Member |-> n1]
SecretOf == [u \in Member |-> p1]

(* Nobody is a member yet.                                                 *)
Nobody == INSTANCE Accounts WITH Member <- {}, Home <- <<>>, Alias <- <<>>, Secret <- <<>>

Only(pcs) == \A r \in Request : req[r].pc \in pcs
Without(pcs) == \A r \in Request : req[r].pc \notin pcs
Links(n) == \A t \in Link : t > n => links[t].state = "none"
Sessions(n) == Cardinality({s \in SessionId : sessions[s].state # "none"}) <= n

ResetPCs ==
  {"idle", "login", "logout", "forgot", "forgot_flushed", "deliver_loaded", "reset", "reset_flushed"}
ChangePCs ==
  {"idle", "login", "change", "change_flushed", "deliver_current", "verify_link", "verify_user",
   "verify_commit"}
RegisterPCs == {"register_nick", "register_commit"}

Expiry == (\E t \in Link : ExpireLink(t)) \/ (\E s \in SessionId : ExpireSession(s))

(* The one request is r1: swapping it with an idle one leads out of the    *)
(* scene, as does swapping Ann, who is a member, with Bob, who is not; and *)
(* no step names an address or a nickname: symmetry loses nothing.         *)
Alone ==
  /\ scene = "alone"
  /\ Start(r1) \/ Step(r1) \/ Expiry
  /\ Without(RegisterPCs \cup {"profile"})' /\ (Links(2) \/ Sessions(1))'
Resets ==
  /\ scene = "resets"
  /\ \E r \in Request : Start(r) \/ Step(r)
  /\ Only(ResetPCs)' /\ Sessions(1)' /\ (Links(2) \/ Sessions(0))'
Newcomers ==
  /\ scene = "newcomers"
  /\ \E r \in Request : Start(r) \/ Step(r)
  /\ Only((ChangePCs \ {"login"}) \cup RegisterPCs \cup {"profile"})' /\ Links(2)'
  /\ (\A r \in Request : req[r].pwd # p2)'
Letters ==
  /\ scene = "letters"
  /\ \E r \in Request : Start(r) \/ Step(r)
  /\ Only(ChangePCs \cup {"resend", "resend_flushed", "deliver_loaded"})' /\ Sessions(1)' /\ Links(2)'
  /\ overtaken' = {}
Changes == scene = "changes" /\ Act /\ Only(ChangePCs)' /\ Links(2)'

MCInit ==
  /\ scene \in Scenes
  /\ IF scene = "newcomers" THEN Nobody!Init ELSE Init
MCNext == UNCHANGED scene /\ (Alone \/ Resets \/ Newcomers \/ Letters \/ Changes) /\ Racing
MCSpec == MCInit /\ [][MCNext]_<<vars, scene>>

Symmetry == UNION {Permutations(S) : S \in {Request, User, Email, Nick}}
=============================================================================
