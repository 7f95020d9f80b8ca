----------------------------- MODULE MCApprovals -----------------------------
(* Instances of Approvals for TLC.  Two cards meet in every way the          *)
(* properties speak of; keys, codes and chats are model values.              *)
EXTENDS Approvals
=============================================================================
