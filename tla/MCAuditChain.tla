---------------------------- MODULE MCAuditChain ----------------------------
(***************************************************************************)
(* Small instances of AuditChain: t1 appends twice, like the evaluation    *)
(* that requests an approval, the others once.                             *)
(***************************************************************************)
EXTENDS AuditChain, TLC

CONSTANTS t1, t2, t3, t4

MCAppends ==
  (t1 :> <<"evaluated", "requested">> @@ t2 :> <<"resolved">> @@ t3 :> <<"completed">>
     @@ t4 :> <<"evaluated again", "requested again">>)

MCFaults == {"abandon"}
=============================================================================
