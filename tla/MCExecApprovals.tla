--------------------------- MODULE MCExecApprovals ---------------------------
(* Two requests whose ids share a prefix; one is put to operators and may   *)
(* fall back in every way, the other is reviewed automatically.             *)
EXTENDS ExecApprovals

CONSTANTS asked, reviewed

MCRequests == {asked, reviewed}
MCAutoReviewed == {reviewed}
MCFallback == [q \in MCRequests |-> IF q = asked THEN {"deny", "allowlist", "full"} ELSE {"deny"}]
=============================================================================
