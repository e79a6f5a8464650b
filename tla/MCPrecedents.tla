---------------------------- MODULE MCPrecedents ----------------------------
(* Instances of Precedents: a tool that reads and one that writes, and a   *)
(* memory that holds a decision from before the by: tag.                   *)
EXTENDS Precedents, TLC

CONSTANTS r, w

(* Precedents asked for, refused, or of one approval more. *)
Few == {[auto |-> TRUE, writes |-> FALSE, min |-> n] : n \in {1, 2}} \cup
       {[auto |-> FALSE, writes |-> TRUE, min |-> 1]}
OldApproval == [of |-> r, status |-> "approved", by |-> "none"]
Approved == [OldApproval EXCEPT !.by = "human"]
Olds == {SetToBag({OldApproval}), SetToBag({OldApproval, Approved})}
Both == {"user", "supervisor:sup7"}
OverMcp == {"mcp:sup7"} \* approval.resolve, for declared supervisors only
Symmetric == Permutations(Caller)
=============================================================================
