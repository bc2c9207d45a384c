---------------------------- MODULE MCPendingPosts ----------------------------
(* Instances of PendingPosts for TLC. *)
EXTENDS PendingPosts

CONSTANTS m1, m2, h, n

Ask(m, act, S) == [by |-> m, act |-> act, on |-> S]
\* m1 moderates the home community, m2 both.
TheRequests ==
    {Ask(m1, a, {h}) : a \in {"Hold", "Reject", "Back"}}
    \union {Ask(m2, "Release", {h}), Ask(m2, "Approve", {h, n}), Ask(m2, "Trash", {h, n})}
    \union {Ask(m2, a, {n}) : a \in {"Spam", "Delete"}}
\* A clean post, and one that is blocked where it was posted and that the community it ripples
\* into, once a moderator approves it, keeps for its own moderators.
Case(vh, vn, stay, lands) ==
    [verdict |-> [g \in Groups |-> IF g = h THEN vh ELSE vn], stay |-> stay, lands |-> lands]
TheCases == {Case("clean", "clean", {}, "Pending"), Case("block", "rules", {n}, "Approved")}
================================================================================
