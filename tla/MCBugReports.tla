------------------------------ MODULE MCBugReports ------------------------------
(* Small instances of BugReports for TLC. *)
EXTENDS BugReports

CONSTANTS p1, p2

C(t, w, l) == [type |-> t, words |-> w, like |-> l]

\* All the posts are by one person.
OneReporter == [r \in Reports |-> 1]

\* Every way triage files a post.
AllClasses == {C("bug", "vague", "some"), C("bug", "anchors", "same"), C("bug", "plain", "apart"),
               C("bug", "none", "elsewhere"), C("thanks", "plain", "untagged"), C("retest", "anchors", "some"),
               C("confirmed", "plain", "untagged"), C("question", "vague", "untagged"),
               C("deferred", "plain", "apart"), C("feature_request", "plain", "untagged"),
               C("mine", "plain", "untagged"), C("other", "plain", "untagged")}
\* Vague and plain reports, an answer with what was asked for, and word that it works.
FollowUps == {C("bug", "vague", "some"), C("bug", "plain", "same"), C("retest", "anchors", "untagged"), C("confirmed", "plain", "untagged")}
===============================================================================
