-------------------------------- MODULE MCLms --------------------------------
(* The components of apps/lms, on small instances. They share no state, so a *)
(* behaviour is one of a single component, chosen at the start.              *)
EXTENDS LmsLearning, LmsDiscussion, DocumentPages, TLC

VARIABLE part

vars == <<part, lmsVars, discussionVars, pagesVars>>

Init ==
    /\ part \in {"learning", "discussion", "pages"}
    /\ LmsInit /\ DiscussionInit /\ PagesInit
    /\ part # "discussion" => Present = {}
    /\ part # "pages" => document.n = 1

Next ==
    /\ UNCHANGED part
    /\ \/ part = "learning" /\ LmsNext /\ UNCHANGED <<discussionVars, pagesVars>>
       \/ part = "discussion" /\ DiscussionNext /\ UNCHANGED <<lmsVars, pagesVars>>
       \/ part = "pages" /\ PagesNext /\ UNCHANGED <<lmsVars, discussionVars>>

Spec == Init /\ [][Next]_vars

\* Nothing tells one starter of attempts, one member or one renderer from another.
LmsSymmetry == Permutations(Starters) \cup Permutations(Users) \cup Permutations(Renderers)
=============================================================================
