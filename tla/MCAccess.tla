------------------------------ MODULE MCAccess ------------------------------
(***************************************************************************)
(* The auth service in two situations, chosen at the start; each leaves    *)
(* out what the other one is about.                                        *)
(*                                                                         *)
(*   cache  two hosts, one request and one status call at a time           *)
(*   page   one host, two requests and two status calls that overlap, with *)
(*          the fairness of FairSpec                                       *)
(***************************************************************************)
EXTENDS AuthAccess

VARIABLE part

p1 == <<"u1", "h1">>
p2 == <<"u1", "h2">>

MCInit == Init /\ part \in {"cache", "page"}

\* What a situation leaves out does not happen.
Confined ==
  /\ part = "cache" => /\ check'[p1][2] = "none" /\ Len(requests') <= 1
                       /\ check'[p1][1] # "unheard"
  /\ part = "page" => p2 \notin grants' \cup preAuthorized' /\ withdrawn' = {} /\ ~Restart

MCNext == Next /\ Confined /\ UNCHANGED part

\* The fairness of FairSpec, while the page is what is looked at.
OnPage(A) == part = "page" /\ A

MCSpec ==
  /\ MCInit /\ [][MCNext]_<<part, vars>>
  /\ WF_vars(OnPage(Poll(p1)))
  /\ WF_vars(OnPage(\E c \in Checks : Recheck(p1, c)))
  /\ \A c \in 1..2 :
       WF_vars(OnPage(Decide(p1, c) \/ NotListed(p1, c) \/ Absorb(p1, c) \/ Reply(p1, c)))
  /\ SF_vars(OnPage(\E c \in 1..2 : Absorb(p1, c)))

-----------------------------------------------------------------------------
\* A page that waits is left once its pair is granted, and one that shows
\* "pending" gets it into the queue or shows the rejection that stands, whatever
\* the connection does.
DecisionReachesPage ==
  part = "page" => GrantReachesPage /\ PendingComesTrue
=============================================================================
