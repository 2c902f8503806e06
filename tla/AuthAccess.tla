---------------------------- MODULE AuthAccess ----------------------------
(***************************************************************************)
(* Who may reach what (apps/auth): the grants, pre-authorizations, blocks  *)
(* and access requests in the database, the in-memory maps every decision  *)
(* of /verify reads, the admin's actions on both, and the pending page     *)
(* that waits for a decision (access-cache.service.ts, verify.service.ts,  *)
(* requests.service.ts, users.service.ts, requests.controller.ts,          *)
(* notify-bus.service.ts, pending-client.tsx), and the registry of hosts   *)
(* a request is checked against (service-registry.service.ts).             *)
(*                                                                         *)
(* The database is synchronous, so a handler is one action from one await  *)
(* to the next. A user is their normalized email. No user is an admin:     *)
(* admins pass whatever these tables hold.                                 *)
(***************************************************************************)
EXTENDS Naturals, Sequences, FiniteSets

CONSTANTS
  Users, Hosts,
  PageHosts,     \* bound: the hosts whose pending page is ever opened
  MaxRequests,   \* bound: access_request rows of one pair
  MaxChecks,     \* bound: status calls of one page in flight at once
  MaxBatch,      \* bound: changes of one batch
  Unlisted,      \* the hosts the registry may not list when it is asked: no compose
                 \* file names them, or a directory could not be read
  Revokes,       \* whether the admin revokes grants
  RepeatedHosts, \* whether one batch of changes may name a host twice
  Restarts       \* whether the service restarts

AccessAssumption ==
  /\ PageHosts \subseteq Hosts /\ Unlisted \subseteq Hosts
  /\ MaxRequests \in Nat /\ MaxChecks \in Nat /\ MaxBatch \in Nat
  /\ Revokes \in BOOLEAN /\ RepeatedHosts \in BOOLEAN /\ Restarts \in BOOLEAN

Pairs == Users \X Hosts
User(p) == p[1]
Checks == 1..MaxChecks

\* The pairs whose pending page is ever opened.
Pages == Users \X PageHosts

VARIABLES
  signedUp, session,                 \* database: the user row, a session row
  grants, preAuthorized, blocked,    \* database: grant, pre_authorized_grant, blockedAt
  requests,                          \* database: access_request, by id
  cacheGrants, cachePre, cacheBlocked, \* the maps of AccessCacheService
  withdrawn,                         \* history: pairs whose grant the admin took away last
  view,                              \* what the pending page of a pair shows
  connected, due,                    \* its EventSource is open; it must check again
  check                              \* its status calls in flight

db == <<signedUp, session, grants, preAuthorized, blocked, requests>>
cache == <<cacheGrants, cachePre, cacheBlocked>>
page == <<view, connected, due, check>>
vars == <<db, cache, withdrawn, page>>

Outcomes == {"pending", "rejected", "granted", "blocked"}

\* What a call may be answered: "unheard" is "pending", too, for a host that the
\* registry did not list. No row was looked for or inserted then.
Answers == Outcomes \cup {"unheard"}

Init ==
  /\ signedUp = {} /\ session = {}
  /\ grants = {} /\ preAuthorized = {} /\ blocked = {}
  /\ requests = <<>>
  /\ cacheGrants = {} /\ cachePre = {} /\ cacheBlocked = {}
  /\ withdrawn = {}
  /\ view = [p \in Pairs |-> "closed"]
  /\ connected = [p \in Pairs |-> FALSE]
  /\ due = [p \in Pairs |-> FALSE]
  /\ check = [p \in Pairs |-> [c \in Checks |-> "none"]]

-----------------------------------------------------------------------------
(***************************************************************************)
(* Sign-in, and /verify: a user without a grant for the host is bound to   *)
(* every host the email is pre-authorized for.                             *)
(***************************************************************************)
SignIn(u) ==
  /\ u \notin session
  /\ signedUp' = signedUp \cup {u}
  /\ session' = session \cup {u}
  /\ UNCHANGED <<grants, preAuthorized, blocked, requests, cache, withdrawn, page>>

Bound(p) == {q \in cachePre : User(q) = User(p)}

Verify(p) ==
  /\ User(p) \in session
  /\ User(p) \notin cacheBlocked /\ p \notin cacheGrants
  /\ Bound(p) # {}
  /\ grants' = grants \cup Bound(p)
  /\ preAuthorized' = {q \in preAuthorized : User(q) # User(p)}
  /\ cacheGrants' = cacheGrants \cup Bound(p)
  /\ cachePre' = cachePre \ Bound(p)
  /\ UNCHANGED <<signedUp, session, blocked, requests, cacheBlocked, withdrawn, page>>

-----------------------------------------------------------------------------
(***************************************************************************)
(* Access requests.                                                        *)
(***************************************************************************)
Rows(p) == {i \in DOMAIN requests : requests[i].pair = p}

\* The status of findLatestRequest(), "none" without one.
Latest(p) ==
  IF Rows(p) = {} THEN "none"
  ELSE requests[CHOOSE i \in Rows(p) : \A j \in Rows(p) : j <= i].status

Inserted(p) == Append(requests, [pair |-> p, status |-> "pending"])

\* What absorb() reports of the latest row.
Outcome(st) == IF st = "rejected" THEN "rejected" ELSE "pending"

\* Mutant of MayRequest: a row that is pending is not absorbed.
MayRequestTwice(st) == st # "approved"

\* reRequestAccess() inserts a row, unless one is pending or was approved.
MayRequest(st) == st \in {"none", "rejected"}

\* publishStatusChange(): every open page of these pairs checks its status.
Published(ps) == [p \in Pairs |-> due[p] \/ (p \in ps /\ connected[p])]

Approve(i) ==
  /\ i \in DOMAIN requests
  /\ LET p == requests[i].pair IN
     /\ requests' = [requests EXCEPT ![i].status = "approved"]
     /\ grants' = grants \cup {p}
     /\ cacheGrants' = cacheGrants \cup {p}
     /\ withdrawn' = withdrawn \ {p}
     /\ due' = Published({p})
  /\ UNCHANGED <<signedUp, session, preAuthorized, blocked, cachePre, cacheBlocked,
                 view, connected, check>>

\* rejectRequest() and bulkReject(): rows that are not pending are skipped.
Reject(ids) ==
  LET decided == {i \in ids : requests[i].status = "pending"} IN
  /\ decided # {}
  /\ requests' = [i \in DOMAIN requests |->
                    IF i \in decided THEN [requests[i] EXCEPT !.status = "rejected"]
                                     ELSE requests[i]]
  /\ due' = Published({requests[i].pair : i \in decided})
  /\ UNCHANGED <<signedUp, session, grants, preAuthorized, blocked, cache, withdrawn,
                 view, connected, check>>

-----------------------------------------------------------------------------
(***************************************************************************)
(* The admin's actions on users. None of them tells the user's own page.   *)
(***************************************************************************)
\* Mutant of Consumed: what was pre-authorized stays in memory.
ConsumedInDb(ps) == cachePre

\* The cache's pre-authorizations once the pairs were granted.
Consumed(ps) == cachePre \ ps

PreAuthorize(u, hs) ==
  LET ps == {u} \X hs IN
  /\ hs # {}
  /\ withdrawn' = withdrawn \ ps
  /\ \/ /\ u \in signedUp
        /\ grants' = grants \cup ps
        /\ preAuthorized' = preAuthorized \ ps
        /\ cacheGrants' = cacheGrants \cup ps
        /\ cachePre' = Consumed(ps)
     \/ /\ u \notin signedUp
        /\ preAuthorized' = preAuthorized \cup ps
        /\ cachePre' = cachePre \cup ps
        /\ UNCHANGED <<grants, cacheGrants>>
  /\ UNCHANGED <<signedUp, session, blocked, requests, cacheBlocked, page>>

\* The grants once the first n of these changes were applied in order: the last
\* change of a host decides.
After(u, changes, n) ==
  LET pair(i) == <<u, changes[i].host>> IN
  {p \in grants : \A i \in 1..n : pair(i) # p}
    \cup {pair(i) : i \in {j \in 1..n : changes[j].grant /\ \A k \in j + 1 .. n : pair(k) # pair(j)}}

\* setUserServices(): changes is a sequence of [host, grant]. The database
\* applies them in order; the cache applies all grants, then all revocations.
SetServices(u, changes) ==
  LET pair(i) == <<u, changes[i].host>>
      final == After(u, changes, Len(changes))
      granted == {pair(i) : i \in {j \in DOMAIN changes :
                    changes[j].grant /\ pair(j) \notin After(u, changes, j - 1)}}
      revoked == {pair(i) : i \in {j \in DOMAIN changes : ~changes[j].grant}} IN
  /\ u \in signedUp
  /\ grants' = final
  /\ cacheGrants' = (cacheGrants \cup granted) \ revoked
  /\ withdrawn' = (withdrawn \ granted)
                    \cup ((revoked \cap (grants \cup granted)) \ final)
  /\ UNCHANGED <<signedUp, session, preAuthorized, blocked, requests, cachePre,
                 cacheBlocked, page>>

RemoveUser(u) ==
  LET ps == {p \in grants : User(p) = u} IN
  /\ Revokes /\ ps # {}
  /\ grants' = grants \ ps
  /\ cacheGrants' = cacheGrants \ ps
  /\ withdrawn' = withdrawn \cup ps
  /\ UNCHANGED <<signedUp, session, preAuthorized, blocked, requests, cachePre,
                 cacheBlocked, page>>

\* blockUser() revokes the sessions as well; unblockUser() restores none.
Block(u) ==
  /\ u \in signedUp
  /\ blocked' = blocked \cup {u}
  /\ cacheBlocked' = cacheBlocked \cup {u}
  /\ session' = session \ {u}
  /\ UNCHANGED <<signedUp, grants, preAuthorized, requests, cacheGrants, cachePre,
                 withdrawn, page>>

Unblock(u) ==
  /\ u \in blocked
  /\ blocked' = blocked \ {u}
  /\ cacheBlocked' = cacheBlocked \ {u}
  /\ UNCHANGED <<signedUp, session, grants, preAuthorized, requests, cacheGrants,
                 cachePre, withdrawn, page>>

\* revokeSessions(), and a sign-out.
RevokeSessions(u) ==
  /\ u \in session
  /\ session' = session \ {u}
  /\ UNCHANGED <<signedUp, grants, preAuthorized, blocked, requests, cache, withdrawn, page>>

-----------------------------------------------------------------------------
(***************************************************************************)
(* The pending page, and the status calls it makes.                        *)
(***************************************************************************)
\* The page of a pair is opened by a redirect of /verify.
Open(p) ==
  /\ view[p] = "closed" /\ User(p) \in session /\ p \in Pages
  /\ view' = [view EXCEPT ![p] = "pending"]
  /\ due' = [due EXCEPT ![p] = TRUE]
  /\ UNCHANGED <<db, cache, withdrawn, connected, check>>

Showing(p) == view[p] \in {"pending", "rejected"}

\* The EventSource opens, for the first time or again, and its page checks.
Connect(p) ==
  /\ Showing(p) /\ ~connected[p]
  /\ connected' = [connected EXCEPT ![p] = TRUE]
  /\ due' = [due EXCEPT ![p] = TRUE]
  /\ UNCHANGED <<db, cache, withdrawn, view, check>>

Disconnect(p) ==
  /\ connected[p]
  /\ connected' = [connected EXCEPT ![p] = FALSE]
  /\ UNCHANGED <<db, cache, withdrawn, view, due, check>>

\* Mutant of Polls: the page polls only while it has no connection.
PollsDisconnected(p) == Showing(p) /\ ~connected[p]

\* The poll floor runs whatever the connection does.
Polls(p) == Showing(p)

Poll(p) ==
  /\ Polls(p)
  /\ due' = [due EXCEPT ![p] = TRUE]
  /\ UNCHANGED <<db, cache, withdrawn, view, connected, check>>

SetCheck(p, c, st) == check' = [check EXCEPT ![p][c] = st]

Recheck(p, c) ==
  /\ Showing(p) /\ due[p] /\ check[p][c] = "none"
  /\ due' = [due EXCEPT ![p] = FALSE]
  /\ SetCheck(p, c, "asked")
  /\ UNCHANGED <<db, cache, withdrawn, view, connected>>

\* "Request access again": nothing disables the button, so a second click may
\* find the first one's call under way.
Again(p, c) ==
  /\ view[p] = "rejected" /\ check[p][c] = "none"
  /\ Cardinality(Rows(p)) < MaxRequests
  /\ SetCheck(p, c, "again")
  /\ UNCHANGED <<db, cache, withdrawn, view, connected, due>>

\* status() and reRequest() up to the await of the service registry.
Decide(p, c) ==
  /\ check[p][c] \in {"asked", "again"}
  /\ LET again == check[p][c] = "again" IN
     \/ /\ User(p) \notin session
        /\ SetCheck(p, c, "pending")
     \/ /\ User(p) \in session /\ User(p) \in cacheBlocked
        /\ SetCheck(p, c, IF again THEN "pending" ELSE "blocked")
     \/ /\ User(p) \in session /\ User(p) \notin cacheBlocked /\ p \in cacheGrants
        /\ SetCheck(p, c, IF again THEN "pending" ELSE "granted")
     \/ /\ User(p) \in session /\ User(p) \notin cacheBlocked /\ p \notin cacheGrants
        /\ SetCheck(p, c, IF again THEN "againRegistry" ELSE "registry")
  /\ UNCHANGED <<db, cache, withdrawn, view, connected, due>>

\* The registry does not list the host: the page is told to wait all the same.
NotListed(p, c) ==
  /\ check[p][c] \in {"registry", "againRegistry"} /\ p[2] \in Unlisted
  /\ SetCheck(p, c, "unheard")
  /\ UNCHANGED <<db, cache, withdrawn, view, connected, due>>

\* It lists the host: requestAccess() and reRequestAccess().
Absorb(p, c) ==
  /\ \/ /\ check[p][c] = "registry"
        /\ requests' = IF Latest(p) = "none" THEN Inserted(p) ELSE requests
        /\ SetCheck(p, c, Outcome(Latest(p)))
     \/ /\ check[p][c] = "againRegistry"
        /\ requests' = IF MayRequest(Latest(p)) THEN Inserted(p) ELSE requests
        /\ SetCheck(p, c, "pending")
  /\ UNCHANGED <<signedUp, session, grants, preAuthorized, blocked, cache, withdrawn,
                 view, connected, due>>

\* The answer is shown, unless the page was left; granted and blocked leave it.
Reply(p, c) ==
  /\ check[p][c] \in Answers
  /\ SetCheck(p, c, "none")
  /\ view' = [view EXCEPT ![p] = IF ~Showing(p) THEN @
                                ELSE IF check[p][c] = "unheard" THEN "pending" ELSE check[p][c]]
  /\ UNCHANGED <<db, cache, withdrawn, connected, due>>

\* onModuleInit(): the maps are read from the database; calls and streams break.
Restart ==
  /\ Restarts
  /\ cacheGrants' = grants /\ cachePre' = preAuthorized /\ cacheBlocked' = blocked
  /\ connected' = [p \in Pairs |-> FALSE]
  /\ check' = [p \in Pairs |-> [c \in Checks |->
                 IF check[p][c] \in Answers THEN check[p][c] ELSE "none"]]
  /\ UNCHANGED <<db, withdrawn, view, due>>

-----------------------------------------------------------------------------
Change == [host : Hosts, grant : IF Revokes THEN BOOLEAN ELSE {TRUE}]
Changes == UNION {[1..n -> Change] : n \in 1..MaxBatch}

Allowed(changes) ==
  RepeatedHosts \/ \A i, j \in DOMAIN changes : changes[i].host = changes[j].host => i = j

Admin ==
  \/ \E i \in DOMAIN requests : Approve(i)
  \/ \E ids \in SUBSET DOMAIN requests : Reject(ids)
  \/ \E u \in Users : \/ \E hs \in SUBSET Hosts : PreAuthorize(u, hs)
                      \/ \E ch \in Changes : Allowed(ch) /\ SetServices(u, ch)
                      \/ RemoveUser(u) \/ Block(u) \/ Unblock(u) \/ RevokeSessions(u)

Server(p) == \E c \in Checks : Decide(p, c) \/ NotListed(p, c) \/ Absorb(p, c)

Next ==
  \/ \E u \in Users : SignIn(u)
  \/ \E p \in Pairs : \/ Verify(p) \/ Open(p) \/ Connect(p) \/ Disconnect(p) \/ Poll(p)
                      \/ \E c \in Checks : Recheck(p, c) \/ Again(p, c) \/ Reply(p, c)
                      \/ Server(p)
  \/ Admin
  \/ Restart

Spec == Init /\ [][Next]_vars

\* The page polls, checks when it must, and its calls are answered; of the calls
\* that ask the registry again and again, one finds the host listed.
FairSpec ==
  /\ Spec
  /\ \A p \in Pairs :
       /\ WF_vars(Poll(p))
       /\ WF_vars(\E c \in Checks : Recheck(p, c))
       /\ \A c \in Checks :
            WF_vars(Decide(p, c) \/ NotListed(p, c) \/ Absorb(p, c) \/ Reply(p, c))
       /\ SF_vars(\E c \in Checks : Absorb(p, c))

-----------------------------------------------------------------------------
TypeOK ==
  /\ session \subseteq signedUp /\ signedUp \subseteq Users
  /\ grants \subseteq Pairs /\ preAuthorized \subseteq Pairs /\ blocked \subseteq Users
  /\ requests \in Seq([pair : Pairs, status : {"pending", "approved", "rejected"}])
  /\ cacheGrants \subseteq Pairs /\ cachePre \subseteq Pairs /\ cacheBlocked \subseteq Users
  /\ withdrawn \subseteq Pairs
  /\ view \in [Pairs -> Outcomes \cup {"closed"}]
  /\ connected \in [Pairs -> BOOLEAN] /\ due \in [Pairs -> BOOLEAN]
  /\ check \in [Pairs -> [Checks -> Answers \cup {"none", "asked", "again", "registry",
                                                  "againRegistry"}]]

\* The maps every decision reads say what the database says, through every
\* action of the admin, every binding and every restart.
CacheIsDb ==
  /\ cacheGrants = grants
  /\ cachePre = preAuthorized
  /\ cacheBlocked = blocked

\* A pair has at most one pending row, and no row follows it: status calls,
\* "request again" and the admin's decisions may overlap as they like.
OnePending ==
  \A p \in Pairs : \A i \in Rows(p) :
    requests[i].status = "pending" => \A j \in Rows(p) : j <= i

\* A call that was at the registry is answered, in one of these ways.
Told(p, answers) ==
  \E c \in Checks :
    check[p][c] \in {"registry", "againRegistry"} /\ check'[p][c] \in answers

\* Someone is asked to decide on the pair, or has granted it.
IsHeard(p) == Latest(p) = "pending" \/ p \in grants

\* A page is told to wait only for a pair that is in the admin's queue, or is
\* granted by now: nobody waits for a decision that nobody is asked for, however
\* decisions fall between a status call and its answer. Without that, "a removed
\* user falls back to the normal no-grant flow (pending page, can request
\* again)" fails. So does a page whose host the registry does not list.
WaitIsQueued ==
  \A p \in Pairs : Told(p, {"pending", "unheard"}) => IsHeard(p)'

\* The same of the calls that found the host listed, for every pair but those the
\* admin took a grant away from, and the queue it relies on: a pair has one
\* pending row at most, its latest.
PendingIsQueued ==
  /\ [](TypeOK /\ OnePending)
  /\ [][\A p \in Pairs \ withdrawn : Told(p, {"pending"}) => IsHeard(p)']_vars

\* What the admin took away stays away until the admin gives it back: "a LATER
\* admin revoke of the real grant can never be silently undone".
WithdrawnStaysWithdrawn == withdrawn \cap grants = {}

Reachable(p) == User(p) \in session /\ User(p) \notin blocked

\* A page that waits is left once its pair is granted, however the grant came
\* about and whatever the connection does.
GrantReachesPage ==
  \A p \in Pages : (Showing(p) /\ p \in grants)
                     ~> (~Showing(p) \/ p \notin grants \/ ~Reachable(p))

\* A page that shows "pending" gets its pair into the admin's queue, although the
\* registry did not list the host when it was first asked, or comes to show the
\* rejection that stands.
PendingComesTrue ==
  \A p \in Pages : (view[p] = "pending" /\ Latest(p) \in {"none", "rejected"})
                     ~> (view[p] # "pending" \/ Latest(p) = "pending" \/ p \in grants
                         \/ ~Reachable(p))

\* The page of a user who is blocked is left: "Approval-to-redirect (and
\* blocked-to-redirect) requires no reload".
BlockReachesPage ==
  \A p \in Pages : (Showing(p) /\ User(p) \in blocked)
                     ~> (~Showing(p) \/ User(p) \notin blocked)
=============================================================================
