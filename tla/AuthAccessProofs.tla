-------------------------- MODULE AuthAccessProofs --------------------------
(***************************************************************************)
(* The maps of AccessCacheService follow the database, and a pair that is  *)
(* told to wait is in the admin's queue, for any users, hosts, requests,   *)
(* overlapping calls and restarts, and for batches of any length.          *)
(*                                                                         *)
(* CacheIsDb is inductive; the batch of setUserServices() is what takes    *)
(* work, as the database applies it in order and the cache grants before   *)
(* it revokes.  OnePending is inductive with the types: a row is inserted  *)
(* only when the latest one is not pending, and then none is.  That nobody *)
(* waits for nothing needs ApprovedIsGranted, too: an approved pair has a  *)
(* grant, or had one that the admin took away, since whoever asks has      *)
(* signed up, and a user who has is granted what is pre-authorized.        *)
(***************************************************************************)
EXTENDS AuthAccess, WellFoundedInduction, SequenceTheorems, TLAPS

Row == [pair : Pairs, status : {"pending", "approved", "rejected"}]
CheckState == Answers \cup {"none", "asked", "again", "registry", "againRegistry"}

-----------------------------------------------------------------------------
(* Data *)

\* A set of indices has a greatest element.
LEMMA LastExists ==
    ASSUME NEW n \in Nat, NEW I \in SUBSET (1 .. n), I # {}
    PROVE  \E i \in I : \A j \in I : j <= i
<1> DEFINE J == {j \in Nat : \E i \in I : j = n - i}
<1>1. \A i \in I : i \in Nat /\ n - i \in Nat
  OBVIOUS
<1>2. J \in SUBSET Nat /\ J # {}
  BY <1>1
<1>3. IsWellFoundedOn(OpToRel(<, Nat), Nat)
  BY NatLessThanWellFounded
<1>4. PICK j \in J : \A k \in J : <<k, j>> \notin OpToRel(<, Nat)
  BY <1>2, <1>3, WFMin, Zenon
<1>5. \A k \in J : ~(k < j)
  BY <1>4 DEF OpToRel
<1>6. PICK i \in I : j = n - i
  OBVIOUS
<1>7. \A k \in I : ~(n - k < n - i)
  BY <1>1, <1>5, <1>6
<1> QED
  BY <1>1, <1>7

\* Changing the status of one call.
LEMMA SetCheckType ==
    ASSUME check \in [Pairs -> [Checks -> CheckState]],
           NEW p \in Pairs, NEW c \in Checks, NEW st \in CheckState, SetCheck(p, c, st)
    PROVE  /\ check' \in [Pairs -> [Checks -> CheckState]]
           /\ check'[p][c] = st
           /\ \A q \in Pairs, d \in Checks :
                (q # p \/ d # c) => check'[q][d] = check[q][d]
<1>1. check[p] \in [Checks -> CheckState]
  OBVIOUS
<1>2. check' = [check EXCEPT ![p] = [check[p] EXCEPT ![c] = st]]
  BY DEF SetCheck
<1> DEFINE calls == [check[p] EXCEPT ![c] = st]
<1>3. calls \in [Checks -> CheckState] /\ calls[c] = st
      /\ \A d \in Checks : d # c => calls[d] = check[p][d]
  BY <1>1
<1> HIDE DEF calls
<1>4. check' = [check EXCEPT ![p] = calls]
  BY <1>2 DEF calls
<1> QED
  BY <1>3, <1>4

\* The batches of setUserServices() are sequences of changes.
LEMMA ChangesType == \A ch \in Changes : ch \in Seq(Change)
<1>1. \A n \in 1 .. MaxBatch : n \in Nat
  OBVIOUS
<1>2. ASSUME NEW n \in Nat, NEW ch \in [1 .. n -> Change]
      PROVE  ch \in Seq(Change)
  OBVIOUS
<1> QED
  BY <1>1, <1>2 DEF Changes

\* Without revocations they grant only.
LEMMA ChangesGrant ==
    ASSUME ~Revokes, NEW ch \in Changes
    PROVE  \A i \in DOMAIN ch : ch[i].grant
<1>1. \A c \in Change : c.grant = TRUE
  BY DEF Change
<1>2. \A i \in DOMAIN ch : ch[i] \in Change
  BY DEF Changes
<1> QED
  BY <1>1, <1>2

\* A host that a batch names once is decided by that change; for one that it does
\* not name, what was granted stays so.
LEMMA AfterIs ==
    ASSUME NEW u, NEW changes \in Seq(Change), NEW n \in 0 .. Len(changes),
           \A i, j \in DOMAIN changes : changes[i].host = changes[j].host => i = j
    PROVE  \A p : p \in After(u, changes, n)
                    <=> \/ p \in grants /\ \A i \in 1 .. n : <<u, changes[i].host>> # p
                        \/ \E i \in 1 .. n : changes[i].grant /\ <<u, changes[i].host>> = p
<1>1. /\ Len(changes) \in Nat /\ n \in Nat /\ DOMAIN changes = 1 .. Len(changes)
      /\ 1 .. n \subseteq DOMAIN changes
  OBVIOUS
<1>2. \A i, j \in 1 .. n : <<u, changes[i].host>> = <<u, changes[j].host>> => i = j
  BY <1>1
<1>3. \A j \in 1 .. n : \A k \in j + 1 .. n :
        k \in 1 .. n /\ k # j /\ <<u, changes[k].host>> # <<u, changes[j].host>>
  BY <1>1, <1>2
<1> QED
  BY <1>3 DEF After

\* What a batch takes away, or gives and takes away again, it revokes.
LEMMA LeavingIsRevoked ==
    ASSUME NEW u, NEW changes \in Seq(Change), NEW p,
           p \in grants \/ \E i \in DOMAIN changes : <<u, changes[i].host>> = p,
           p \notin After(u, changes, Len(changes))
    PROVE  \E i \in DOMAIN changes : ~changes[i].grant /\ <<u, changes[i].host>> = p
<1> DEFINE n == Len(changes)
           pair(i) == <<u, changes[i].host>>
           named == {i \in 1 .. n : pair(i) = p}
<1>1. n \in Nat /\ DOMAIN changes = 1 .. n /\ p \notin After(u, changes, n)
  OBVIOUS
<1> HIDE DEF n
<1>2. named # {}
  BY <1>1 DEF After
<1>3. PICK i \in named : \A j \in named : j <= i
  BY <1>1, <1>2, LastExists
<1>4. i \in 1 .. n /\ pair(i) = p /\ \A k \in i + 1 .. n : k \in 1 .. n /\ ~(k <= i)
  BY <1>1, <1>3
<1>5. \A k \in i + 1 .. n : pair(k) # pair(i)
  BY <1>3, <1>4
<1>6. ~changes[i].grant
  BY <1>1, <1>4, <1>5 DEF After
<1> QED
  BY <1>1, <1>4, <1>6

\* So the cache, which grants first and revokes then, agrees with the database.
LEMMA BatchAgrees ==
    ASSUME CacheIsDb, NEW u, NEW changes \in Seq(Change), SetServices(u, changes),
           \A i, j \in DOMAIN changes : changes[i].host = changes[j].host => i = j
    PROVE  cacheGrants' = grants'
<1> DEFINE pair(i) == <<u, changes[i].host>>
           granted == {pair(i) : i \in {j \in DOMAIN changes :
                         changes[j].grant /\ pair(j) \notin After(u, changes, j - 1)}}
           revoked == {pair(i) : i \in {j \in DOMAIN changes : ~changes[j].grant}}
<1>0. /\ grants' = After(u, changes, Len(changes))
      /\ cacheGrants' = (grants \cup granted) \ revoked
  BY DEF SetServices, CacheIsDb
<1>1. Len(changes) \in Nat /\ DOMAIN changes = 1 .. Len(changes) /\ Len(changes) \in 0 .. Len(changes)
  OBVIOUS
<1>2. \A i, j \in DOMAIN changes : pair(i) = pair(j) => i = j
  OBVIOUS
<1>3. \A p : p \in grants'
               <=> \/ p \in grants /\ \A i \in DOMAIN changes : pair(i) # p
                   \/ \E i \in DOMAIN changes : changes[i].grant /\ pair(i) = p
  <2> DEFINE n == Len(changes)
  <2>1. n \in 0 .. Len(changes)
    BY <1>1
  <2> HIDE DEF n
  <2>2. \A p : p \in After(u, changes, n)
                 <=> \/ p \in grants /\ \A i \in 1 .. n : <<u, changes[i].host>> # p
                     \/ \E i \in 1 .. n : changes[i].grant /\ <<u, changes[i].host>> = p
    BY <2>1, AfterIs
  <2> QED
    BY <1>0, <1>1, <2>2 DEF n
<1>4. ASSUME NEW j \in DOMAIN changes
      PROVE  pair(j) \in After(u, changes, j - 1) <=> pair(j) \in grants
  <2>1. j - 1 \in 0 .. Len(changes) /\ 1 .. j - 1 \subseteq DOMAIN changes
        /\ \A i \in 1 .. j - 1 : i # j
    BY <1>1
  <2>2. \A i \in 1 .. j - 1 : pair(i) # pair(j)
    BY <1>2, <2>1
  <2> QED
    BY <2>1, <2>2, AfterIs
<1>5. granted = {pair(i) : i \in {j \in DOMAIN changes :
                   changes[j].grant /\ pair(j) \notin grants}}
  BY <1>4
<1> HIDE DEF pair, granted
<1>6. \A p \in grants' : p \in cacheGrants'
  BY <1>0, <1>2, <1>3, <1>5
<1>7. \A p \in cacheGrants' : p \in grants'
  BY <1>0, <1>2, <1>3, <1>5
<1> QED
  BY <1>6, <1>7

-----------------------------------------------------------------------------
(* The maps follow the database *)

\* Every step keeps the maps equal to the tables.
LEMMA MapsFollow ==
    ASSUME ~RepeatedHosts
    PROVE  CacheIsDb /\ [Next]_vars => CacheIsDb'
<1> SUFFICES ASSUME CacheIsDb, [Next]_vars PROVE CacheIsDb'
  OBVIOUS
<1> USE DEF CacheIsDb
<1>1. ASSUME NEW p \in Pairs, Verify(p) PROVE CacheIsDb'
  BY <1>1 DEF Verify, Bound
<1>2. ASSUME NEW i \in DOMAIN requests, Approve(i) PROVE CacheIsDb'
  BY <1>2 DEF Approve
<1>3. ASSUME NEW u \in Users, NEW hs \in SUBSET Hosts, PreAuthorize(u, hs) PROVE CacheIsDb'
  BY <1>3 DEF PreAuthorize, Consumed
<1>4. ASSUME NEW u \in Users, NEW ch \in Changes, Allowed(ch), SetServices(u, ch)
      PROVE  CacheIsDb'
  <2>1. ch \in Seq(Change)
    BY ChangesType
  <2>2. \A i, j \in DOMAIN ch : ch[i].host = ch[j].host => i = j
    BY <1>4 DEF Allowed
  <2>3. cacheGrants' = grants'
    BY <1>4, <2>1, <2>2, BatchAgrees
  <2> QED
    BY <1>4, <2>3 DEF SetServices
<1>5. ASSUME NEW u \in Users, RemoveUser(u) \/ Block(u) \/ Unblock(u) \/ RevokeSessions(u)
      PROVE  CacheIsDb'
  BY <1>5 DEF RemoveUser, Block, Unblock, RevokeSessions, cache
<1>6. CASE Restart
  BY <1>6 DEF Restart, db
<1>7. ASSUME NEW u \in Users, SignIn(u) PROVE CacheIsDb'
  BY <1>7 DEF SignIn, cache
<1>8. ASSUME NEW ids, Reject(ids) PROVE CacheIsDb'
  BY <1>8 DEF Reject, cache
<1>9. ASSUME NEW p, Open(p) \/ Connect(p) \/ Disconnect(p) \/ Poll(p) PROVE CacheIsDb'
  BY <1>9 DEF Open, Connect, Disconnect, Poll, db, cache
<1>10. ASSUME NEW p, NEW c,
              \/ Recheck(p, c) \/ Again(p, c) \/ Reply(p, c) \/ Decide(p, c) \/ NotListed(p, c)
              \/ Absorb(p, c)
       PROVE  CacheIsDb'
  BY <1>10 DEF Recheck, Again, Reply, Decide, NotListed, Absorb, db, cache
<1>11. CASE UNCHANGED vars
  BY <1>11 DEF vars, db, cache
<1> QED
  BY <1>1, <1>2, <1>3, <1>4, <1>5, <1>6, <1>7, <1>8, <1>9, <1>10, <1>11
     DEF Next, Admin, Server

\* The maps of AccessCacheService say what the database says after every grant,
\* revocation, binding, block and restart, for batches of any length that name
\* no host twice: a decision of /verify is one the tables support.
THEOREM MapsFollowTheTables ==
    ASSUME ~RepeatedHosts
    PROVE  Spec => []CacheIsDb
<1>1. Init => CacheIsDb
  BY DEF Init, CacheIsDb
<1> QED
  BY <1>1, MapsFollow, PTL DEF Spec

-----------------------------------------------------------------------------
(* Types *)

\* The types, one table or map at a time.
Tables ==
    /\ session \subseteq signedUp /\ signedUp \subseteq Users
    /\ grants \subseteq Pairs /\ preAuthorized \subseteq Pairs /\ blocked \subseteq Users
    /\ cacheGrants \subseteq Pairs /\ cachePre \subseteq Pairs /\ cacheBlocked \subseteq Users
    /\ withdrawn \subseteq Pairs
RequestsType == requests \in Seq(Row)
PageType ==
    /\ view \in [Pairs -> Outcomes \cup {"closed"}]
    /\ connected \in [Pairs -> BOOLEAN] /\ due \in [Pairs -> BOOLEAN]
CheckType == check \in [Pairs -> [Checks -> CheckState]]

\* The types, split by what they are of.
LEMMA TypeParts == TypeOK <=> Tables /\ RequestsType /\ PageType /\ CheckType
  BY DEF TypeOK, Tables, RequestsType, PageType, CheckType, Row, CheckState

\* The pairs of a batch, and of a row.
LEMMA BatchPairs ==
    ASSUME NEW u \in Users, NEW changes \in Seq(Change)
    PROVE  \A i \in DOMAIN changes : <<u, changes[i].host>> \in Pairs
<1>1. \A i \in DOMAIN changes : changes[i] \in Change
  OBVIOUS
<1>2. \A c \in Change : c.host \in Hosts
  BY DEF Change
<1> QED
  BY <1>1, <1>2 DEF Pairs

\* Every row is of a pair.
LEMMA RowPair ==
    ASSUME RequestsType, NEW i \in DOMAIN requests
    PROVE  requests[i] \in Row /\ requests[i].pair \in Pairs
<1>1. requests[i] \in Row
  BY DEF RequestsType
<1> QED
  BY <1>1 DEF Row

\* What a batch leaves is pairs.
LEMMA BatchType ==
    ASSUME grants \subseteq Pairs, NEW u \in Users, NEW changes \in Seq(Change),
           NEW n \in Nat, n <= Len(changes)
    PROVE  After(u, changes, n) \subseteq Pairs
<1>1. \A i \in 1 .. n : <<u, changes[i].host>> \in Pairs
  BY BatchPairs
<1> QED
  BY <1>1 DEF After

\* Every step preserves the types of the tables and the maps.
LEMMA TablesKept == Tables /\ RequestsType /\ [Next]_vars => Tables'
<1> SUFFICES ASSUME Tables, RequestsType, [Next]_vars PROVE Tables'
  OBVIOUS
<1> USE DEF Tables
<1>1. ASSUME NEW p \in Pairs, Verify(p) PROVE Tables'
  BY <1>1 DEF Verify, Bound
<1>2. ASSUME NEW i \in DOMAIN requests, Approve(i) PROVE Tables'
  <2>1. requests[i].pair \in Pairs
    BY RowPair
  <2> QED
    BY <1>2, <2>1 DEF Approve
<1>3. ASSUME NEW u \in Users, NEW hs \in SUBSET Hosts, PreAuthorize(u, hs) PROVE Tables'
  <2>1. {u} \X hs \subseteq Pairs
    BY DEF Pairs
  <2> QED
    BY <1>3, <2>1 DEF PreAuthorize, Consumed
<1>4. ASSUME NEW u \in Users, NEW ch \in Changes, SetServices(u, ch)
      PROVE  Tables'
  <2> DEFINE pairs == {<<u, ch[i].host>> : i \in DOMAIN ch}
  <2>1. ch \in Seq(Change) /\ Len(ch) \in Nat
    BY ChangesType
  <2>2. pairs \subseteq Pairs
    BY <2>1, BatchPairs
  <2>3. After(u, ch, Len(ch)) \subseteq Pairs
    BY <2>1, BatchType
  <2>4. grants' \subseteq Pairs
    BY <1>4, <2>3 DEF SetServices
  <2>5. cacheGrants' \subseteq cacheGrants \cup pairs
    BY <1>4 DEF SetServices
  <2>6. withdrawn' \subseteq withdrawn \cup pairs
    BY <1>4 DEF SetServices
  <2> QED
    BY <1>4, <2>2, <2>4, <2>5, <2>6 DEF SetServices
<1>5. ASSUME NEW u \in Users, RemoveUser(u) \/ Block(u) \/ Unblock(u) \/ RevokeSessions(u)
      PROVE  Tables'
  BY <1>5 DEF RemoveUser, Block, Unblock, RevokeSessions, cache
<1>6. CASE Restart
  BY <1>6 DEF Restart, db
<1>7. ASSUME NEW u \in Users, SignIn(u) PROVE Tables'
  BY <1>7 DEF SignIn, cache
<1>8. ASSUME NEW ids, Reject(ids) PROVE Tables'
  BY <1>8 DEF Reject, cache
<1>9. ASSUME NEW p, Open(p) \/ Connect(p) \/ Disconnect(p) \/ Poll(p) PROVE Tables'
  BY <1>9 DEF Open, Connect, Disconnect, Poll, db, cache
<1>10. ASSUME NEW p, NEW c,
              \/ Recheck(p, c) \/ Again(p, c) \/ Reply(p, c) \/ Decide(p, c) \/ NotListed(p, c)
              \/ Absorb(p, c)
       PROVE  Tables'
  BY <1>10 DEF Recheck, Again, Reply, Decide, NotListed, Absorb, db, cache
<1>11. CASE UNCHANGED vars
  BY <1>11 DEF vars, db, cache
<1> QED
  BY <1>1, <1>2, <1>3, <1>4, <1>5, <1>6, <1>7, <1>8, <1>9, <1>10, <1>11
     DEF Next, Admin, Server

\* Every step preserves the types of the requests.
LEMMA RequestsKept == RequestsType /\ [Next]_vars => RequestsType'
<1> SUFFICES ASSUME RequestsType, [Next]_vars PROVE RequestsType'
  OBVIOUS
<1>0. requests \in Seq(Row) /\ \A i \in DOMAIN requests : requests[i] \in Row
  BY DEF RequestsType
<1>1. ASSUME NEW i \in DOMAIN requests, Approve(i) PROVE RequestsType'
  <2>1. [requests[i] EXCEPT !.status = "approved"] \in Row
    BY <1>0 DEF Row
  <2>2. requests' = [requests EXCEPT ![i] = [requests[i] EXCEPT !.status = "approved"]]
    BY <1>1 DEF Approve
  <2> QED
    BY <1>0, <2>1, <2>2 DEF RequestsType
<1>2. ASSUME NEW ids, Reject(ids) PROVE RequestsType'
  <2>1. \A i \in DOMAIN requests : [requests[i] EXCEPT !.status = "rejected"] \in Row
    BY <1>0 DEF Row
  <2> DEFINE decided == {i \in ids : requests[i].status = "pending"}
  <2>2. requests' = [i \in DOMAIN requests |->
                       IF i \in decided THEN [requests[i] EXCEPT !.status = "rejected"]
                                        ELSE requests[i]]
    BY <1>2 DEF Reject
  <2> HIDE DEF decided
  <2>3. DOMAIN requests = 1 .. Len(requests) /\ Len(requests) \in Nat
    BY <1>0
  <2>4. requests' \in [1 .. Len(requests) -> Row]
    BY <1>0, <2>1, <2>2, <2>3
  <2> QED
    BY <2>3, <2>4 DEF RequestsType
<1>3. ASSUME NEW p \in Pairs, NEW c, Absorb(p, c) PROVE RequestsType'
  <2>1. [pair |-> p, status |-> "pending"] \in Row
    BY DEF Row
  <2>2. Inserted(p) \in Seq(Row)
    BY <1>0, <2>1 DEF Inserted
  <2>3. requests' = requests \/ requests' = Inserted(p)
    BY <1>3 DEF Absorb
  <2> QED
    BY <1>0, <2>2, <2>3 DEF RequestsType
<1>4. ASSUME UNCHANGED requests PROVE RequestsType'
  BY <1>4 DEF RequestsType
<1>5. ASSUME NEW u, NEW hs, NEW ch,
             \/ SignIn(u) \/ PreAuthorize(u, hs) \/ SetServices(u, ch) \/ RemoveUser(u)
             \/ Block(u) \/ Unblock(u) \/ RevokeSessions(u)
      PROVE  UNCHANGED requests
  BY <1>5 DEF SignIn, PreAuthorize, SetServices, RemoveUser, Block, Unblock, RevokeSessions
<1>6. ASSUME NEW p, NEW c,
             \/ Verify(p) \/ Open(p) \/ Connect(p) \/ Disconnect(p) \/ Poll(p)
             \/ Recheck(p, c) \/ Again(p, c) \/ Reply(p, c) \/ Decide(p, c) \/ NotListed(p, c)
      PROVE  UNCHANGED requests
  BY <1>6 DEF Verify, Open, Connect, Disconnect, Poll, Recheck, Again, Reply, Decide, NotListed, db
<1>7. CASE Restart \/ UNCHANGED vars
  BY <1>4, <1>7 DEF Restart, vars, db
<1> QED
  BY <1>1, <1>2, <1>3, <1>4, <1>5, <1>6, <1>7 DEF Next, Admin, Server

\* Every step preserves the types of the page.
LEMMA PageKept == PageType /\ CheckType /\ [Next]_vars => PageType'
<1> SUFFICES ASSUME PageType, CheckType, [Next]_vars PROVE PageType'
  OBVIOUS
<1> USE DEF PageType
<1>1. ASSUME NEW ps, due' = Published(ps), UNCHANGED <<view, connected>> PROVE PageType'
  BY <1>1 DEF Published
<1>2. ASSUME UNCHANGED <<view, connected, due>> PROVE PageType'
  BY <1>2
<1>3. ASSUME NEW u, NEW hs, NEW ch, NEW i, NEW ids,
             \/ SignIn(u) \/ PreAuthorize(u, hs) \/ SetServices(u, ch) \/ RemoveUser(u)
             \/ Block(u) \/ Unblock(u) \/ RevokeSessions(u) \/ Approve(i) \/ Reject(ids)
      PROVE  PageType'
  <2>1. UNCHANGED <<view, connected>> /\ (due' = due \/ \E ps : due' = Published(ps))
    BY <1>3 DEF SignIn, PreAuthorize, SetServices, RemoveUser, Block, Unblock, RevokeSessions,
                Approve, Reject, page
  <2> QED
    BY <1>1, <1>2, <2>1
<1>4. ASSUME NEW p \in Pairs, Verify(p) \/ Open(p) \/ Connect(p) \/ Disconnect(p) \/ Poll(p)
      PROVE  PageType'
  BY <1>4 DEF Verify, Open, Connect, Disconnect, Poll, Answers, Outcomes, page
<1>5. ASSUME NEW p \in Pairs, NEW c \in Checks,
             \/ Recheck(p, c) \/ Again(p, c) \/ Decide(p, c) \/ NotListed(p, c)
             \/ Absorb(p, c)
      PROVE  PageType'
  BY <1>5 DEF Recheck, Again, Decide, NotListed, Absorb
<1>6. ASSUME NEW p \in Pairs, NEW c \in Checks, Reply(p, c)
      PROVE  PageType'
  <2>1. check[p][c] \in Answers
    BY <1>6 DEF Reply
  <2>2. (IF check[p][c] = "unheard" THEN "pending" ELSE check[p][c]) \in Outcomes
    BY <2>1 DEF Answers, Outcomes
  <2> DEFINE shown == IF check[p][c] = "unheard" THEN "pending" ELSE check[p][c]
  <2>3. \/ view' = [view EXCEPT ![p] = view[p]]
        \/ view' = [view EXCEPT ![p] = shown]
    BY <1>6 DEF Reply
  <2>4. shown \in Outcomes /\ view[p] \in Outcomes \cup {"closed"}
    BY <2>2
  <2> HIDE DEF shown
  <2>5. UNCHANGED <<connected, due>>
    BY <1>6 DEF Reply
  <2> QED
    BY <2>3, <2>4, <2>5
<1>7. CASE Restart
  BY <1>7 DEF Restart
<1>8. CASE UNCHANGED vars
  BY <1>2, <1>8 DEF vars, page
<1> QED
  BY <1>3, <1>4, <1>5, <1>6, <1>7, <1>8 DEF Next, Admin, Server

\* Every step preserves the types of the calls.
LEMMA ChecksKept == CheckType /\ [Next]_vars => CheckType'
<1> SUFFICES ASSUME CheckType, [Next]_vars PROVE CheckType'
  OBVIOUS
<1>1. ASSUME UNCHANGED check PROVE CheckType'
  BY <1>1 DEF CheckType
<1>2. ASSUME NEW p \in Pairs, NEW c \in Checks, NEW st \in CheckState, SetCheck(p, c, st)
      PROVE  CheckType'
  BY <1>2, SetCheckType DEF CheckType
<1>3. ASSUME NEW u, NEW hs, NEW ch, NEW i, NEW ids,
             \/ SignIn(u) \/ PreAuthorize(u, hs) \/ SetServices(u, ch) \/ RemoveUser(u)
             \/ Block(u) \/ Unblock(u) \/ RevokeSessions(u) \/ Approve(i) \/ Reject(ids)
      PROVE  UNCHANGED check
  BY <1>3 DEF SignIn, PreAuthorize, SetServices, RemoveUser, Block, Unblock, RevokeSessions,
              Approve, Reject, page
<1>4. ASSUME NEW p, Verify(p) \/ Open(p) \/ Connect(p) \/ Disconnect(p) \/ Poll(p)
      PROVE  UNCHANGED check
  BY <1>4 DEF Verify, Open, Connect, Disconnect, Poll, page
<1>5. ASSUME NEW p \in Pairs, NEW c \in Checks,
             \/ Recheck(p, c) \/ Again(p, c) \/ Reply(p, c) \/ Decide(p, c) \/ NotListed(p, c)
             \/ Absorb(p, c)
      PROVE  \E st \in CheckState : SetCheck(p, c, st)
  BY <1>5 DEF Recheck, Again, Reply, Decide, NotListed, Absorb, Outcome, CheckState, Answers, Outcomes
<1>6. CASE Restart
  BY <1>6 DEF Restart, CheckType, CheckState
<1>7. CASE UNCHANGED vars
  BY <1>1, <1>7 DEF vars, page
<1> QED
  BY <1>1, <1>2, <1>3, <1>4, <1>5, <1>6, <1>7 DEF Next, Admin, Server

\* Every step preserves the types.
LEMMA TypesKept == TypeOK /\ [Next]_vars => TypeOK'
<1>1. TypeOK <=> Tables /\ RequestsType /\ PageType /\ CheckType
  BY TypeParts
<1>2. TypeOK' <=> Tables' /\ RequestsType' /\ PageType' /\ CheckType'
  BY <1>1, PTL
<1> QED
  BY <1>1, <1>2, TablesKept, RequestsKept, PageKept, ChecksKept

\* The initial state is well typed.
LEMMA InitType == Init => TypeOK
<1> SUFFICES ASSUME Init PROVE TypeOK
  OBVIOUS
<1>1. Tables
  BY DEF Init, Tables
<1>2. RequestsType
  BY DEF Init, RequestsType
<1>3. PageType
  BY DEF Init, PageType
<1>4. CheckType
  BY DEF Init, CheckType, CheckState
<1> QED
  BY <1>1, <1>2, <1>3, <1>4, TypeParts

\* Every reachable state of the auth service and its pages is well typed.
THEOREM TypeCorrect == Spec => []TypeOK
  BY InitType, TypesKept, PTL DEF Spec

-----------------------------------------------------------------------------
(* Rows and the latest of them *)

\* Rows(p), Latest(p) and OnePending of any sequence of rows.
RowsOf(reqs, p) == {i \in DOMAIN reqs : reqs[i].pair = p}
LatestOf(reqs, p) ==
    IF RowsOf(reqs, p) = {} THEN "none"
    ELSE reqs[CHOOSE i \in RowsOf(reqs, p) : \A j \in RowsOf(reqs, p) : j <= i].status
OnePendingOf(reqs) ==
    \A p \in Pairs : \A i \in RowsOf(reqs, p) :
      reqs[i].status = "pending" => \A j \in RowsOf(reqs, p) : j <= i

\* What is said of the rows, with the sequence of rows as a parameter.
LEMMA RequestsOf ==
    /\ \A p : Rows(p) = RowsOf(requests, p) /\ Latest(p) = LatestOf(requests, p)
    /\ OnePending <=> OnePendingOf(requests)
  BY DEF Rows, RowsOf, Latest, LatestOf, OnePending, OnePendingOf

\* A row of the pair is inserted: it has the number n.
Inserts(reqs, p, new, n) ==
    new = Append(reqs, [pair |-> p, status |-> "pending"]) /\ n = Len(reqs) + 1

\* The status of the latest row of a pair is that of a row none of the pair follows.
LEMMA LatestRow ==
    ASSUME NEW reqs \in Seq(Row), NEW p
    PROVE  /\ RowsOf(reqs, p) = {} => LatestOf(reqs, p) = "none"
           /\ RowsOf(reqs, p) # {}
                => \E i \in RowsOf(reqs, p) :
                     /\ \A j \in RowsOf(reqs, p) : j <= i
                     /\ LatestOf(reqs, p) = reqs[i].status
<1>1. RowsOf(reqs, p) \in SUBSET (1 .. Len(reqs)) /\ Len(reqs) \in Nat
  BY DEF RowsOf
<1>2. ASSUME RowsOf(reqs, p) # {}
      PROVE  \E i \in RowsOf(reqs, p) : \A j \in RowsOf(reqs, p) : j <= i
  BY <1>1, <1>2, LastExists
<1> QED
  BY <1>2 DEF LatestOf

\* A new row is the last of its pair, and leaves the other ones.
LEMMA InsertedRows ==
    ASSUME NEW reqs \in Seq(Row), NEW p \in Pairs, NEW new, NEW n, Inserts(reqs, p, new, n)
    PROVE  /\ \A q : \A i \in RowsOf(reqs, q) : i \in Nat /\ i < n /\ new[i] = reqs[i]
           /\ RowsOf(new, p) = RowsOf(reqs, p) \cup {n}
           /\ \A q : q # p => RowsOf(new, q) = RowsOf(reqs, q)
           /\ n \in Nat /\ new[n].status = "pending"
<1> DEFINE row == [pair |-> p, status |-> "pending"]
<1>1. row.pair = p /\ row.status = "pending" /\ row \in Row
  BY DEF Row
<1>a. new = Append(reqs, row) /\ n = Len(reqs) + 1
  BY DEF Inserts
<1> HIDE DEF row
<1>2. /\ Len(reqs) \in Nat /\ DOMAIN reqs = 1 .. Len(reqs)
      /\ DOMAIN new = 1 .. n /\ n \in Nat /\ n = Len(reqs) + 1
      /\ \A i \in 1 .. Len(reqs) : new[i] = reqs[i]
      /\ new[n] = row
  BY <1>1, <1>a
<1>3. \A i : i \in DOMAIN new <=> i \in DOMAIN reqs \/ i = n
  BY <1>2
<1> QED
  BY <1>1, <1>2, <1>3 DEF RowsOf

\* After an insertion the latest row is pending.
LEMMA InsertedIsLatest ==
    ASSUME NEW reqs \in Seq(Row), NEW p \in Pairs, NEW new, NEW n, Inserts(reqs, p, new, n)
    PROVE  LatestOf(new, p) = "pending"
<1> DEFINE last == CHOOSE i \in RowsOf(new, p) : \A j \in RowsOf(new, p) : j <= i
<1>1. /\ \A i \in RowsOf(reqs, p) : i \in Nat /\ i < n
      /\ RowsOf(new, p) = RowsOf(reqs, p) \cup {n}
      /\ n \in Nat /\ new[n].status = "pending"
  BY InsertedRows
<1>2. n \in RowsOf(new, p) /\ \A j \in RowsOf(new, p) : j <= n
  BY <1>1
<1>3. last \in RowsOf(new, p) /\ n <= last
  BY <1>2
<1>4. last = n
  BY <1>1, <1>3
<1> QED
  BY <1>1, <1>2, <1>4 DEF LatestOf

\* An insertion where the latest row is not pending is followed by none that is.
LEMMA InsertKeepsOne ==
    ASSUME NEW reqs \in Seq(Row), NEW p \in Pairs, NEW new, NEW n, Inserts(reqs, p, new, n),
           OnePendingOf(reqs), LatestOf(reqs, p) \in {"none", "rejected"}
    PROVE  OnePendingOf(new)
<1>1. /\ \A q : \A i \in RowsOf(reqs, q) : i \in Nat /\ i < n /\ new[i] = reqs[i]
      /\ RowsOf(new, p) = RowsOf(reqs, p) \cup {n}
      /\ \A q : q # p => RowsOf(new, q) = RowsOf(reqs, q)
      /\ n \in Nat
  BY InsertedRows
<1>2. \A i \in RowsOf(reqs, p) : reqs[i].status # "pending"
  <2> SUFFICES ASSUME NEW i \in RowsOf(reqs, p), reqs[i].status = "pending" PROVE FALSE
    OBVIOUS
  <2>1. PICK k \in RowsOf(reqs, p) :
          /\ \A j \in RowsOf(reqs, p) : j <= k
          /\ LatestOf(reqs, p) = reqs[k].status
    BY LatestRow
  <2>2. k <= i /\ i <= k
    BY <2>1 DEF OnePendingOf
  <2>3. i = k
    BY <1>1, <2>2
  <2> QED
    BY <2>1, <2>3
<1>3. ASSUME NEW q \in Pairs, NEW i \in RowsOf(new, q), new[i].status = "pending"
      PROVE  \A j \in RowsOf(new, q) : j <= i
  <2>1. CASE q = p
    <3>1. i = n
      BY <1>1, <1>2, <1>3, <2>1
    <3> QED
      BY <1>1, <2>1, <3>1
  <2>2. CASE q # p
    BY <1>1, <1>3, <2>2 DEF OnePendingOf
  <2> QED
    BY <2>1, <2>2
<1> QED
  BY <1>3 DEF OnePendingOf

\* Neither does a decision make a row pending, or move one.
LEMMA DecisionKeepsOne ==
    ASSUME NEW reqs \in Seq(Row), OnePendingOf(reqs), NEW new, DOMAIN new = DOMAIN reqs,
           \A i \in DOMAIN reqs : new[i].pair = reqs[i].pair,
           \A i \in DOMAIN reqs : new[i].status = "pending" => reqs[i].status = "pending"
    PROVE  OnePendingOf(new)
<1>1. \A p : RowsOf(new, p) = RowsOf(reqs, p)
  BY DEF RowsOf
<1>2. \A p : RowsOf(reqs, p) \subseteq DOMAIN reqs
  BY DEF RowsOf
<1> QED
  BY <1>1, <1>2 DEF OnePendingOf

-----------------------------------------------------------------------------
(* Rows and grants *)

\* Without revocations what was approved is granted.
ApprovedIsGranted ==
    \A i \in DOMAIN requests : requests[i].status = "approved" => requests[i].pair \in grants \cup withdrawn

\* What the steps that decide on rows leave of them.
LEMMA Decisions ==
    ASSUME RequestsType, NEW decision \in {"approved", "rejected"}, NEW decided,
           requests' = [i \in DOMAIN requests |->
                          IF i \in decided THEN [requests[i] EXCEPT !.status = decision]
                                           ELSE requests[i]]
    PROVE  /\ DOMAIN requests' = DOMAIN requests
           /\ \A i \in DOMAIN requests :
                /\ requests'[i].pair = requests[i].pair
                /\ requests'[i].status = IF i \in decided THEN decision ELSE requests[i].status
<1>1. \A i \in DOMAIN requests : requests[i] \in Row
  BY DEF RequestsType
<1>2. \A r \in Row : /\ [r EXCEPT !.status = decision].pair = r.pair
                    /\ [r EXCEPT !.status = decision].status = decision
  BY DEF Row
<1> QED
  BY <1>1, <1>2

\* Every step keeps the rows of each pair in order: the pending one last.
LEMMA OneKept == RequestsType /\ OnePending /\ [Next]_vars => OnePending'
<1> SUFFICES ASSUME RequestsType, OnePending, [Next]_vars PROVE OnePending'
  OBVIOUS
<1>0. requests \in Seq(Row) /\ OnePendingOf(requests)
  BY RequestsOf DEF RequestsType
<1>a. OnePendingOf(requests') => OnePending'
  BY DEF OnePendingOf, RowsOf, OnePending, Rows
<1>1. ASSUME NEW i \in DOMAIN requests, Approve(i) PROVE OnePending'
  <2>1. requests' = [j \in DOMAIN requests |->
                       IF j \in {i} THEN [requests[j] EXCEPT !.status = "approved"]
                                    ELSE requests[j]]
    BY <1>0, <1>1 DEF Approve
  <2>2. /\ DOMAIN requests' = DOMAIN requests
        /\ \A j \in DOMAIN requests : requests'[j].pair = requests[j].pair
        /\ \A j \in DOMAIN requests :
             requests'[j].status = IF j \in {i} THEN "approved" ELSE requests[j].status
    BY <2>1, Decisions
  <2> QED
    BY <1>0, <1>a, <2>2, DecisionKeepsOne
<1>2. ASSUME NEW ids, Reject(ids) PROVE OnePending'
  <2> DEFINE decided == {i \in ids : requests[i].status = "pending"}
  <2>1. requests' = [j \in DOMAIN requests |->
                       IF j \in decided THEN [requests[j] EXCEPT !.status = "rejected"]
                                        ELSE requests[j]]
    BY <1>2 DEF Reject
  <2> HIDE DEF decided
  <2>2. /\ DOMAIN requests' = DOMAIN requests
        /\ \A j \in DOMAIN requests : requests'[j].pair = requests[j].pair
        /\ \A j \in DOMAIN requests :
             requests'[j].status = IF j \in decided THEN "rejected" ELSE requests[j].status
    BY <2>1, Decisions
  <2> QED
    BY <1>0, <1>a, <2>2, DecisionKeepsOne
<1>3. ASSUME NEW p \in Pairs, NEW c, Absorb(p, c) PROVE OnePending'
  <2>1. requests' = requests \/ (requests' = Inserted(p) /\ Latest(p) \in {"none", "rejected"})
    BY <1>3 DEF Absorb, MayRequest
  <2>2. CASE requests' = requests
    BY <1>0, <1>a, <2>2
  <2>3. CASE requests' = Inserted(p) /\ Latest(p) \in {"none", "rejected"}
    <3>1. Inserts(requests, p, requests', Len(requests) + 1)
      BY <2>3 DEF Inserts, Inserted
    <3>2. LatestOf(requests, p) \in {"none", "rejected"}
      BY <2>3, RequestsOf
    <3>3. OnePendingOf(requests')
      BY <1>0, <3>1, <3>2, InsertKeepsOne
    <3> QED
      BY <1>a, <3>3
  <2> QED
    BY <2>1, <2>2, <2>3
<1>4. ASSUME UNCHANGED requests PROVE OnePending'
  BY <1>0, <1>4, <1>a
<1>5. ASSUME NEW u, NEW hs, NEW ch,
             \/ SignIn(u) \/ PreAuthorize(u, hs) \/ SetServices(u, ch) \/ RemoveUser(u)
             \/ Block(u) \/ Unblock(u) \/ RevokeSessions(u)
      PROVE  UNCHANGED requests
  BY <1>5 DEF SignIn, PreAuthorize, SetServices, RemoveUser, Block, Unblock, RevokeSessions
<1>6. ASSUME NEW p, NEW c,
             \/ Verify(p) \/ Open(p) \/ Connect(p) \/ Disconnect(p) \/ Poll(p)
             \/ Recheck(p, c) \/ Again(p, c) \/ Reply(p, c) \/ Decide(p, c) \/ NotListed(p, c)
      PROVE  UNCHANGED requests
  BY <1>6 DEF Verify, Open, Connect, Disconnect, Poll, Recheck, Again, Reply, Decide, NotListed, db
<1>7. CASE Restart \/ UNCHANGED vars
  BY <1>4, <1>7 DEF Restart, vars, db
<1> QED
  BY <1>1, <1>2, <1>3, <1>4, <1>5, <1>6, <1>7 DEF Next, Admin, Server

\* Who asks has signed up.
AskersSignedUp ==
    /\ \A i \in DOMAIN requests : User(requests[i].pair) \in signedUp
    /\ \A p \in Pairs : \A c \in Checks :
         check[p][c] \in {"registry", "againRegistry"} => User(p) \in signedUp

\* Every step keeps it so: a call gets to the registry in a session only, and a
\* row is inserted by a call.
LEMMA AskersKept ==
    TypeOK /\ AskersSignedUp /\ [Next]_vars => AskersSignedUp'
<1> SUFFICES ASSUME TypeOK, AskersSignedUp, [Next]_vars PROVE AskersSignedUp'
  OBVIOUS
<1>0. RequestsType /\ CheckType /\ requests \in Seq(Row) /\ session \subseteq signedUp
  BY TypeParts DEF RequestsType, Tables
<1>a. ASSUME UNCHANGED <<requests, check>>, signedUp \subseteq signedUp' PROVE AskersSignedUp'
  BY <1>a DEF AskersSignedUp
<1>b. ASSUME NEW q \in Pairs, NEW d \in Checks, NEW st \in CheckState, SetCheck(q, d, st),
             st \in {"registry", "againRegistry"} => User(q) \in signedUp,
             UNCHANGED <<requests, signedUp>>
      PROVE  AskersSignedUp'
  <2>1. \A p \in Pairs : \A c \in Checks :
          (check'[p][c] = st /\ p = q /\ c = d) \/ check'[p][c] = check[p][c]
    BY <1>0, <1>b, SetCheckType DEF CheckType
  <2> QED
    BY <1>b, <2>1 DEF AskersSignedUp
<1>1. ASSUME NEW i \in DOMAIN requests, Approve(i) PROVE AskersSignedUp'
  <2>1. requests' = [j \in DOMAIN requests |->
                       IF j \in {i} THEN [requests[j] EXCEPT !.status = "approved"]
                                    ELSE requests[j]]
    BY <1>0, <1>1 DEF Approve
  <2>2. /\ DOMAIN requests' = DOMAIN requests
        /\ \A j \in DOMAIN requests : requests'[j].pair = requests[j].pair
    BY <1>0, <2>1, Decisions
  <2>3. UNCHANGED <<signedUp, check>>
    BY <1>1 DEF Approve
  <2> QED
    BY <2>2, <2>3 DEF AskersSignedUp
<1>2. ASSUME NEW ids, Reject(ids) PROVE AskersSignedUp'
  <2> DEFINE decided == {i \in ids : requests[i].status = "pending"}
  <2>1. requests' = [j \in DOMAIN requests |->
                       IF j \in decided THEN [requests[j] EXCEPT !.status = "rejected"]
                                        ELSE requests[j]]
    BY <1>2 DEF Reject
  <2> HIDE DEF decided
  <2>2. /\ DOMAIN requests' = DOMAIN requests
        /\ \A j \in DOMAIN requests : requests'[j].pair = requests[j].pair
    BY <1>0, <2>1, Decisions
  <2>3. UNCHANGED <<signedUp, check>>
    BY <1>2 DEF Reject
  <2> QED
    BY <2>2, <2>3 DEF AskersSignedUp
<1>3. ASSUME NEW p \in Pairs, NEW c \in Checks, Absorb(p, c) PROVE AskersSignedUp'
  <2>1. /\ check[p][c] \in {"registry", "againRegistry"}
        /\ requests' = requests \/ requests' = Inserted(p)
        /\ signedUp' = signedUp
        /\ \E st \in {"pending", "rejected"} : SetCheck(p, c, st)
    BY <1>3 DEF Absorb, Outcome
  <2>2. User(p) \in signedUp
    BY <2>1 DEF AskersSignedUp
  <2>3. PICK st \in {"pending", "rejected"} : SetCheck(p, c, st)
    BY <2>1
  <2>4. \A q \in Pairs : \A d \in Checks :
          check'[q][d] \in {"pending", "rejected"} \/ check'[q][d] = check[q][d]
    BY <1>0, <2>3, SetCheckType DEF CheckType, CheckState, Answers, Outcomes
  <2>5. \A i \in DOMAIN requests' :
          requests'[i].pair = p \/ (i \in DOMAIN requests /\ requests'[i] = requests[i])
    <3> DEFINE row == [pair |-> p, status |-> "pending"]
    <3>1. row \in Row /\ row.pair = p
      BY DEF Row
    <3>2. CASE requests' = Inserted(p)
      <4>1. requests' = Append(requests, row)
        BY <3>2 DEF Inserted
      <4> HIDE DEF row
      <4> QED
        BY <1>0, <3>1, <4>1
    <3> QED
      BY <2>1, <3>2
  <2> QED
    BY <2>1, <2>2, <2>4, <2>5 DEF AskersSignedUp
<1>4. ASSUME NEW u, NEW hs, NEW ch,
             \/ SignIn(u) \/ PreAuthorize(u, hs) \/ SetServices(u, ch) \/ RemoveUser(u)
             \/ Block(u) \/ Unblock(u) \/ RevokeSessions(u)
      PROVE  AskersSignedUp'
  BY <1>4, <1>a DEF SignIn, PreAuthorize, SetServices, RemoveUser, Block, Unblock,
                    RevokeSessions, page
<1>5. ASSUME NEW p, Verify(p) \/ Open(p) \/ Connect(p) \/ Disconnect(p) \/ Poll(p)
      PROVE  AskersSignedUp'
  BY <1>5, <1>a DEF Verify, Open, Connect, Disconnect, Poll, db, page
<1>6. ASSUME NEW p \in Pairs, NEW c \in Checks,
             Recheck(p, c) \/ Again(p, c) \/ Reply(p, c) \/ NotListed(p, c)
      PROVE  AskersSignedUp'
  <2>1. \E st \in {"asked", "again", "none", "unheard"} : SetCheck(p, c, st)
    BY <1>6 DEF Recheck, Again, Reply, NotListed
  <2>2. UNCHANGED <<requests, signedUp>>
    BY <1>6 DEF Recheck, Again, Reply, NotListed, db
  <2>3. PICK st \in {"asked", "again", "none", "unheard"} : SetCheck(p, c, st)
    BY <2>1
  <2>4. st \in CheckState /\ st \notin {"registry", "againRegistry"}
    BY DEF CheckState, Answers
  <2> QED
    BY <1>b, <2>2, <2>3, <2>4
<1>7. ASSUME NEW p \in Pairs, NEW c \in Checks, Decide(p, c) PROVE AskersSignedUp'
  <2>1. \/ \E st \in {"pending", "blocked", "granted"} : SetCheck(p, c, st)
        \/ User(p) \in session /\ \E st \in {"registry", "againRegistry"} : SetCheck(p, c, st)
    BY <1>7 DEF Decide
  <2>2. UNCHANGED <<requests, signedUp>>
    BY <1>7 DEF Decide, db
  <2>3. ASSUME NEW st \in {"pending", "blocked", "granted"}, SetCheck(p, c, st)
        PROVE  AskersSignedUp'
    <3>1. st \in CheckState /\ st \notin {"registry", "againRegistry"}
      BY DEF CheckState, Answers, Outcomes
    <3> QED
      BY <1>b, <2>2, <2>3, <3>1
  <2>4. ASSUME User(p) \in session,
               NEW st \in {"registry", "againRegistry"}, SetCheck(p, c, st)
        PROVE  AskersSignedUp'
    <3>1. st \in CheckState /\ User(p) \in signedUp
      BY <1>0, <2>4 DEF CheckState
    <3> QED
      BY <1>b, <2>2, <2>4, <3>1
  <2> QED
    BY <2>1, <2>3, <2>4
<1>8. CASE Restart \/ UNCHANGED vars
  <2>1. CASE UNCHANGED vars
    BY <1>a, <2>1 DEF vars, db, page
  <2>2. CASE Restart
    <3>1. UNCHANGED <<requests, signedUp>>
      BY <2>2 DEF Restart, db
    <3>2. \A p \in Pairs : \A c \in Checks : check'[p][c] \in Answers \cup {"none"}
      BY <2>2 DEF Restart
    <3> QED
      BY <3>1, <3>2 DEF AskersSignedUp, Answers, Outcomes
  <2> QED
    BY <1>8, <2>1, <2>2
<1> QED
  BY <1>1, <1>2, <1>3, <1>4, <1>5, <1>6, <1>7, <1>8 DEF Next, Admin, Server

\* A batch takes a grant away only by a revocation, which is remembered.
LEMMA BatchRemembers ==
    ASSUME NEW u \in Users, NEW ch \in Changes, SetServices(u, ch)
    PROVE  grants \cup withdrawn \subseteq grants' \cup withdrawn'
<1>1. ch \in Seq(Change)
  BY ChangesType
<1> DEFINE pair(i) == <<u, ch[i].host>>
           final == After(u, ch, Len(ch))
           granted == {pair(i) : i \in {j \in DOMAIN ch :
                         ch[j].grant /\ pair(j) \notin After(u, ch, j - 1)}}
           revoked == {pair(i) : i \in {j \in DOMAIN ch : ~ch[j].grant}}
<1>2. /\ grants' = final
      /\ withdrawn' = (withdrawn \ granted) \cup ((revoked \cap (grants \cup granted)) \ final)
  BY DEF SetServices
<1>3. ASSUME NEW p, p \in grants \/ p \in granted, p \notin final PROVE p \in revoked
  <2>1. p \in grants \/ \E i \in DOMAIN ch : pair(i) = p
    BY <1>3
  <2>2. \E i \in DOMAIN ch : ~ch[i].grant /\ pair(i) = p
    BY <1>1, <1>3, <2>1, LeavingIsRevoked
  <2> QED
    BY <2>2
<1> HIDE DEF final, granted, revoked
<1> QED
  BY <1>2, <1>3

\* Every step keeps what was approved granted, unless the admin takes it away.
LEMMA ApprovalsKept ==
    TypeOK /\ AskersSignedUp /\ ApprovedIsGranted /\ [Next]_vars => ApprovedIsGranted'
<1> SUFFICES ASSUME TypeOK, AskersSignedUp, ApprovedIsGranted, [Next]_vars
             PROVE  ApprovedIsGranted'
  OBVIOUS
<1>0. Tables /\ RequestsType /\ requests \in Seq(Row)
  BY TypeParts DEF RequestsType
<1>a. ASSUME UNCHANGED requests, grants \cup withdrawn \subseteq grants' \cup withdrawn'
      PROVE  ApprovedIsGranted'
  BY <1>a DEF ApprovedIsGranted
<1>1. ASSUME NEW i \in DOMAIN requests, Approve(i) PROVE ApprovedIsGranted'
  <2>1. requests' = [j \in DOMAIN requests |->
                       IF j \in {i} THEN [requests[j] EXCEPT !.status = "approved"]
                                    ELSE requests[j]]
    BY <1>0, <1>1 DEF Approve
  <2>2. /\ DOMAIN requests' = DOMAIN requests
        /\ \A j \in DOMAIN requests : requests'[j].pair = requests[j].pair
        /\ \A j \in DOMAIN requests :
             requests'[j].status = IF j \in {i} THEN "approved" ELSE requests[j].status
    BY <1>0, <2>1, Decisions
  <2>3. /\ grants' = grants \cup {requests[i].pair}
        /\ withdrawn' = withdrawn \ {requests[i].pair}
    BY <1>1 DEF Approve
  <2> QED
    BY <2>2, <2>3 DEF ApprovedIsGranted
<1>2. ASSUME NEW ids, Reject(ids) PROVE ApprovedIsGranted'
  <2> DEFINE decided == {i \in ids : requests[i].status = "pending"}
  <2>1. requests' = [j \in DOMAIN requests |->
                       IF j \in decided THEN [requests[j] EXCEPT !.status = "rejected"]
                                        ELSE requests[j]]
    BY <1>2 DEF Reject
  <2> HIDE DEF decided
  <2>2. /\ DOMAIN requests' = DOMAIN requests
        /\ \A j \in DOMAIN requests : requests'[j].pair = requests[j].pair
        /\ \A j \in DOMAIN requests :
             requests'[j].status = IF j \in decided THEN "rejected" ELSE requests[j].status
    BY <1>0, <2>1, Decisions
  <2>3. grants' = grants /\ withdrawn' = withdrawn
    BY <1>2 DEF Reject
  <2> QED
    BY <2>2, <2>3 DEF ApprovedIsGranted
<1>3. ASSUME NEW p \in Pairs, NEW c, Absorb(p, c) PROVE ApprovedIsGranted'
  <2>1. /\ grants' = grants /\ withdrawn' = withdrawn
        /\ requests' = requests \/ requests' = Inserted(p)
    BY <1>3 DEF Absorb
  <2>2. CASE requests' = Inserted(p)
    <3> DEFINE row == [pair |-> p, status |-> "pending"]
    <3>1. row \in Row /\ row.status # "approved"
      BY DEF Row
    <3>2. requests' = Append(requests, row)
      BY <2>2 DEF Inserted
    <3> HIDE DEF row
    <3>3. \A i \in DOMAIN requests' : i \in DOMAIN requests \/ requests'[i] = row
      BY <1>0, <3>1, <3>2
    <3>4. \A i \in DOMAIN requests : requests'[i] = requests[i]
      BY <1>0, <3>1, <3>2
    <3> QED
      BY <2>1, <3>1, <3>3, <3>4 DEF ApprovedIsGranted
  <2> QED
    BY <1>a, <2>1, <2>2
<1>4. ASSUME NEW u \in Users, NEW ch \in Changes, SetServices(u, ch)
      PROVE  ApprovedIsGranted'
  BY <1>4, <1>a, BatchRemembers DEF SetServices
<1>5. ASSUME NEW u, NEW hs \in SUBSET Hosts, PreAuthorize(u, hs) PROVE ApprovedIsGranted'
  <2> DEFINE ps == {u} \X hs
  <2>1. CASE u \in signedUp
    <3>1. grants' = grants \cup ps /\ withdrawn' = withdrawn \ ps /\ UNCHANGED requests
      BY <1>5, <2>1 DEF PreAuthorize
    <3> HIDE DEF ps
    <3> QED
      BY <1>a, <3>1
  <2>2. CASE u \notin signedUp
    <3>1. grants' = grants /\ withdrawn' = withdrawn \ ps /\ UNCHANGED requests
      BY <1>5, <2>2 DEF PreAuthorize
    <3>2. \A i \in DOMAIN requests : requests[i].pair \notin ps
      BY <2>2 DEF AskersSignedUp, User
    <3> HIDE DEF ps
    <3> QED
      BY <3>1, <3>2 DEF ApprovedIsGranted
  <2> QED
    BY <2>1, <2>2
<1>6. ASSUME NEW u, SignIn(u) \/ RemoveUser(u) \/ Block(u) \/ Unblock(u) \/ RevokeSessions(u)
      PROVE  ApprovedIsGranted'
  BY <1>6, <1>a DEF SignIn, RemoveUser, Block, Unblock, RevokeSessions
<1>7. ASSUME NEW p, NEW c,
             \/ Verify(p) \/ Open(p) \/ Connect(p) \/ Disconnect(p) \/ Poll(p)
             \/ Recheck(p, c) \/ Again(p, c) \/ Reply(p, c) \/ Decide(p, c) \/ NotListed(p, c)
      PROVE  ApprovedIsGranted'
  BY <1>7, <1>a DEF Verify, Open, Connect, Disconnect, Poll, Recheck, Again, Reply, Decide, NotListed, db
<1>8. CASE Restart \/ UNCHANGED vars
  BY <1>8, <1>a DEF Restart, vars, db
<1> QED
  BY <1>1, <1>2, <1>3, <1>4, <1>5, <1>6, <1>7, <1>8 DEF Next, Admin, Server

\* A call that comes to wait does so in absorb(): of that pair and call.
LEMMA WaitsByAbsorb ==
    ASSUME CheckType, Next, NEW p \in Pairs, NEW c \in Checks,
           check[p][c] \in {"registry", "againRegistry"}, check'[p][c] = "pending"
    PROVE  Absorb(p, c)
<1>1. ASSUME NEW q \in Pairs, NEW d \in Checks, NEW st \in CheckState, SetCheck(q, d, st)
      PROVE  q = p /\ d = c
  <2>1. (p # q \/ c # d) => check'[p][c] = check[p][c]
    BY <1>1, SetCheckType DEF CheckType
  <2> QED
    BY <2>1
<1>2. check' # check
  OBVIOUS
<1>3. ASSUME NEW u, NEW hs, NEW ch, NEW i, NEW ids,
             \/ SignIn(u) \/ PreAuthorize(u, hs) \/ SetServices(u, ch) \/ RemoveUser(u)
             \/ Block(u) \/ Unblock(u) \/ RevokeSessions(u) \/ Approve(i) \/ Reject(ids)
      PROVE  FALSE
  BY <1>2, <1>3 DEF SignIn, PreAuthorize, SetServices, RemoveUser, Block, Unblock, RevokeSessions,
                    Approve, Reject, page
<1>4. ASSUME NEW q, Verify(q) \/ Open(q) \/ Connect(q) \/ Disconnect(q) \/ Poll(q)
      PROVE  FALSE
  BY <1>2, <1>4 DEF Verify, Open, Connect, Disconnect, Poll, page
<1>5. ASSUME NEW q \in Pairs, NEW d \in Checks,
             Recheck(q, d) \/ Again(q, d) \/ Reply(q, d) \/ Decide(q, d)
      PROVE  FALSE
  <2> DEFINE asked == {"asked", "again", "none", "registry", "againRegistry"}
  <2>0. \E st \in asked \cup Outcomes : SetCheck(q, d, st)
    BY <1>5 DEF Recheck, Again, Reply, Decide, Outcomes
  <2>1. asked \cup Outcomes \subseteq CheckState
    BY DEF CheckState, Answers
  <2> HIDE DEF asked
  <2>a. PICK st \in asked \cup Outcomes : SetCheck(q, d, st)
    BY <2>0
  <2>b. st \in CheckState
    BY <2>1
  <2>2. q = p /\ d = c
    BY <1>1, <2>a, <2>b
  <2>3. check[q][d] \notin {"registry", "againRegistry"}
    BY <1>5 DEF Recheck, Again, Reply, Decide, Answers, Outcomes
  <2> QED
    BY <2>2, <2>3
<1>6. ASSUME NEW q \in Pairs, NEW d \in Checks, Absorb(q, d)
      PROVE  Absorb(p, c)
  <2>1. \E st \in CheckState : SetCheck(q, d, st)
    BY <1>6 DEF Absorb, Outcome, CheckState, Answers, Outcomes
  <2>2. q = p /\ d = c
    BY <1>1, <2>1
  <2> QED
    BY <1>6, <2>2
<1>7. CASE Restart
  <2>1. check'[p][c] = "none"
    BY <1>7 DEF Restart, Answers, Outcomes
  <2> QED
    BY <2>1
<1>8. ASSUME NEW q \in Pairs, NEW d \in Checks, NotListed(q, d)
      PROVE  FALSE
  <2>1. SetCheck(q, d, "unheard") /\ "unheard" \in CheckState
    BY <1>8 DEF NotListed, CheckState, Answers
  <2>2. q = p /\ d = c
    BY <1>1, <2>1
  <2>3. check'[p][c] = "unheard"
    BY <2>1, <2>2, SetCheckType DEF CheckType
  <2> QED
    BY <2>3
<1> QED
  BY <1>3, <1>4, <1>5, <1>6, <1>7, <1>8 DEF Next, Admin, Server

\* It waits for a row that is pending, or for a grant that stands or was taken away.
LEMMA WaiterIsQueued ==
    ASSUME TypeOK, ApprovedIsGranted, Next, NEW p \in Pairs, NEW c \in Checks,
           check[p][c] \in {"registry", "againRegistry"}, check'[p][c] = "pending"
    PROVE  Latest(p)' = "pending" \/ p \in grants' \cup withdrawn
<1>0. RequestsType /\ CheckType /\ requests \in Seq(Row)
  BY TypeParts DEF RequestsType
<1>1. Absorb(p, c)
  BY <1>0, WaitsByAbsorb
<1>2. Latest(p)' = LatestOf(requests', p) /\ Latest(p) = LatestOf(requests, p)
  BY DEF Latest, LatestOf, Rows, RowsOf
<1>3. ASSUME requests' = Inserted(p) PROVE Latest(p)' = "pending"
  <2>1. Inserts(requests, p, requests', Len(requests) + 1)
    BY <1>3 DEF Inserts, Inserted
  <2> QED
    BY <1>0, <1>2, <2>1, InsertedIsLatest
<1>4. ASSUME requests' = requests, Latest(p) = "pending" PROVE Latest(p)' = "pending"
  BY <1>2, <1>4
<1>5. ASSUME Latest(p) = "approved" PROVE p \in grants' \cup withdrawn
  <2>1. RowsOf(requests, p) # {}
    BY <1>0, <1>2, <1>5, LatestRow
  <2>2. PICK i \in RowsOf(requests, p) : LatestOf(requests, p) = requests[i].status
    BY <1>0, <2>1, LatestRow
  <2>3. p \in grants \cup withdrawn
    BY <1>2, <1>5, <2>2 DEF ApprovedIsGranted, RowsOf
  <2> QED
    BY <1>1, <2>3 DEF Absorb
<1>6. Latest(p) \in {"none", "pending", "approved", "rejected"}
  <2>1. CASE RowsOf(requests, p) = {}
    BY <1>0, <1>2, <2>1, LatestRow
  <2>2. CASE RowsOf(requests, p) # {}
    <3>1. PICK i \in RowsOf(requests, p) : LatestOf(requests, p) = requests[i].status
      BY <1>0, <2>2, LatestRow
    <3>2. requests[i] \in Row
      BY <1>0 DEF RowsOf
    <3> QED
      BY <1>2, <3>1, <3>2 DEF Row
  <2> QED
    BY <2>1, <2>2
<1>7. CASE check[p][c] = "registry"
  <2>1. /\ requests' = IF Latest(p) = "none" THEN Inserted(p) ELSE requests
        /\ SetCheck(p, c, Outcome(Latest(p)))
    BY <1>1, <1>7 DEF Absorb
  <2>2. check'[p][c] = Outcome(Latest(p))
    BY <1>0, <2>1, SetCheckType DEF CheckType, Outcome, CheckState, Answers, Outcomes
  <2>3. Latest(p) # "rejected"
    BY <2>2 DEF Outcome
  <2> QED
    BY <1>3, <1>4, <1>5, <1>6, <2>1, <2>3
<1>8. CASE check[p][c] = "againRegistry"
  <2>1. requests' = IF MayRequest(Latest(p)) THEN Inserted(p) ELSE requests
    BY <1>1, <1>8 DEF Absorb
  <2> QED
    BY <1>3, <1>4, <1>5, <1>6, <2>1 DEF MayRequest
<1> QED
  BY <1>7, <1>8

\* Where the registry lists every host, no call is answered for want of the host.
LEMMA NoneIsUnheard ==
    ASSUME CheckType, Unlisted = {}, Next, NEW p \in Pairs, NEW c \in Checks,
           check[p][c] \in {"registry", "againRegistry"}
    PROVE  check'[p][c] # "unheard"
<1> SUFFICES ASSUME check'[p][c] = "unheard" PROVE FALSE
  OBVIOUS
<1>1. ASSUME NEW q \in Pairs, NEW d \in Checks, NEW st \in CheckState, SetCheck(q, d, st)
      PROVE  st = "unheard"
  BY <1>1, SetCheckType DEF CheckType
<1>2. ASSUME NEW u, NEW hs, NEW ch, NEW i, NEW ids,
             \/ SignIn(u) \/ PreAuthorize(u, hs) \/ SetServices(u, ch) \/ RemoveUser(u)
             \/ Block(u) \/ Unblock(u) \/ RevokeSessions(u) \/ Approve(i) \/ Reject(ids)
      PROVE  FALSE
  BY <1>2 DEF SignIn, PreAuthorize, SetServices, RemoveUser, Block, Unblock, RevokeSessions,
              Approve, Reject, page
<1>3. ASSUME NEW q, Verify(q) \/ Open(q) \/ Connect(q) \/ Disconnect(q) \/ Poll(q)
      PROVE  FALSE
  BY <1>3 DEF Verify, Open, Connect, Disconnect, Poll, page
<1>4. ASSUME NEW q \in Pairs, NEW d \in Checks,
             Recheck(q, d) \/ Again(q, d) \/ Reply(q, d) \/ Decide(q, d) \/ Absorb(q, d)
      PROVE  FALSE
  <2>1. \E st \in CheckState : SetCheck(q, d, st) /\ st # "unheard"
    BY <1>4 DEF Recheck, Again, Reply, Decide, Absorb, Outcome, CheckState, Answers, Outcomes
  <2> QED
    BY <1>1, <2>1
<1>5. ASSUME NEW q, NEW d, NotListed(q, d) PROVE FALSE
  BY <1>5 DEF NotListed
<1>6. ASSUME Restart PROVE FALSE
  BY <1>6 DEF Restart, Answers, Outcomes
<1> QED
  BY <1>2, <1>3, <1>4, <1>5, <1>6 DEF Next, Admin, Server

\* A pair has at most one pending row, its latest, however status calls, "request
\* again" and the admin's decisions overlap, and whatever is revoked.
THEOREM OneRowIsPending == Spec => []OnePending
<1>1. Init => TypeOK /\ OnePending
  BY InitType DEF Init, OnePending, Rows
<1>2. TypeOK => RequestsType
  BY TypeParts
<1>3. (TypeOK /\ OnePending) /\ [Next]_vars => (TypeOK /\ OnePending)'
  BY <1>2, TypesKept, OneKept
<1> QED
  BY <1>1, <1>3, PTL DEF Spec

\* Who is told to wait is in the admin's queue or is granted by now, unless the
\* registry did not list the host as the call was answered or the admin took the
\* grant away: for any hosts it may not list, wherever decisions fall between a
\* status call and its answer.
THEOREM WhoWaitsIsQueued == Spec => PendingIsQueued
<1> DEFINE Inv == TypeOK /\ AskersSignedUp /\ ApprovedIsGranted
<1>1. Init => Inv
  BY InitType DEF Init, ApprovedIsGranted, AskersSignedUp
<1>2. Inv /\ [Next]_vars => Inv'
  BY TypesKept, AskersKept, ApprovalsKept
<1>3. Inv /\ [Next]_vars
        => [\A p \in Pairs \ withdrawn :
              Told(p, {"pending"}) => IsHeard(p)']_vars
  <2> SUFFICES ASSUME Inv, Next, NEW p \in Pairs \ withdrawn, Told(p, {"pending"})
               PROVE  IsHeard(p)'
    OBVIOUS
  <2>1. PICK c \in Checks :
          check[p][c] \in {"registry", "againRegistry"} /\ check'[p][c] = "pending"
    BY DEF Told
  <2>2. Latest(p)' = "pending" \/ p \in grants' \cup withdrawn
    BY <2>1, WaiterIsQueued
  <2> QED
    BY <2>2 DEF IsHeard
<1>4. TypeOK /\ OnePending => TypeOK /\ OnePending
  OBVIOUS
<1> QED
  BY <1>1, <1>2, <1>3, TypeCorrect, OneRowIsPending, PTL DEF Spec, PendingIsQueued

\* Without revocations nothing is taken away: if the registry lists every host
\* whenever it is asked, every one who waits is in the queue or granted by now.
THEOREM NobodyWaitsInVain ==
    ASSUME ~Revokes, Unlisted = {}
    PROVE  Spec => [][WaitIsQueued]_vars
<1> DEFINE Inv == withdrawn = {}
           Waits == \A p \in Pairs \ withdrawn : Told(p, {"pending"}) => IsHeard(p)'
<1>1. Init => Inv
  BY DEF Init
<1>2. Inv /\ [Next]_vars => Inv'
  <2> SUFFICES ASSUME withdrawn = {}, [Next]_vars PROVE withdrawn' = {}
    OBVIOUS
  <2>1. ASSUME NEW u \in Users, NEW ch \in Changes, SetServices(u, ch) PROVE withdrawn' = {}
    <3>1. \A i \in DOMAIN ch : ch[i].grant
      BY ChangesGrant
    <3> QED
      BY <2>1, <3>1 DEF SetServices
  <2>2. ASSUME NEW u, NEW hs,
               \/ SignIn(u) \/ PreAuthorize(u, hs) \/ RemoveUser(u) \/ Block(u) \/ Unblock(u)
               \/ RevokeSessions(u)
        PROVE  withdrawn' = {}
    BY <2>2 DEF SignIn, PreAuthorize, RemoveUser, Block, Unblock, RevokeSessions
  <2>3. ASSUME NEW i, NEW ids, Approve(i) \/ Reject(ids) PROVE withdrawn' = {}
    BY <2>3 DEF Approve, Reject
  <2>4. ASSUME NEW p, NEW c,
               \/ Verify(p) \/ Open(p) \/ Connect(p) \/ Disconnect(p) \/ Poll(p)
               \/ Recheck(p, c) \/ Again(p, c) \/ Reply(p, c) \/ Decide(p, c) \/ NotListed(p, c)
               \/ Absorb(p, c)
        PROVE  withdrawn' = {}
    BY <2>4 DEF Verify, Open, Connect, Disconnect, Poll, Recheck, Again, Reply, Decide, NotListed, Absorb
  <2>5. CASE Restart \/ UNCHANGED vars
    BY <2>5 DEF Restart, vars
  <2> QED
    BY <2>1, <2>2, <2>3, <2>4, <2>5 DEF Next, Admin, Server
<1>3. TypeOK /\ [Next]_vars
        => [\A p \in Pairs : Told(p, {"pending", "unheard"}) => Told(p, {"pending"})]_vars
  <2> SUFFICES ASSUME CheckType, Next, NEW p \in Pairs, Told(p, {"pending", "unheard"})
               PROVE  Told(p, {"pending"})
    BY TypeParts
  <2> QED
    BY NoneIsUnheard DEF Told
<1>4. Inv /\ [Waits]_vars
          /\ [\A p \in Pairs : Told(p, {"pending", "unheard"}) => Told(p, {"pending"})]_vars
        => [WaitIsQueued]_vars
  <2> SUFFICES ASSUME Inv, Waits, NEW p \in Pairs, Told(p, {"pending"})
               PROVE  IsHeard(p)'
    BY DEF WaitIsQueued
  <2> QED
    OBVIOUS
<1> QED
  BY <1>1, <1>2, <1>3, <1>4, TypeCorrect, WhoWaitsIsQueued, PTL DEF Spec, PendingIsQueued
=============================================================================
