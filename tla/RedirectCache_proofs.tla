------------------------ MODULE RedirectCache_proofs ------------------------
(***************************************************************************)
(* Proofs about RedirectCache, for any number of requests, hosts and edits.*)
(*                                                                         *)
(* TypeOK alone is not inductive: a step may use the host a visit asked    *)
(* for and the entry it has read only because the visit is past the step   *)
(* that wrote them.  VisitShape says so, and also that only a request that *)
(* invalidates has entries left to delete, which is what makes the end of  *)
(* a visit harmless to the invalidations under way.                        *)
(***************************************************************************)
EXTENDS RedirectCache, TLAPS

Visiting == {"dns", "get", "row", "geo", "set"}

(* What a request knows at each of its steps. *)
VisitShape ==
  \A p \in Request :
    /\ pc[p] \in Visiting \cup {"idle"} => todo[p] = {}
    /\ pc[p] \in Visiting => host[p] \in Host
    /\ pc[p] = "dns" => host[p] \in Alias
    /\ pc[p] \in {"geo", "set"} => got[p] \in Entry
    /\ pc[p] = "set" => got[p].row \notin Gated

TypeInv == TypeOK /\ VisitShape

-----------------------------------------------------------------------------
LEMMA CurrentEntry == TypeInv => Current \in Entry
BY DEF TypeInv, TypeOK, Current, Entry

LEMMA TypeInit == Init => TypeInv
BY CacheAssumption DEF Init, TypeInv, TypeOK, VisitShape, Visiting, PC, Status,
                       Version, Host

(* The end of a request keeps its part of the invariant. *)
LEMMA FinishType ==
  ASSUME TypeInv, NEW p \in Request, Finish(p)
  PROVE  /\ pc' \in [Request -> PC]
         /\ host' \in [Request -> Host \cup {Nothing}]
         /\ got' \in [Request -> Entry \cup {Nothing}]
         /\ todo' \in [Request -> SUBSET Host]
         /\ VisitShape'
<1>1. /\ pc \in [Request -> PC]
      /\ host \in [Request -> Host \cup {Nothing}]
      /\ got \in [Request -> Entry \cup {Nothing}]
      /\ todo \in [Request -> SUBSET Host]
  BY DEF TypeInv, TypeOK
<1>2. /\ pc'[p] = "idle" /\ todo'[p] = {}
      /\ \A q \in Request \ {p} : /\ pc'[q] = pc[q] /\ host'[q] = host[q]
                                  /\ got'[q] = got[q] /\ todo'[q] = todo[q]
  BY <1>1 DEF Finish, Goto
<1>3. VisitShape'
  BY <1>2 DEF TypeInv, VisitShape, Visiting
<1>. QED
  BY <1>1, <1>3 DEF Finish, Goto, PC

LEMMA TypeStep == TypeInv /\ [Next]_vars => TypeInv'
<1>. SUFFICES ASSUME TypeInv, [Next]_vars PROVE TypeInv'
  OBVIOUS
<1>t. /\ ver \in Version /\ live \in BOOLEAN
      /\ status \in [Alias -> Status]
      /\ cache \in [Host -> Entry \cup {Nothing}]
      /\ pc \in [Request -> PC]
      /\ host \in [Request -> Host \cup {Nothing}]
      /\ got \in [Request -> Entry \cup {Nothing}]
      /\ todo \in [Request -> SUBSET Host]
      /\ late \subseteq Host
  BY DEF TypeInv, TypeOK
<1>s. VisitShape
  BY DEF TypeInv
<1>v. ASSUME NEW p \in Request, NEW h \in Host, redirectSlug(p, h) PROVE TypeInv'
  BY <1>t, <1>s, <1>v DEF redirectSlug, Goto, TypeInv, TypeOK, VisitShape, Visiting, PC, linkVars
<1>a. ASSUME NEW p \in Request, EditCommits(p) \/ DeleteCommits(p) PROVE TypeInv'
  <2>1. ver' \in Version
    BY <1>t, <1>a, CacheAssumption DEF EditCommits, DeleteCommits, Version
  <2>2. live' \in BOOLEAN
    BY <1>t, <1>a DEF EditCommits, DeleteCommits
  <2>. QED
    BY <1>t, <1>s, <1>a, <2>1, <2>2 DEF EditCommits, DeleteCommits, Goto, TypeInv, TypeOK,
                        VisitShape, Visiting, PC
<1>w. ASSUME NEW p \in Request, NEW h \in Alias, DomainWrite(p, h) PROVE TypeInv'
  <2>1. status' \in [Alias -> Status]
    BY <1>t, <1>w DEF DomainWrite, Status
  <2>. QED
    BY <1>t, <1>s, <1>w, <2>1 DEF DomainWrite, Goto, TypeInv, TypeOK, VisitShape,
                        Visiting, PC, linkVars, Host
<1>d. ASSUME NEW p \in Request, DomainConfirmed(p) \/ DomainLapsed(p) PROVE TypeInv'
  <2>1. host[p] \in Alias /\ host[p] \in Host
    BY <1>s, <1>d DEF VisitShape, DomainConfirmed, DomainLapsed, Host
  <2>2. status' \in [Alias -> Status]
    BY <1>t, <1>d, <2>1 DEF DomainConfirmed, DomainLapsed, Status
  <2>. QED
    BY <1>t, <1>s, <1>d, <2>1, <2>2 DEF DomainConfirmed, DomainLapsed, Goto, TypeInv,
                        TypeOK, VisitShape, Visiting, PC, linkVars
<1>f. ASSUME NEW p \in Request,
             CacheHit(p) \/ LoadFails(p) \/ StoreFails(p) \/ EditRereadFails(p)
      PROVE  TypeInv'
  <2>1. Finish(p) /\ UNCHANGED <<linkVars, status, cache, late>>
    BY <1>f DEF CacheHit, LoadFails, StoreFails, EditRereadFails
  <2>. QED
    BY <1>t, <2>1, FinishType DEF TypeInv, TypeOK, linkVars
<1>m. ASSUME NEW p \in Request, CacheMiss(p) PROVE TypeInv'
  BY <1>t, <1>s, <1>m DEF CacheMiss, Goto, TypeInv, TypeOK, VisitShape, Visiting, PC, linkVars
<1>r. ASSUME NEW p \in Request, LoadRow(p) PROVE TypeInv'
  BY <1>t, <1>s, <1>r, CurrentEntry DEF LoadRow, Goto, TypeInv, TypeOK, VisitShape,
                        Visiting, PC, linkVars
<1>g. ASSUME NEW p \in Request, LoadGeo(p) PROVE TypeInv'
  <2>1. CASE got[p].row \in Gated
    BY <1>t, <1>g, <2>1, FinishType DEF LoadGeo, TypeInv, TypeOK, linkVars
  <2>2. CASE got[p].row \notin Gated
    <3>1. got[p] \in Entry /\ pc[p] = "geo"
      BY <1>s, <1>g DEF LoadGeo, VisitShape
    <3>2. PICK e \in Entry : e = [got[p] EXCEPT !.geo = ver]
      BY <1>t, <3>1 DEF Entry
    <3>3. e.row = got[p].row
      BY <3>1, <3>2 DEF Entry
    <3>4. got' = [got EXCEPT ![p] = e] /\ Goto(p, "set")
          /\ UNCHANGED <<linkVars, status, cache, late, host, todo>>
      BY <1>g, <2>2, <3>2 DEF LoadGeo
    <3>. QED
      BY <1>t, <1>s, <2>2, <3>1, <3>3, <3>4 DEF Goto, TypeInv, TypeOK, VisitShape,
                        Visiting, PC, linkVars
  <2>. QED
    BY <2>1, <2>2
<1>x. ASSUME NEW p \in Request, StoreEntry(p) PROVE TypeInv'
  <2>1. host[p] \in Host /\ got[p] \in Entry
    BY <1>s, <1>x DEF StoreEntry, VisitShape, Visiting
  <2>2. late' \subseteq Host /\ cache' \in [Host -> Entry \cup {Nothing}]
    BY <1>t, <1>x, <2>1 DEF StoreEntry
  <2>. QED
    BY <1>t, <1>x, <2>2, FinishType DEF StoreEntry, TypeInv, TypeOK, linkVars
<1>e. ASSUME NEW p \in Request, EditReread(p) PROVE TypeInv'
  BY <1>t, <1>s, <1>e DEF EditReread, Goto, TypeInv, TypeOK, VisitShape, Visiting, PC, linkVars
<1>l. ASSUME NEW p \in Request, ListHosts(p) PROVE TypeInv'
  <2>1. todo' \in [Request -> SUBSET Host] /\ \A q \in Request \ {p} : todo'[q] = todo[q]
    BY <1>t, <1>l DEF ListHosts, Host
  <2>. QED
    BY <1>t, <1>s, <1>l, <2>1 DEF ListHosts, Goto, TypeInv, TypeOK, VisitShape,
                        Visiting, PC, linkVars
<1>k. ASSUME NEW p \in Request, ListSlugs(p) PROVE TypeInv'
  <2>1. CASE Finish(p)
    BY <1>t, <1>k, <2>1, FinishType DEF ListSlugs, TypeInv, TypeOK, linkVars
  <2>2. CASE ~Finish(p)
    BY <1>t, <1>s, <1>k, <2>2 DEF ListSlugs, Goto, TypeInv, TypeOK, VisitShape,
                        Visiting, PC, linkVars
  <2>. QED
    BY <2>1, <2>2
<1>i. ASSUME NEW p \in Request, NEW h \in Host, Invalidate(p, h) PROVE TypeInv'
  <2>1. late' \subseteq Host /\ cache' \in [Host -> Entry \cup {Nothing}]
    BY <1>t, <1>i DEF Invalidate
  <2>2. CASE todo[p] = {h}
    BY <1>t, <1>i, <2>1, <2>2, FinishType DEF Invalidate, TypeInv, TypeOK, linkVars
  <2>3. CASE todo[p] # {h}
    BY <1>t, <1>s, <1>i, <2>1, <2>3 DEF Invalidate, TypeInv, TypeOK, VisitShape,
                        Visiting, PC, linkVars
  <2>. QED
    BY <2>2, <2>3
<1>c. ASSUME NEW h \in Alias, DomainCreate(h) PROVE TypeInv'
  BY <1>t, <1>s, <1>c DEF DomainCreate, TypeInv, TypeOK, VisitShape, Status, linkVars,
                        requestVars
<1>o. ASSUME NEW h \in Host, Expire(h) PROVE TypeInv'
  BY <1>t, <1>s, <1>o DEF Expire, TypeInv, TypeOK, VisitShape, linkVars, requestVars
<1>u. ASSUME UNCHANGED vars PROVE TypeInv'
  BY <1>t, <1>s, <1>u DEF vars, TypeInv, TypeOK, VisitShape, linkVars, requestVars
<1>. QED
  BY <1>v, <1>a, <1>w, <1>d, <1>f, <1>m, <1>r, <1>g, <1>x, <1>e, <1>l, <1>k, <1>i,
     <1>c, <1>o, <1>u DEF Next, Arrival, VisitStep, WriterStep

(* Every reachable state is well typed. *)
THEOREM CacheTypeCorrect == Spec => []TypeOK
<1>1. TypeInv => TypeOK
  BY DEF TypeInv
<1>. QED
  BY <1>1, TypeInit, TypeStep, PTL DEF Spec

-----------------------------------------------------------------------------
(* A version with a password or max_clicks is never stored. *)

LEMMA GatedStep ==
  TypeInv /\ GatedNeverStored /\ [Next]_vars => GatedNeverStored'
<1>. SUFFICES ASSUME TypeInv, GatedNeverStored, [Next]_vars, NEW h \in Host,
                     cache'[h] # Nothing
              PROVE  cache'[h].row \notin Gated
  BY DEF GatedNeverStored
<1>t. cache \in [Host -> Entry \cup {Nothing}]
  BY DEF TypeInv, TypeOK
<1>1. CASE cache'[h] = cache[h]
  BY <1>1 DEF GatedNeverStored
<1>2. ASSUME NEW p \in Request, StoreEntry(p) PROVE cache'[h].row \notin Gated
  <2>1. got[p].row \notin Gated
    BY <1>2 DEF StoreEntry, TypeInv, VisitShape
  <2>2. CASE h = host[p]
    BY <1>t, <1>2, <2>1, <2>2 DEF StoreEntry
  <2>3. CASE h # host[p]
    BY <1>t, <1>2, <2>3 DEF StoreEntry, GatedNeverStored
  <2>. QED
    BY <2>2, <2>3
<1>3. ASSUME NEW p \in Request, NEW k \in Host, Invalidate(p, k)
      PROVE  cache'[h] = cache[h]
  BY <1>t, <1>3 DEF Invalidate
<1>4. ASSUME NEW k \in Host, Expire(k) PROVE cache'[h] = cache[h]
  BY <1>t, <1>4 DEF Expire
<1>5. CASE /\ ~\E p \in Request : StoreEntry(p) \/ \E k \in Host : Invalidate(p, k)
           /\ ~\E k \in Host : Expire(k)
  BY <1>1, <1>5 DEF Next, Arrival, VisitStep, WriterStep, vars, redirectSlug,
     DomainConfirmed, DomainLapsed, CacheHit, CacheMiss, LoadRow, LoadFails,
     LoadGeo, StoreFails, EditCommits, EditReread, EditRereadFails,
     DeleteCommits, ListHosts, DomainCreate, DomainWrite, ListSlugs
<1>. QED
  BY <1>1, <1>2, <1>3, <1>4, <1>5

(* FromLink keeps the versions that need a gate out of Redis, however the   *)
(* reads of a visit and the commits of edits interleave.                    *)
THEOREM GatedVersionsNeverStored == Spec => []GatedNeverStored
<1>1. Init => GatedNeverStored
  BY DEF Init, GatedNeverStored
<1>. QED
  BY <1>1, TypeInit, TypeStep, GatedStep, PTL DEF Spec

-----------------------------------------------------------------------------
(* Invalidation reaches every entry that was current when it was stored. *)

(* A request that is not invalidating has nothing to delete. *)
LEMMA FinishPending ==
  ASSUME TypeInv, NEW p \in Request, Finish(p), NEW h \in Host, Pending(h),
         pc[p] \in Visiting \cup {"idle"}
  PROVE  Pending(h)'
<1>t. pc \in [Request -> PC] /\ todo \in [Request -> SUBSET Host]
  BY DEF TypeInv, TypeOK
<1>1. PICK q \in Request : pc[q] \in {"reread", "aliases"} \/ h \in todo[q]
  BY DEF Pending
<1>2. q # p
  BY <1>1 DEF TypeInv, VisitShape, Visiting
<1>3. pc'[q] = pc[q] /\ todo'[q] = todo[q]
  BY <1>t, <1>2 DEF Finish, Goto
<1>. QED
  BY <1>1, <1>3 DEF Pending

(* A step that moves one request on without touching what it has to delete. *)
LEMMA GotoPending ==
  ASSUME TypeInv, NEW p \in Request, NEW l, Goto(p, l), UNCHANGED todo,
         NEW h \in Host, Pending(h),
         pc[p] \in {"reread", "aliases"} => l \in {"reread", "aliases"}
  PROVE  Pending(h)'
<1>t. pc \in [Request -> PC]
  BY DEF TypeInv, TypeOK
<1>1. PICK q \in Request : pc[q] \in {"reread", "aliases"} \/ h \in todo[q]
  BY DEF Pending
<1>2. CASE q = p
  BY <1>t, <1>1, <1>2 DEF Goto, Pending
<1>3. CASE q # p
  BY <1>t, <1>1, <1>3 DEF Goto, Pending
<1>. QED
  BY <1>2, <1>3

(* What a step has to keep when it leaves the entry and the link alone. *)
LEMMA StaleKept ==
  ASSUME StaleOnlyWhilePending, NEW h \in Host, live', Stale(h)',
         UNCHANGED <<linkVars, late>>, cache'[h] = cache[h],
         Active(h)' => Active(h), Pending(h) => Pending(h)'
  PROVE  Pending(h)' \/ h \in late'
<1>1. live /\ Stale(h)
  BY DEF Stale, Current, linkVars
<1>. QED
  BY <1>1 DEF StaleOnlyWhilePending

LEMMA StaleStep ==
  ASSUME TypeInv, StaleOnlyWhilePending, [Next]_vars,
         "invalidate_error" \notin Faults, "late_reverify" \notin Faults
  PROVE  StaleOnlyWhilePending'
<1>. SUFFICES ASSUME NEW h \in Host, live', Stale(h)'
              PROVE  Pending(h)' \/ h \in late'
  BY DEF StaleOnlyWhilePending
<1>t. /\ cache \in [Host -> Entry \cup {Nothing}]
      /\ status \in [Alias -> Status]
      /\ pc \in [Request -> PC]
      /\ host \in [Request -> Host \cup {Nothing}]
      /\ todo \in [Request -> SUBSET Host]
  BY DEF TypeInv, TypeOK
<1>s. VisitShape
  BY DEF TypeInv
<1>v. ASSUME NEW p \in Request, NEW k \in Host, redirectSlug(p, k)
      PROVE  Pending(h)' \/ h \in late'
  <2>1. Pending(h) => Pending(h)'
    BY <1>v, GotoPending DEF redirectSlug
  <2>. QED
    BY <1>v, <2>1, StaleKept DEF redirectSlug, Active
<1>a. ASSUME NEW p \in Request, EditCommits(p) PROVE Pending(h)'
  BY <1>t, <1>a DEF EditCommits, Goto, Pending
<1>x. ASSUME NEW p \in Request, DeleteCommits(p) PROVE FALSE
  BY <1>x DEF DeleteCommits
<1>w. ASSUME NEW p \in Request, NEW k \in Alias, DomainWrite(p, k)
      PROVE  Pending(h)' \/ h \in late'
  <2>1. CASE h = k
    BY <1>t, <1>w, <2>1 DEF DomainWrite, Pending
  <2>2. CASE h # k
    <3>1. Active(h)' => Active(h)
      BY <1>t, <1>w, <2>2 DEF DomainWrite, Active
    <3>2. todo[p] = {} /\ pc[p] = "idle"
      BY <1>s, <1>w DEF DomainWrite, VisitShape
    <3>3. Pending(h) => Pending(h)'
      BY <1>t, <1>w, <3>2 DEF DomainWrite, Goto, Pending
    <3>. QED
      BY <1>w, <3>1, <3>3, StaleKept DEF DomainWrite
  <2>. QED
    BY <2>1, <2>2
<1>k. ASSUME NEW p \in Request, DomainConfirmed(p) PROVE Pending(h)' \/ h \in late'
  <2>1. host[p] \in Alias
    BY <1>s, <1>k DEF DomainConfirmed, VisitShape
  <2>2. status'[host[p]] = "active" => status[host[p]] = "active"
    BY <1>t, <1>k, <2>1 DEF DomainConfirmed, Status
  <2>3. Active(h)' => Active(h)
    BY <1>t, <1>k, <2>1, <2>2 DEF DomainConfirmed, Active
  <2>4. Pending(h) => Pending(h)'
    BY <1>k, GotoPending DEF DomainConfirmed
  <2>. QED
    BY <1>k, <2>3, <2>4, StaleKept DEF DomainConfirmed
<1>l. ASSUME NEW p \in Request, DomainLapsed(p) PROVE Pending(h)' \/ h \in late'
  <2>1. host[p] \in Alias /\ todo[p] = {}
    BY <1>s, <1>l DEF DomainLapsed, VisitShape, Visiting
  <2>2. Active(h)' => Active(h)
    BY <1>t, <1>l, <2>1 DEF DomainLapsed, Active
  <2>3. Pending(h) => Pending(h)'
    BY <1>t, <1>l, <2>1 DEF DomainLapsed, Goto, Pending
  <2>. QED
    BY <1>l, <2>2, <2>3, StaleKept DEF DomainLapsed
<1>f. ASSUME NEW p \in Request, CacheHit(p) \/ LoadFails(p) \/ StoreFails(p)
      PROVE  Pending(h)' \/ h \in late'
  <2>1. /\ Finish(p) /\ UNCHANGED <<linkVars, status, cache, late>>
        /\ pc[p] \in Visiting
    BY <1>f DEF CacheHit, LoadFails, StoreFails, Visiting
  <2>2. Pending(h) => Pending(h)'
    BY <2>1, FinishPending
  <2>. QED
    BY <2>1, <2>2, StaleKept DEF Active
<1>m. ASSUME NEW p \in Request, CacheMiss(p) \/ LoadRow(p)
      PROVE  Pending(h)' \/ h \in late'
  <2>1. Pending(h) => Pending(h)'
    BY <1>m, GotoPending DEF CacheMiss, LoadRow
  <2>. QED
    BY <1>m, <2>1, StaleKept DEF CacheMiss, LoadRow, Active
<1>g. ASSUME NEW p \in Request, LoadGeo(p) PROVE Pending(h)' \/ h \in late'
  <2>1. Pending(h) => Pending(h)'
    BY <1>g, GotoPending, FinishPending DEF LoadGeo, Visiting
  <2>. QED
    BY <1>g, <2>1, StaleKept DEF LoadGeo, Active
<1>y. ASSUME NEW p \in Request, StoreEntry(p) PROVE Pending(h)' \/ h \in late'
  <2>1. CASE h = host[p]
    <3>1. cache'[h] = got[p] /\ UNCHANGED linkVars
      BY <1>t, <1>y, <2>1 DEF StoreEntry
    <3>2. ~(live /\ got[p] = Current)
      BY <3>1 DEF Stale, Current, linkVars
    <3>. QED
      BY <1>y, <2>1, <3>2 DEF StoreEntry
  <2>2. CASE h # host[p]
    <3>1. cache'[h] = cache[h] /\ (h \in late => h \in late')
      BY <1>t, <1>y, <2>2 DEF StoreEntry
    <3>2. Pending(h) => Pending(h)'
      BY <1>y, FinishPending DEF StoreEntry, Visiting
    <3>3. live /\ Stale(h)
      BY <1>y, <3>1 DEF StoreEntry, Stale, Current, linkVars, Active
    <3>. QED
      BY <3>1, <3>2, <3>3 DEF StaleOnlyWhilePending
  <2>. QED
    BY <2>1, <2>2
<1>e. ASSUME NEW p \in Request, EditReread(p) PROVE Pending(h)' \/ h \in late'
  <2>1. Pending(h) => Pending(h)'
    BY <1>e, GotoPending DEF EditReread
  <2>. QED
    BY <1>e, <2>1, StaleKept DEF EditReread, Active
<1>z. ASSUME NEW p \in Request, EditRereadFails(p) PROVE FALSE
  BY <1>z DEF EditRereadFails, linkVars
<1>h. ASSUME NEW p \in Request, ListHosts(p) PROVE Pending(h)'
  <2>1. Active(h)
    BY <1>h DEF ListHosts, Stale, Active
  <2>. QED
    BY <1>t, <1>h, <2>1 DEF ListHosts, Pending
<1>b. ASSUME NEW p \in Request, ListSlugs(p) PROVE Pending(h)' \/ h \in late'
  <2>1. Goto(p, "delete") /\ UNCHANGED todo
    BY <1>b DEF ListSlugs, linkVars
  <2>2. Pending(h) => Pending(h)'
    BY <1>b, <2>1, GotoPending DEF ListSlugs
  <2>. QED
    BY <1>b, <2>2, StaleKept DEF ListSlugs, Active
<1>i. ASSUME NEW p \in Request, NEW k \in Host, Invalidate(p, k)
      PROVE  Pending(h)' \/ h \in late'
  <2>0. cache' = [cache EXCEPT ![k] = Nothing] /\ late' = late \ {k}
        /\ UNCHANGED <<linkVars, status>>
    BY <1>i DEF Invalidate
  <2>1. h # k
    BY <1>t, <2>0 DEF Stale
  <2>2. live /\ Stale(h) /\ (h \in late => h \in late')
    BY <1>t, <2>0, <2>1 DEF Stale, Current, linkVars, Active
  <2>3. ASSUME NEW q \in Request, pc[q] \in {"reread", "aliases"} \/ h \in todo[q]
        PROVE  Pending(h)'
    <3>1. CASE q # p
      BY <1>t, <1>i, <2>3, <3>1 DEF Invalidate, Finish, Goto, Pending
    <3>2. CASE q = p
      BY <1>t, <1>i, <2>1, <2>3, <3>2 DEF Invalidate, Pending
    <3>. QED
      BY <3>1, <3>2
  <2>. QED
    BY <2>2, <2>3 DEF StaleOnlyWhilePending, Pending
<1>c. ASSUME NEW k \in Alias, DomainCreate(k) PROVE Pending(h)' \/ h \in late'
  <2>1. Active(h)' => Active(h)
    BY <1>t, <1>c DEF DomainCreate, Active
  <2>. QED
    BY <1>c, <2>1, StaleKept DEF DomainCreate, Pending, requestVars
<1>o. ASSUME NEW k \in Host, Expire(k) PROVE Pending(h)' \/ h \in late'
  <2>1. h # k
    BY <1>t, <1>o DEF Expire, Stale
  <2>2. live /\ Stale(h) /\ (h \in late => h \in late')
    BY <1>t, <1>o, <2>1 DEF Expire, Stale, Current, linkVars, Active
  <2>. QED
    BY <1>o, <2>2 DEF Expire, StaleOnlyWhilePending, Pending, requestVars
<1>u. CASE UNCHANGED vars
  BY <1>u, StaleKept DEF vars, Active, Pending, requestVars
<1>. QED
  BY <1>v, <1>a, <1>x, <1>w, <1>k, <1>l, <1>f, <1>m, <1>g, <1>y, <1>e, <1>z, <1>h,
     <1>b, <1>i, <1>c, <1>o, <1>u DEF Next, Arrival, VisitStep, WriterStep

(* When every step between a commit and the last Delete succeeds and no     *)
(* late DNS answer revives a domain, an entry that was current when it was  *)
(* stored outlives the edit that outdates it only until its invalidation.   *)
THEOREM StaleEntriesArePending ==
  ASSUME "invalidate_error" \notin Faults, "late_reverify" \notin Faults
  PROVE  Spec => []StaleOnlyWhilePending
<1>1. Init => StaleOnlyWhilePending
  BY DEF Init, StaleOnlyWhilePending, Stale
<1>2. TypeInv /\ StaleOnlyWhilePending /\ [Next]_vars => StaleOnlyWhilePending'
  BY StaleStep
<1>. QED
  BY <1>1, <1>2, TypeInit, TypeStep, PTL DEF Spec

-----------------------------------------------------------------------------
(* Invalidation of a host that stays active reaches the deleted link too. *)

(* A request is on its way that will delete the entry of h if h is active   *)
(* when it lists the hosts.  Unlike in Pending, the invalidation of a       *)
(* domain does not count before it has listed the slugs, nor an edit that   *)
(* will find its link deleted.                                              *)
Coming(h) ==
  \E p \in Request :
    \/ pc[p] = "reread" /\ live
    \/ pc[p] = "aliases"
    \/ pc[p] = "delete" /\ h \in todo[p]

Reached(h) == Stale(h) => Coming(h) \/ h \in late

OthersWait(p) ==
  \A q \in Request \ {p} : pc'[q] = pc[q] /\ todo'[q] = todo[q]

LEMMA MovesAlone ==
  ASSUME TypeInv, NEW p \in Request, NEW l,
         Finish(p) \/ (Goto(p, l) /\ \A q \in Request \ {p} : todo'[q] = todo[q])
  PROVE  OthersWait(p)
BY DEF TypeInv, TypeOK, Finish, Goto, OthersWait

(* A step of a request that was not going to delete the entry. *)
LEMMA OtherComing ==
  ASSUME NEW p \in Request, OthersWait(p), NEW h \in Host, Coming(h),
         pc[p] \notin {"reread", "aliases", "delete"} \/ (pc[p] = "reread" /\ ~live),
         live => live'
  PROVE  Coming(h)'
BY DEF Coming, OthersWait

(* What a step has to keep when it leaves the entry and the link alone. *)
LEMMA ReachedKept ==
  ASSUME NEW h \in Host, Reached(h), Stale(h)',
         UNCHANGED <<linkVars, late>>, cache'[h] = cache[h],
         Active(h)' => Active(h), Coming(h) => Coming(h)'
  PROVE  Coming(h)' \/ h \in late'
BY DEF Stale, Current, linkVars, Reached

LEMMA ReachedStep ==
  ASSUME TypeInv, NEW h \in Host, Reached(h), [Next]_vars,
         "invalidate_error" \notin Faults, Active(h)' => Active(h)
  PROVE  Reached(h)'
<1>. SUFFICES ASSUME Stale(h)'
              PROVE  Coming(h)' \/ h \in late'
  BY DEF Reached
<1>t. /\ cache \in [Host -> Entry \cup {Nothing}]
      /\ pc \in [Request -> PC]
      /\ todo \in [Request -> SUBSET Host]
  BY DEF TypeInv, TypeOK
<1>v. ASSUME NEW p \in Request, OthersWait(p),
             pc[p] \in Visiting \cup {"idle", "slugs"},
             UNCHANGED <<linkVars, cache, late>>
      PROVE  Coming(h)' \/ h \in late'
  <2>1. Coming(h) => Coming(h)'
    BY <1>v, OtherComing DEF Visiting, linkVars
  <2>. QED
    BY <1>v, <2>1, ReachedKept
<1>a. ASSUME NEW p \in Request, \E k \in Host : redirectSlug(p, k)
      PROVE  Coming(h)' \/ h \in late'
  BY <1>v, <1>a, MovesAlone DEF redirectSlug
<1>d. ASSUME NEW p \in Request,
             \/ \E k \in Alias : DomainWrite(p, k)
             \/ DomainConfirmed(p) \/ DomainLapsed(p) \/ ListSlugs(p)
      PROVE  Coming(h)' \/ h \in late'
  <2>1. \A q \in Request \ {p} : todo'[q] = todo[q]
    BY <1>t, <1>d DEF DomainWrite, DomainConfirmed, DomainLapsed, ListSlugs, Finish
  <2>2. OthersWait(p)
    BY <1>d, <2>1, MovesAlone DEF DomainWrite, DomainConfirmed, DomainLapsed, ListSlugs
  <2>3. /\ pc[p] \in Visiting \cup {"idle", "slugs"}
        /\ UNCHANGED <<linkVars, cache, late>>
    BY <1>d DEF DomainWrite, DomainConfirmed, DomainLapsed, ListSlugs, Visiting
  <2>. QED
    BY <1>v, <2>2, <2>3
<1>l. ASSUME NEW p \in Request,
             \/ CacheHit(p) \/ CacheMiss(p) \/ LoadRow(p) \/ LoadGeo(p)
             \/ LoadFails(p) \/ StoreFails(p)
      PROVE  Coming(h)' \/ h \in late'
  <2>1. OthersWait(p)
    BY <1>l, MovesAlone DEF CacheHit, CacheMiss, LoadRow, LoadGeo, LoadFails, StoreFails
  <2>2. /\ pc[p] \in Visiting
        /\ UNCHANGED <<linkVars, cache, late>>
    BY <1>l DEF CacheHit, CacheMiss, LoadRow, LoadGeo, LoadFails, StoreFails, Visiting
  <2>. QED
    BY <1>v, <2>1, <2>2
<1>y. ASSUME NEW p \in Request, StoreEntry(p) PROVE Coming(h)' \/ h \in late'
  <2>1. CASE h = host[p]
    <3>1. cache'[h] = got[p] /\ UNCHANGED linkVars
      BY <1>t, <1>y, <2>1 DEF StoreEntry
    <3>2. ~(live /\ got[p] = Current)
      BY <3>1 DEF Stale, Current, linkVars
    <3>. QED
      BY <1>y, <2>1, <3>2 DEF StoreEntry
  <2>2. CASE h # host[p]
    <3>1. /\ cache'[h] = cache[h] /\ (h \in late => h \in late')
          /\ UNCHANGED linkVars /\ pc[p] = "set"
      BY <1>t, <1>y, <2>2 DEF StoreEntry
    <3>2. OthersWait(p)
      BY <1>y, MovesAlone DEF StoreEntry
    <3>3. Coming(h) => Coming(h)'
      BY <3>1, <3>2, OtherComing DEF linkVars
    <3>4. Stale(h)
      BY <3>1 DEF Stale, Current, linkVars
    <3>. QED
      BY <3>1, <3>3, <3>4 DEF Reached
  <2>. QED
    BY <2>1, <2>2
<1>c. ASSUME NEW p \in Request, EditCommits(p) \/ DeleteCommits(p) PROVE Coming(h)'
  BY <1>t, <1>c DEF EditCommits, DeleteCommits, Goto, Coming
<1>e. ASSUME NEW p \in Request, EditReread(p) PROVE Coming(h)'
  BY <1>t, <1>e DEF EditReread, Goto, Coming
<1>z. ASSUME NEW p \in Request, EditRereadFails(p) PROVE Coming(h)' \/ h \in late'
  <2>1. OthersWait(p)
    BY <1>z, MovesAlone DEF EditRereadFails
  <2>2. Coming(h) => Coming(h)'
    BY <1>z, <2>1, OtherComing DEF EditRereadFails, linkVars
  <2>. QED
    BY <1>z, <2>2, ReachedKept DEF EditRereadFails
<1>h. ASSUME NEW p \in Request, ListHosts(p) PROVE Coming(h)'
  <2>1. Active(h)
    BY DEF Stale
  <2>. QED
    BY <1>t, <1>h, <2>1 DEF ListHosts, Goto, Coming
<1>i. ASSUME NEW p \in Request, NEW k \in Host, Invalidate(p, k)
      PROVE  Coming(h)' \/ h \in late'
  <2>1. cache' = [cache EXCEPT ![k] = Nothing] /\ late' = late \ {k}
        /\ UNCHANGED linkVars
    BY <1>i DEF Invalidate
  <2>2. h # k
    BY <1>t, <2>1 DEF Stale
  <2>3. Stale(h) /\ (h \in late => h \in late')
    BY <1>t, <2>1, <2>2 DEF Stale, Current, linkVars
  <2>4. ASSUME NEW q \in Request,
               \/ pc[q] = "reread" /\ live
               \/ pc[q] = "aliases"
               \/ pc[q] = "delete" /\ h \in todo[q]
        PROVE  Coming(h)'
    <3>1. CASE q # p
      BY <1>t, <1>i, <2>1, <2>4, <3>1 DEF Invalidate, Finish, Goto, Coming, linkVars
    <3>2. CASE q = p
      BY <1>t, <1>i, <2>2, <2>4, <3>2 DEF Invalidate, Coming
    <3>. QED
      BY <3>1, <3>2
  <2>. QED
    BY <2>3, <2>4 DEF Reached, Coming
<1>n. ASSUME NEW k \in Alias, DomainCreate(k) PROVE Coming(h)' \/ h \in late'
  BY <1>n, ReachedKept DEF DomainCreate, Coming, requestVars, linkVars
<1>o. ASSUME NEW k \in Host, Expire(k) PROVE Coming(h)' \/ h \in late'
  <2>1. h # k
    BY <1>t, <1>o DEF Expire, Stale
  <2>2. Stale(h) /\ (h \in late => h \in late')
    BY <1>t, <1>o, <2>1 DEF Expire, Stale, Current, linkVars
  <2>. QED
    BY <1>o, <2>2 DEF Expire, Reached, Coming, requestVars, linkVars
<1>u. CASE UNCHANGED vars
  BY <1>u, ReachedKept DEF vars, Coming, requestVars, linkVars
<1>. QED
  BY <1>a, <1>d, <1>l, <1>y, <1>c, <1>e, <1>z, <1>h, <1>i, <1>n, <1>o, <1>u
     DEF Next, Arrival, VisitStep, WriterStep

LEMMA ReachedInit ==
  ASSUME Init, NEW h \in Host
  PROVE  Reached(h)
BY DEF Init, Reached, Stale

LEMMA ComingIsPending ==
  ASSUME NEW h \in Host, Coming(h)
  PROVE  Pending(h)
BY DEF Coming, Pending

(* redirectHosts lists the base host whatever domains do: an edit or a      *)
(* deletion whose steps succeed leaves no outdated entry there but one that *)
(* a visit stored late.                                                     *)
THEOREM BaseHostInvalidated ==
  ASSUME "invalidate_error" \notin Faults
  PROVE  Spec => [](Stale(Base) => Pending(Base) \/ Base \in late)
<1>. Base \in Host
  BY DEF Host
<1>1. Init => TypeInv /\ Reached(Base)
  BY TypeInit, ReachedInit
<1>2. TypeInv /\ Reached(Base) /\ [Next]_vars => (TypeInv /\ Reached(Base))'
  BY TypeStep, ReachedStep DEF Active
<1>3. Reached(Base) => (Stale(Base) => Pending(Base) \/ Base \in late)
  BY ComingIsPending DEF Reached
<1>. QED
  BY <1>1, <1>2, <1>3, PTL DEF Spec

NoneRevived == \A h \in Host : Active(h)' => Active(h)

(* "Invalidate all affected host aliases on link edit/delete": this holds   *)
(* as long as no domain becomes active, although domains may be created,    *)
(* lapse or be deleted at any time.                                         *)
THEOREM AliasesInvalidatedUnlessRevived ==
  ASSUME "invalidate_error" \notin Faults
  PROVE  Spec /\ [][NoneRevived]_vars => []AliasesInvalidated
<1> DEFINE AllReached == \A h \in Host : Reached(h)
<1>1. Init => TypeInv /\ AllReached
  BY TypeInit, ReachedInit
<1>2. TypeInv /\ AllReached /\ [Next]_vars /\ [NoneRevived]_vars
        => (TypeInv /\ AllReached)'
  <2>1. UNCHANGED vars => NoneRevived
    BY DEF vars, NoneRevived, Active
  <2>. QED
    BY <2>1, TypeStep, ReachedStep DEF NoneRevived
<1>3. AllReached => AliasesInvalidated
  BY ComingIsPending DEF Reached, AliasesInvalidated
<1>. HIDE DEF AllReached
<1>. QED
  BY <1>1, <1>2, <1>3, PTL DEF Spec
=============================================================================
