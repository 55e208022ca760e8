--------------------------- MODULE RedirectCache ---------------------------
(***************************************************************************)
(* Redirect resolution through the Redis cache, and its invalidation.      *)
(*                                                                         *)
(* One short link is followed.  Its row and its geo targets are two tables *)
(* that an edit changes in one transaction and a visit reads in two        *)
(* statements.  The link is served under the base host and under the       *)
(* tenant's domains (aliases) while they are active; each host has a cache *)
(* entry of its own.  Every handler runs in a request of its own and       *)
(* interleaves with the others between any two accesses to the database or *)
(* to Redis:                                                               *)
(*                                                                         *)
(*   visit    [dns] -> get -> row -> geo -> set                            *)
(*   edit     commit -> reread -> aliases -> delete one entry per host     *)
(*   delete   commit ----------> aliases -> delete one entry per host      *)
(*   domain   status change -> slugs -> delete the entry of that host      *)
(*                                                                         *)
(* A destination is known by its version, the number of the edit that      *)
(* wrote it.                                                               *)
(***************************************************************************)
EXTENDS Naturals, FiniteSets

CONSTANTS
  Request,   \* HTTP requests under way at the same time
  Base,      \* the base host, always served
  Alias,     \* host names that may be registered as domains of the tenant
  Gated,     \* versions with a password or with max_clicks
  MaxEdits,  \* bound on the edits of the link
  Faults,    \* which faults may happen, see FaultKinds
  Nothing    \* no cache entry, no host

FaultKinds ==
  { "fill_error",       \* Redis Get or Set fails, or the load from PostgreSQL
    "invalidate_error", \* a step between commit and the last Delete fails
    "late_reverify" }   \* a DNS check outlives the status it was started for

Host == Alias \cup {Base}
Version == 0 .. MaxEdits

(* CachedRedirect: the row and the geo targets, each as of some version. *)
Entry == [row : Version, geo : Version]

ASSUME CacheAssumption ==
  /\ MaxEdits \in Nat
  /\ Gated \subseteq Version
  /\ Faults \subseteq FaultKinds
  /\ Base \notin Alias
  /\ Nothing \notin Host /\ Nothing \notin Entry

VARIABLES
  ver,      \* version of the committed row and geo targets
  live,     \* deleted_at IS NULL
  status,   \* tenant_domains.status of an alias, or absent
  cache,    \* Redis: host -> entry
  pc,       \* next access of a request
  host,     \* host a visit asked for
  got,      \* what a visit has read so far
  todo,     \* hosts whose entry a request still has to delete
  late      \* history: hosts whose entry was out of date when it was stored

linkVars == <<ver, live>>
requestVars == <<pc, host, got, todo>>
vars == <<linkVars, status, cache, requestVars, late>>

PC == {"idle", "dns", "get", "row", "geo", "set",
       "reread", "aliases", "slugs", "delete"}
Status == {"absent", "pending", "active"}

Current == [row |-> ver, geo |-> ver]
Active(h) == h = Base \/ (h \in Alias /\ status[h] = "active")

Init ==
  /\ ver = 0
  /\ live = TRUE
  /\ status \in [Alias -> Status]
  /\ cache = [h \in Host |-> Nothing]
  /\ pc = [p \in Request |-> "idle"]
  /\ host = [p \in Request |-> Nothing]
  /\ got = [p \in Request |-> Nothing]
  /\ todo = [p \in Request |-> {}]
  /\ late = {}

Goto(p, l) == pc' = [pc EXCEPT ![p] = l]

(* The request is answered. *)
Finish(p) ==
  /\ Goto(p, "idle")
  /\ host' = [host EXCEPT ![p] = Nothing]
  /\ got' = [got EXCEPT ![p] = Nothing]
  /\ todo' = [todo EXCEPT ![p] = {}]

-----------------------------------------------------------------------------
(* Visits: redirectSlug and Resolver.Resolve *)

(* The host is the base host or an active domain; a domain verified more    *)
(* than a day ago is looked up in the DNS first.                            *)
redirectSlug(p, h) ==
  /\ pc[p] = "idle"
  /\ Active(h)
  /\ host' = [host EXCEPT ![p] = h]
  /\ Goto(p, "get") \/ (h \in Alias /\ Goto(p, "dns"))
  /\ UNCHANGED <<linkVars, status, cache, got, todo, late>>

(* SetTenantDomainVerified(id, true), whatever the status is by now. *)
DomainConfirmed(p) ==
  /\ pc[p] = "dns"
  /\ status[host[p]] = "pending" => "late_reverify" \in Faults
  /\ status' = [status EXCEPT ![host[p]] =
                  IF @ = "absent" THEN "absent" ELSE "active"]
  /\ Goto(p, "get")
  /\ UNCHANGED <<linkVars, cache, host, got, todo, late>>

(* SetTenantDomainVerified(id, false), then invalidateDomainRedirects. *)
DomainLapsed(p) ==
  /\ pc[p] = "dns"
  /\ status' = [status EXCEPT ![host[p]] =
                  IF @ = "absent" THEN "absent" ELSE "pending"]
  /\ todo' = [todo EXCEPT ![p] = {host[p]}]
  /\ Goto(p, "slugs")
  /\ UNCHANGED <<linkVars, cache, host, got, late>>

CacheHit(p) ==
  /\ pc[p] = "get"
  /\ cache[host[p]] # Nothing
  /\ Finish(p)
  /\ UNCHANGED <<linkVars, status, cache, late>>

(* A miss, or an error of Redis, which counts as one. *)
CacheMiss(p) ==
  /\ pc[p] = "get"
  /\ cache[host[p]] = Nothing \/ "fill_error" \in Faults
  /\ Goto(p, "row")
  /\ UNCHANGED <<linkVars, status, cache, host, got, todo, late>>

(* LinkBySlug, first statement: the row of a link that is not deleted. *)
LoadRow(p) ==
  /\ pc[p] = "row"
  /\ live
  /\ got' = [got EXCEPT ![p] = Current]
  /\ Goto(p, "geo")
  /\ UNCHANGED <<linkVars, status, cache, host, todo, late>>

LoadFails(p) ==
  /\ \/ pc[p] = "row" /\ (~live \/ "fill_error" \in Faults)
     \/ pc[p] = "geo" /\ "fill_error" \in Faults
  /\ Finish(p)
  /\ UNCHANGED <<linkVars, status, cache, late>>

(* Variant: FromLink does not look at the password or max_clicks.  A variant *)
(* is a bug the code does not have; the runs are validated by putting it in  *)
(* the place of the definition that follows it.                              *)
LoadGeoUngated(p) ==
  /\ pc[p] = "geo"
  /\ got' = [got EXCEPT ![p].geo = ver]
  /\ Goto(p, "set")
  /\ UNCHANGED <<linkVars, status, cache, host, todo, late>>

(* hydrateLinks, second statement: the geo targets as they are now.  A link *)
(* with a password or max_clicks is served without being stored.            *)
LoadGeo(p) ==
  /\ pc[p] = "geo"
  /\ IF got[p].row \in Gated
     THEN Finish(p)
     ELSE /\ got' = [got EXCEPT ![p].geo = ver]
          /\ Goto(p, "set")
          /\ UNCHANGED <<host, todo>>
  /\ UNCHANGED <<linkVars, status, cache, late>>

StoreEntry(p) ==
  /\ pc[p] = "set"
  /\ cache' = [cache EXCEPT ![host[p]] = got[p]]
  /\ late' = IF live /\ got[p] = Current THEN late \ {host[p]}
                                         ELSE late \cup {host[p]}
  /\ Finish(p)
  /\ UNCHANGED <<linkVars, status>>

StoreFails(p) ==
  /\ pc[p] = "set"
  /\ "fill_error" \in Faults
  /\ Finish(p)
  /\ UNCHANGED <<linkVars, status, cache, late>>

-----------------------------------------------------------------------------
(* Edits of the link, and invalidateRedirect *)

(* UpdateLink commits row and geo targets together. *)
EditCommits(p) ==
  /\ pc[p] = "idle"
  /\ live
  /\ ver < MaxEdits
  /\ ver' = ver + 1
  /\ Goto(p, "reread")
  /\ UNCHANGED <<live, status, cache, host, got, todo, late>>

(* UpdateLink ends with LinkByID, which the handler invalidates. *)
EditReread(p) ==
  /\ pc[p] = "reread"
  /\ live
  /\ Goto(p, "aliases")
  /\ UNCHANGED <<linkVars, status, cache, host, got, todo, late>>

(* Deleted meanwhile, or unreadable: 400, and nothing is invalidated. *)
EditRereadFails(p) ==
  /\ pc[p] = "reread"
  /\ ~live \/ "invalidate_error" \in Faults
  /\ Finish(p)
  /\ UNCHANGED <<linkVars, status, cache, late>>

DeleteCommits(p) ==
  /\ pc[p] = "idle"
  /\ live
  /\ live' = FALSE
  /\ Goto(p, "aliases")
  /\ UNCHANGED <<ver, status, cache, host, got, todo, late>>

(* Variants: the aliases are forgotten; an empty host name is not skipped. *)
ListBaseHost(p) ==
  /\ pc[p] = "aliases"
  /\ todo' = [todo EXCEPT ![p] = {Base}]
  /\ Goto(p, "delete")
  /\ UNCHANGED <<linkVars, status, cache, host, got, late>>

ListEmptyHost(p) ==
  /\ pc[p] = "aliases"
  /\ todo' = [todo EXCEPT ![p] = {Nothing} \cup {h \in Host : Active(h)}]
  /\ Goto(p, "delete")
  /\ UNCHANGED <<linkVars, status, cache, host, got, late>>

(* redirectHosts: the base host and the aliases that are active now. *)
ListHosts(p) ==
  /\ pc[p] = "aliases"
  /\ \/ todo' = [todo EXCEPT ![p] = {h \in Host : Active(h)}]
     \/ "invalidate_error" \in Faults /\ todo' = [todo EXCEPT ![p] = {Base}]
  /\ Goto(p, "delete")
  /\ UNCHANGED <<linkVars, status, cache, host, got, late>>

(* Resolver.Invalidate: one Delete per host, whether the others fail or not. *)
Invalidate(p, h) ==
  /\ pc[p] = "delete"
  /\ h \in todo[p]
  /\ \/ /\ cache' = [cache EXCEPT ![h] = Nothing]
        /\ late' = late \ {h}
     \/ "invalidate_error" \in Faults /\ UNCHANGED <<cache, late>>
  /\ IF todo[p] = {h}
     THEN Finish(p)
     ELSE /\ todo' = [todo EXCEPT ![p] = @ \ {h}]
          /\ UNCHANGED <<pc, host, got>>
  /\ UNCHANGED <<linkVars, status>>

-----------------------------------------------------------------------------
(* Domains: domains, domainByID and invalidateDomainRedirects *)

(* CreateTenantDomain: nothing is served under the name yet. *)
DomainCreate(h) ==
  /\ status[h] = "absent"
  /\ status' = [status EXCEPT ![h] = "pending"]
  /\ UNCHANGED <<linkVars, cache, requestVars, late>>

(* Verified, changed in its not_found_url, or deleted. *)
DomainWrite(p, h) ==
  /\ pc[p] = "idle"
  /\ status[h] # "absent"
  /\ \E s \in {"active", status[h], "absent"} : status' = [status EXCEPT ![h] = s]
  /\ todo' = [todo EXCEPT ![p] = {h}]
  /\ Goto(p, "slugs")
  /\ UNCHANGED <<linkVars, cache, host, got, late>>

(* ActiveLinkSlugsForTenant: a deleted link is not among them. *)
ListSlugs(p) ==
  /\ pc[p] = "slugs"
  /\ \/ live /\ Goto(p, "delete") /\ UNCHANGED <<host, got, todo>>
     \/ (~live \/ "invalidate_error" \in Faults) /\ Finish(p)
  /\ UNCHANGED <<linkVars, status, cache, late>>

-----------------------------------------------------------------------------
(* Variant: entries are stored without a TTL. *)
NeverExpire(h) == FALSE

(* Redis drops an entry 24 hours after it was stored; hits do not renew it. *)
Expire(h) ==
  /\ cache[h] # Nothing
  /\ cache' = [cache EXCEPT ![h] = Nothing]
  /\ late' = late \ {h}
  /\ UNCHANGED <<linkVars, status, requestVars>>

VisitStep(p) ==
  \/ DomainConfirmed(p) \/ DomainLapsed(p)
  \/ CacheHit(p) \/ CacheMiss(p)
  \/ LoadRow(p) \/ LoadGeo(p) \/ LoadFails(p)
  \/ StoreEntry(p) \/ StoreFails(p)

WriterStep(p) ==
  \/ EditReread(p) \/ EditRereadFails(p)
  \/ ListHosts(p) \/ ListSlugs(p)
  \/ \E h \in Host : Invalidate(p, h)

Arrival(p) ==
  \/ \E h \in Host : redirectSlug(p, h)
  \/ EditCommits(p) \/ DeleteCommits(p)
  \/ \E h \in Alias : DomainWrite(p, h)

Next ==
  \/ \E p \in Request : Arrival(p) \/ VisitStep(p) \/ WriterStep(p)
  \/ \E h \in Alias : DomainCreate(h)
  \/ \E h \in Host : Expire(h)

Spec == Init /\ [][Next]_vars

(* A request that has begun goes on (every access has a timeout), and Redis *)
(* expires what it holds.  Nobody is obliged to visit, edit or verify.      *)
Fairness ==
  /\ \A p \in Request : WF_vars(VisitStep(p)) /\ WF_vars(WriterStep(p))
  /\ \A h \in Host : WF_vars(Expire(h))

FairSpec == Spec /\ Fairness
-----------------------------------------------------------------------------
(* Properties *)

TypeOK ==
  /\ ver \in Version
  /\ live \in BOOLEAN
  /\ status \in [Alias -> Status]
  /\ cache \in [Host -> Entry \cup {Nothing}]
  /\ pc \in [Request -> PC]
  /\ host \in [Request -> Host \cup {Nothing}]
  /\ got \in [Request -> Entry \cup {Nothing}]
  /\ todo \in [Request -> SUBSET Host]
  /\ late \subseteq Host

(* A request that has changed something still has to delete the entry of h. *)
Pending(h) ==
  \E p \in Request : pc[p] \in {"reread", "aliases"} \/ h \in todo[p]

(* A visit to h would be answered from an entry that is out of date. *)
Stale(h) ==
  /\ Active(h)
  /\ cache[h] # Nothing
  /\ ~live \/ cache[h] # Current

(* While the link exists, an entry that was current when it was stored is   *)
(* out of date only until the invalidation of the edit that changed it, or  *)
(* of the domain change that made its host active again, gets to it.  What  *)
(* remains is the entry stored late, by a visit that overlapped an edit.    *)
StaleOnlyWhilePending ==
  \A h \in Host : live /\ Stale(h) => Pending(h) \/ h \in late

(* FromLink: no entry carries a version with a password or max_clicks, even *)
(* one whose row and geo targets were read on two sides of an edit.         *)
GatedNeverStored ==
  \A h \in Host : cache[h] # Nothing => cache[h].row \notin Gated

(* Once the edits are over, every host serves the current destination from  *)
(* then on, whatever failed or overlapped: a late fill is not renewed by    *)
(* the hits it gets, and its invalidation is not needed for it to go.       *)
CacheConverges ==
  <>[](\A h \in Host : ~Stale(h))

(* "Edit/delete never serves stale destination after successful             *)
(* invalidation": without faults, no active host holds an old entry when no *)
(* invalidation is under way.                                               *)
NoStaleAfterInvalidation ==
  \A h \in Host : Stale(h) => Pending(h)

(* "Invalidate all affected host aliases on link edit/delete, domain        *)
(* changes": the same, leaving aside entries that were stored late.         *)
AliasesInvalidated ==
  \A h \in Host : Stale(h) => Pending(h) \/ h \in late
=============================================================================
