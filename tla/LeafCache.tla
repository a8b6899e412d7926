------------------------------- MODULE LeafCache -------------------------------
(***************************************************************************)
(* The certificate authority's leaf cache (internal/tlsca): a TLS handshake *)
(* asks for the certificate of a host.  A miss is minted with no lock held; *)
(* handshakes that miss the same host meanwhile wait for that mint and      *)
(* share its result, a failure included.  The cache is bounded: it evicts   *)
(* in the order in which hosts first came in.                               *)
(***************************************************************************)
EXTENDS Handshakes, Naturals, Sequences, FiniteSets, Functions

CONSTANTS
  LeafCacheMax,  \* leafCacheMax
  MaxMints,      \* bound: mints in one behaviour
  MaxExpiries    \* bound: certificates that come near their end

ASSUME LeafCacheMaxAssumption == LeafCacheMax \in Nat \ {0}

VARIABLES
  cache,     \* what the cache has for a host: nothing, a usable leaf, or one near its end
  cacheOrd,  \* hosts in the cache, oldest first
  minting,   \* the mint in flight for a host, 0 when there is none
  mints,     \* every leafMint made: its host, its result, and whether done is closed
  leafCall,  \* what each connection's LeafForHost is doing, and for which host
  expiries

leafVars == <<cache, cacheOrd, minting, mints, leafCall, expiries>>

Leaves == {"none", "fresh", "stale"}
LeafSteps == {"idle", "missed", "mint", "publish", "wait", "leaf", "error"}
NoCall == [at |-> "idle", host |-> CHOOSE h \in Hosts : TRUE, mint |-> 0, past |-> {}]

Cached == {h \in Hosts : cache[h] # "none"}
Usable(h) == cache[h] = "fresh"
DoneMints == {i \in DOMAIN mints : mints[i].done}

LeafInit ==
  /\ cache = [h \in Hosts |-> "none"] /\ cacheOrd = <<>>
  /\ minting = [h \in Hosts |-> 0] /\ mints = <<>>
  /\ leafCall = [c \in Conns |-> NoCall]
  /\ expiries = 0

At(c, step) == leafCall' = [leafCall EXCEPT ![c].at = step]

\* cached: the hit path takes the read lock only.  past is history: the mints
\* that had ended when this call began.
LeafForHost(c, h) ==
  /\ leafCall[c].at = "idle"
  /\ leafCall' = [leafCall EXCEPT ![c] =
       [at |-> IF Usable(h) THEN "leaf" ELSE "missed", host |-> h, mint |-> 0, past |-> DoneMints]]
  /\ UNCHANGED <<cache, cacheOrd, minting, mints, expiries>>

\* Under the write lock, the cache is looked at again ...
FoundAfterAll(c) ==
  /\ leafCall[c].at = "missed" /\ Usable(leafCall[c].host)
  /\ At(c, "leaf")
  /\ UNCHANGED <<cache, cacheOrd, minting, mints, expiries>>

\* ... or a mint of this host is joined ...
JoinMint(c) ==
  LET h == leafCall[c].host IN
  /\ leafCall[c].at = "missed" /\ ~Usable(h) /\ minting[h] # 0
  /\ leafCall' = [leafCall EXCEPT ![c].at = "wait", ![c].mint = minting[h]]
  /\ UNCHANGED <<cache, cacheOrd, minting, mints, expiries>>

\* ... or begun.
LeadMint(c) ==
  LET h == leafCall[c].host IN
  /\ leafCall[c].at = "missed" /\ ~Usable(h) /\ minting[h] = 0
  /\ Len(mints) < MaxMints
  /\ mints' = Append(mints, [host |-> h, leaf |-> FALSE, done |-> FALSE])
  /\ minting' = [minting EXCEPT ![h] = Len(mints')]
  /\ leafCall' = [leafCall EXCEPT ![c].at = "mint", ![c].mint = Len(mints')]
  /\ UNCHANGED <<cache, cacheOrd, expiries>>

\* Fault: the order gets the host again each time it is minted.
StoreAgain(h) ==
  /\ h \in Cached
  /\ cache' = [cache EXCEPT ![h] = "fresh"] /\ cacheOrd' = Append(cacheOrd, h)

\* storeLeafLocked: a host that is already in keeps its place in the order; a new
\* one puts the oldest out when the bound is passed.
StoreKnown(h) ==
  /\ h \in Cached
  /\ cache' = [cache EXCEPT ![h] = "fresh"] /\ UNCHANGED cacheOrd

StoreNew(h) ==
  /\ h \notin Cached /\ Len(cacheOrd) < LeafCacheMax
  /\ cache' = [cache EXCEPT ![h] = "fresh"] /\ cacheOrd' = Append(cacheOrd, h)

StoreEvicting(h) ==
  /\ h \notin Cached /\ Len(cacheOrd) = LeafCacheMax
  /\ cache' = [cache EXCEPT ![Head(cacheOrd)] = "none", ![h] = "fresh"]
  /\ cacheOrd' = Append(Tail(cacheOrd), h)

\* The mint of c ends; its host is no longer in flight from here on.
MintEnds(c) ==
  LET h == leafCall[c].host IN
  /\ leafCall[c].at = "mint"
  /\ minting' = [minting EXCEPT ![h] = 0]
  /\ At(c, "publish")
  /\ UNCHANGED expiries

MintSucceeds(c) ==
  /\ MintEnds(c)
  /\ \/ StoreKnown(leafCall[c].host)
     \/ StoreNew(leafCall[c].host)
     \/ StoreEvicting(leafCall[c].host)
  /\ mints' = [mints EXCEPT ![leafCall[c].mint].leaf = TRUE]

\* Fault: the marker is cleared after publishing, and never when the mint failed.
MintFailsKept(c) ==
  /\ leafCall[c].at = "mint" /\ At(c, "publish")
  /\ UNCHANGED <<cache, cacheOrd, minting, mints, expiries>>

MintFails(c) == MintEnds(c) /\ UNCHANGED <<cache, cacheOrd, mints>>

\* Fault: a leader whose mint failed returns without closing done.
PublishForgotten(c) ==
  /\ leafCall[c].at = "publish"
  /\ mints' = [mints EXCEPT ![leafCall[c].mint].done = @ \/ mints[leafCall[c].mint].leaf]
  /\ At(c, IF mints[leafCall[c].mint].leaf THEN "leaf" ELSE "error")
  /\ UNCHANGED <<cache, cacheOrd, minting, expiries>>

\* m.tc, m.err and close(done): what the waiters get, and what c returns.
Publish(c) ==
  /\ leafCall[c].at = "publish"
  /\ mints' = [mints EXCEPT ![leafCall[c].mint].done = TRUE]
  /\ At(c, IF mints[leafCall[c].mint].leaf THEN "leaf" ELSE "error")
  /\ UNCHANGED <<cache, cacheOrd, minting, expiries>>

\* A waiter wakes up with the result of the mint it joined.
Share(c) ==
  /\ leafCall[c].at = "wait" /\ mints[leafCall[c].mint].done
  /\ At(c, IF mints[leafCall[c].mint].leaf THEN "leaf" ELSE "error")
  /\ UNCHANGED <<cache, cacheOrd, minting, mints, expiries>>

\* Time passes: leafUsable of a cached certificate becomes false.
Expire(h) ==
  /\ expiries < MaxExpiries /\ Usable(h)
  /\ cache' = [cache EXCEPT ![h] = "stale"] /\ expiries' = expiries + 1
  /\ UNCHANGED <<cacheOrd, minting, mints, leafCall>>

\* The steps a call takes by itself once it has begun.
LeafStep(c) ==
  \/ FoundAfterAll(c) \/ JoinMint(c) \/ LeadMint(c) \/ MintSucceeds(c)
  \/ MintFails(c) \/ Publish(c) \/ Share(c)

\* The handshake uses what LeafForHost returned.
LeafReturns(c, result) ==
  /\ leafCall[c].at = result /\ result \in {"leaf", "error"}
  /\ leafCall' = [leafCall EXCEPT ![c] = NoCall]
  /\ UNCHANGED <<cache, cacheOrd, minting, mints, expiries>>

LeafNext ==
  \/ \E c \in Conns : \/ LeafStep(c)
                      \/ \E h \in Hosts : LeafForHost(c, h)
                      \/ LeafReturns(c, "leaf") \/ LeafReturns(c, "error")
  \/ \E h \in Hosts : Expire(h)

LeafSpec == LeafInit /\ [][LeafNext]_leafVars

--------------------------------------------------------------------------------
LeafTypeOK ==
  /\ cache \in [Hosts -> Leaves] /\ cacheOrd \in Seq(Hosts)
  /\ mints \in Seq([host : Hosts, leaf : BOOLEAN, done : BOOLEAN])
  /\ minting \in [Hosts -> Nat] /\ expiries \in Nat
  /\ leafCall \in [Conns -> [at : LeafSteps, host : Hosts, mint : Nat, past : SUBSET Nat]]

\* The eviction order and the cache are the same hosts, each once, and no more
\* than the bound: a host that storeLeafLocked left out of the order would never be evicted.
CacheIsOrdered ==
  /\ Range(cacheOrd) = Cached
  /\ IsInjective(cacheOrd)
  /\ Len(cacheOrd) <= LeafCacheMax

\* Ten handshakes to a new host cost one mint: while a mint of a host runs, no
\* other of that host does, and the marker that makes callers join it is there.
OneMintPerHost ==
  \A c \in Conns : leafCall[c].at = "mint" =>
    /\ minting[leafCall[c].host] = leafCall[c].mint
    /\ \A d \in Conns : leafCall[d].at = "mint" /\ leafCall[d].host = leafCall[c].host => d = c

\* A caller that gets an error gets it from a mint that was still running when it
\* called: the failure of an earlier one is not inherited (the comment in LeafForHost).
NoInheritedFailure ==
  \A c \in Conns : leafCall[c].at = "error" => leafCall[c].mint \notin leafCall[c].past
================================================================================
