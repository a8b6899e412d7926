--------------------------- MODULE ProxyConnect_proofs ---------------------------
(***************************************************************************)
(* Theorems about the leaf cache, for any hosts, any number of handshakes,  *)
(* any bound of the cache, and any number of mints and expiries, and then   *)
(* about CONNECT and the settings, for any hosts, handshakes,               *)
(* steps of an update, values and lists: the composition keeps what the     *)
(* leaf cache promises, and the settings that are saved are those in force, *)
(* whatever PUTs run at once, as long as these keep to different ones.      *)
(***************************************************************************)
EXTENDS ProxyConnect, TLAPS

--------------------------------------------------------------------------------
(* The leaf cache: its inductive invariant *)

\* A host whose marker is set has a mint of its own that nobody was told of yet.
Marked ==
  \A h \in Hosts : minting[h] # 0 =>
    minting[h] \in DOMAIN mints /\ ~mints[minting[h]].done /\ mints[minting[h]].host = h

\* Who runs a mint, is about to publish one or waits for one names a mint that was begun.
Joined ==
  \A c \in Conns : leafCall[c].at \in {"mint", "publish", "wait"} =>
    leafCall[c].mint \in DOMAIN mints

\* The marker is cleared before the result is published.
ClearedFirst ==
  \A c \in Conns : leafCall[c].at = "publish" => \A h \in Hosts : minting[h] # leafCall[c].mint

\* What had ended when a call began has ended.
PastIsDone == \A c \in Conns : leafCall[c].past \subseteq DoneMints

\* No call runs, awaits or reports a mint that had ended when it began.
NotOfThePast ==
  \A c \in Conns : leafCall[c].at \in {"mint", "publish", "wait", "error"} =>
    leafCall[c].mint \notin leafCall[c].past

MintInv == Marked /\ Joined /\ ClearedFirst /\ OneMintPerHost
PastInv == PastIsDone /\ NotOfThePast
LeafInv == LeafTypeOK /\ CacheIsOrdered /\ MintInv /\ PastInv

LEMMA NoCallType ==
  NoCall \in [at : LeafSteps, host : Hosts, mint : Nat, past : SUBSET Nat]
BY HostsAssumption DEF NoCall, LeafSteps, HostsAssumption

LEMMA LeafInitInv == LeafInit => LeafInv
<1> SUFFICES ASSUME LeafInit PROVE LeafInv
  OBVIOUS
<1>1. LeafTypeOK
  <2>1. cacheOrd \in Seq(Hosts) /\ mints \in Seq([host : Hosts, leaf : BOOLEAN, done : BOOLEAN])
    BY DEF LeafInit
  <2>2. leafCall \in [Conns -> [at : LeafSteps, host : Hosts, mint : Nat, past : SUBSET Nat]]
    BY NoCallType DEF LeafInit
  <2> QED
    BY <2>1, <2>2 DEF LeafInit, LeafTypeOK, Leaves
<1>2. CacheIsOrdered
  BY LeafCacheMaxAssumption DEF LeafInit, CacheIsOrdered, LeafCacheMaxAssumption, Cached, Range, IsInjective
<1>3. MintInv
  BY DEF LeafInit, MintInv, Marked, Joined, ClearedFirst, OneMintPerHost, NoCall
<1>4. PastInv
  BY DEF LeafInit, PastInv, PastIsDone, NotOfThePast, NoCall
<1> QED
  BY <1>1, <1>2, <1>3, <1>4 DEF LeafInv

--------------------------------------------------------------------------------
(* Types *)

\* The steps that move one call on leave its other fields alone.
LEMMA MovesOn ==
  ASSUME LeafTypeOK, NEW c \in Conns, NEW step \in LeafSteps, At(c, step)
  PROVE  leafCall' \in [Conns -> [at : LeafSteps, host : Hosts, mint : Nat, past : SUBSET Nat]]
BY DEF LeafTypeOK, At

LEMMA DoneMintsType == LeafTypeOK => DoneMints \in SUBSET Nat
BY DEF LeafTypeOK, DoneMints

Mint == [host : Hosts, leaf : BOOLEAN, done : BOOLEAN]

\* Sequences whose elements are replaced and read within their domain.
LEMMA SetAt ==
  ASSUME NEW S, NEW s \in Seq(S), NEW i \in DOMAIN s, NEW e \in S
  PROVE  [s EXCEPT ![i] = e] \in Seq(S)
OBVIOUS

LEMMA GetAt == ASSUME NEW S, NEW s \in Seq(S), NEW i \in DOMAIN s PROVE s[i] \in S
OBVIOUS

LEMMA MintsType == LeafTypeOK => mints \in Seq(Mint)
BY DEF LeafTypeOK, Mint

\* storeLeafLocked: each way of storing keeps the cache and its order typed.
LEMMA StoreType ==
  ASSUME LeafTypeOK, NEW h \in Hosts, StoreKnown(h) \/ StoreNew(h) \/ StoreEvicting(h)
  PROVE  cache' \in [Hosts -> Leaves] /\ cacheOrd' \in Seq(Hosts)
<1>1. CASE StoreKnown(h)
  BY <1>1 DEF StoreKnown, LeafTypeOK, Leaves
<1>2. CASE StoreNew(h)
  <2>1. Append(cacheOrd, h) \in Seq(Hosts)
    BY DEF LeafTypeOK
  <2> QED
    BY <1>2, <2>1 DEF StoreNew, LeafTypeOK, Leaves
<1>3. CASE StoreEvicting(h)
  <2>1. cacheOrd # <<>>
    BY <1>3, LeafCacheMaxAssumption DEF StoreEvicting, LeafCacheMaxAssumption
  <2>2. Tail(cacheOrd) \in Seq(Hosts)
    BY <2>1 DEF LeafTypeOK
  <2>3. Append(Tail(cacheOrd), h) \in Seq(Hosts)
    BY <2>2
  <2>4. cacheOrd' \in Seq(Hosts)
    BY <1>3, <2>3 DEF StoreEvicting
  <2>5. cache' \in [Hosts -> Leaves]
    BY <1>3 DEF StoreEvicting, LeafTypeOK, Leaves
  <2> QED
    BY <2>4, <2>5
<1> QED
  BY <1>1, <1>2, <1>3

LEMMA LeafTypeStep == LeafTypeOK /\ MintInv /\ [LeafNext]_leafVars => LeafTypeOK'
<1> USE DEF LeafTypeOK
<1> SUFFICES ASSUME LeafTypeOK, MintInv, [LeafNext]_leafVars PROVE LeafTypeOK'
  OBVIOUS
<1>1. ASSUME NEW c \in Conns, NEW h \in Hosts, LeafForHost(c, h) PROVE LeafTypeOK'
  <2> DEFINE new == [at |-> IF Usable(h) THEN "leaf" ELSE "missed", host |-> h, mint |-> 0,
                     past |-> DoneMints]
  <2>1. new \in [at : LeafSteps, host : Hosts, mint : Nat, past : SUBSET Nat]
    BY DoneMintsType DEF LeafSteps
  <2>2. leafCall' = [leafCall EXCEPT ![c] = new]
    BY <1>1 DEF LeafForHost
  <2> HIDE DEF new
  <2> QED
    BY <1>1, <2>1, <2>2 DEF LeafForHost
<1>2. ASSUME NEW c \in Conns, FoundAfterAll(c) PROVE LeafTypeOK'
  BY <1>2, MovesOn DEF FoundAfterAll, LeafSteps
<1>3. ASSUME NEW c \in Conns, JoinMint(c) PROVE LeafTypeOK'
  BY <1>3 DEF JoinMint, LeafSteps
<1>4. ASSUME NEW c \in Conns, LeadMint(c) PROVE LeafTypeOK'
  <2> DEFINE h == leafCall[c].host
             new == [host |-> h, leaf |-> FALSE, done |-> FALSE]
  <2>1. h \in Hosts /\ new \in Mint
    BY DEF Mint
  <2>2. mints' = Append(mints, new) /\ mints' \in Seq(Mint) /\ Len(mints') \in Nat
    BY <1>4, <2>1 DEF LeadMint, Mint
  <2>3. minting' \in [Hosts -> Nat]
    BY <1>4, <2>2 DEF LeadMint
  <2>4. leafCall' \in [Conns -> [at : LeafSteps, host : Hosts, mint : Nat, past : SUBSET Nat]]
    BY <1>4, <2>2 DEF LeadMint, LeafSteps
  <2> QED
    BY <1>4, <2>2, <2>3, <2>4 DEF LeadMint, Mint
<1>5. ASSUME NEW c \in Conns, MintSucceeds(c) PROVE LeafTypeOK'
  <2>1. cache' \in [Hosts -> Leaves] /\ cacheOrd' \in Seq(Hosts)
    BY <1>5, StoreType DEF MintSucceeds
  <2>2. leafCall' \in [Conns -> [at : LeafSteps, host : Hosts, mint : Nat, past : SUBSET Nat]]
    BY <1>5, MovesOn DEF MintSucceeds, MintEnds, LeafSteps
  <2>3. minting' \in [Hosts -> Nat] /\ expiries' \in Nat
    BY <1>5 DEF MintSucceeds, MintEnds
  <2> DEFINE i == leafCall[c].mint
             new == [mints[i] EXCEPT !.leaf = TRUE]
  <2>4. i \in DOMAIN mints
    BY <1>5 DEF MintSucceeds, MintEnds, MintInv, Joined
  <2>5. mints[i] \in Mint
    BY <2>4, MintsType, GetAt
  <2>6. new \in Mint
    BY <2>5 DEF Mint
  <2>7. mints' = [mints EXCEPT ![i] = new]
    BY <1>5 DEF MintSucceeds
  <2>8. mints' \in Seq(Mint)
    <3> HIDE DEF new, i
    <3> QED BY <2>4, <2>6, <2>7, SetAt DEF Mint
  <2> QED
    BY <2>1, <2>2, <2>3, <2>8 DEF Mint
<1>6. ASSUME NEW c \in Conns, MintFails(c) PROVE LeafTypeOK'
  <2>1. leafCall' \in [Conns -> [at : LeafSteps, host : Hosts, mint : Nat, past : SUBSET Nat]]
    BY <1>6, MovesOn DEF MintFails, MintEnds, LeafSteps
  <2> QED
    BY <1>6, <2>1 DEF MintFails, MintEnds
<1>7. ASSUME NEW c \in Conns, Publish(c) PROVE LeafTypeOK'
  <2>1. leafCall' \in [Conns -> [at : LeafSteps, host : Hosts, mint : Nat, past : SUBSET Nat]]
    BY <1>7, MovesOn DEF Publish, LeafSteps
  <2> DEFINE i == leafCall[c].mint
             new == [mints[i] EXCEPT !.done = TRUE]
  <2>2. i \in DOMAIN mints
    BY <1>7 DEF Publish, MintInv, Joined
  <2>3. mints[i] \in Mint
    BY <2>2, MintsType, GetAt
  <2>4. new \in Mint
    BY <2>3 DEF Mint
  <2>5. mints' = [mints EXCEPT ![i] = new]
    BY <1>7 DEF Publish
  <2>6. mints' \in Seq(Mint)
    <3> HIDE DEF new, i
    <3> QED BY <2>2, <2>4, <2>5, SetAt DEF Mint
  <2> QED
    BY <1>7, <2>1, <2>6 DEF Publish, Mint
<1>8. ASSUME NEW c \in Conns, Share(c) PROVE LeafTypeOK'
  <2>1. leafCall' \in [Conns -> [at : LeafSteps, host : Hosts, mint : Nat, past : SUBSET Nat]]
    BY <1>8, MovesOn DEF Share, LeafSteps
  <2> QED
    BY <1>8, <2>1 DEF Share
<1>9. ASSUME NEW c \in Conns, NEW r, LeafReturns(c, r) PROVE LeafTypeOK'
  BY <1>9, NoCallType DEF LeafReturns
<1>10. ASSUME NEW h \in Hosts, Expire(h) PROVE LeafTypeOK'
  BY <1>10 DEF Expire, Leaves
<1>11. CASE UNCHANGED leafVars
  BY <1>11 DEF leafVars
<1> QED
  BY <1>1, <1>2, <1>3, <1>4, <1>5, <1>6, <1>7, <1>8, <1>9, <1>10, <1>11 DEF LeafNext, LeafStep

--------------------------------------------------------------------------------
(* The list of mints: one more, or one that changed *)

\* A mint that begins: it is the last of the sequence, and the others are as before.
LEMMA Appended ==
  ASSUME mints \in Seq(Mint), NEW new \in Mint, mints' = Append(mints, new)
  PROVE  /\ Len(mints') = Len(mints) + 1 /\ Len(mints') # 0
         /\ Len(mints') \in DOMAIN mints' /\ Len(mints') \notin DOMAIN mints
         /\ mints'[Len(mints')] = new
         /\ \A i \in DOMAIN mints : i \in DOMAIN mints' /\ mints'[i] = mints[i]
OBVIOUS

\* A mint that brought a leaf is as done as before.
LEMMA Succeeded ==
  ASSUME mints \in Seq(Mint), NEW c, leafCall[c].mint \in DOMAIN mints,
         mints' = [mints EXCEPT ![leafCall[c].mint].leaf = TRUE]
  PROVE  /\ DOMAIN mints' = DOMAIN mints
         /\ \A i \in DOMAIN mints : mints'[i].host = mints[i].host /\ mints'[i].done = mints[i].done
<1>1. \A i \in DOMAIN mints : mints[i] \in Mint
  BY GetAt
<1> QED
  BY <1>1 DEF Mint

\* A mint that is published is done, and no other becomes so.
LEMMA Published ==
  ASSUME mints \in Seq(Mint), NEW c, leafCall[c].mint \in DOMAIN mints,
         mints' = [mints EXCEPT ![leafCall[c].mint].done = TRUE]
  PROVE  /\ DOMAIN mints' = DOMAIN mints
         /\ \A i \in DOMAIN mints :
              /\ mints'[i].host = mints[i].host
              /\ i # leafCall[c].mint => mints'[i].done = mints[i].done
              /\ mints[i].done => mints'[i].done
<1>1. \A i \in DOMAIN mints : mints[i] \in Mint
  BY GetAt
<1> QED
  BY <1>1 DEF Mint

--------------------------------------------------------------------------------
(* Mints and their markers *)

LEMMA MintStep == LeafInv /\ [LeafNext]_leafVars => MintInv'
<1> SUFFICES ASSUME LeafInv, [LeafNext]_leafVars PROVE MintInv'
  OBVIOUS
<1> USE DEF LeafInv
<1>m. mints \in Seq(Mint)
  BY MintsType
<1>c. leafCall \in [Conns -> [at : LeafSteps, host : Hosts, mint : Nat, past : SUBSET Nat]]
  BY DEF LeafTypeOK
<1>n. minting \in [Hosts -> Nat]
  BY DEF LeafTypeOK
<1>1. ASSUME NEW c \in Conns, NEW h \in Hosts, LeafForHost(c, h) PROVE MintInv'
  BY <1>1, <1>c DEF LeafForHost, MintInv, Marked, Joined, ClearedFirst, OneMintPerHost
<1>2. ASSUME NEW c \in Conns, FoundAfterAll(c) PROVE MintInv'
  BY <1>2, <1>c DEF FoundAfterAll, At, MintInv, Marked, Joined, ClearedFirst, OneMintPerHost
<1>3. ASSUME NEW c \in Conns, JoinMint(c) PROVE MintInv'
  BY <1>3, <1>c DEF JoinMint, MintInv, Marked, Joined, ClearedFirst, OneMintPerHost
<1>4. ASSUME NEW c \in Conns, LeadMint(c) PROVE MintInv'
  <2> DEFINE h == leafCall[c].host
             new == [host |-> h, leaf |-> FALSE, done |-> FALSE]
             i == Len(mints')
  <2>1. h \in Hosts /\ new \in Mint
    BY <1>c DEF Mint
  <2>2. /\ mints' = Append(mints, new)
        /\ minting' = [minting EXCEPT ![h] = i]
        /\ leafCall' = [leafCall EXCEPT ![c].at = "mint", ![c].mint = i]
        /\ minting[h] = 0
    BY <1>4 DEF LeadMint
  <2>3. /\ i = Len(mints) + 1 /\ i # 0 /\ i \in DOMAIN mints' /\ i \notin DOMAIN mints
        /\ mints'[i] = new
        /\ \A k \in DOMAIN mints : k \in DOMAIN mints' /\ mints'[k] = mints[k]
    BY <2>1, <2>2, <1>m, Appended
  <2>4. leafCall'[c].at = "mint" /\ leafCall'[c].mint = i /\ leafCall'[c].host = h
    BY <2>2, <1>c
  <2>5. \A d \in Conns \ {c} : leafCall'[d] = leafCall[d]
    BY <2>2, <1>c
  <2>6. minting'[h] = i /\ \A g \in Hosts \ {h} : minting'[g] = minting[g]
    BY <2>1, <2>2, <1>n
  <2>7. mints'[i].host = h /\ ~mints'[i].done
    BY <2>3
  <2> HIDE DEF i, new, h
  <2>8. Marked'
    BY <2>3, <2>6, <2>7 DEF MintInv, Marked
  <2>9. Joined'
    BY <2>3, <2>4, <2>5 DEF MintInv, Joined
  <2>10. ClearedFirst'
    BY <2>3, <2>4, <2>5, <2>6 DEF MintInv, ClearedFirst, Joined
  <2>11. OneMintPerHost'
    <3>1. \A d \in Conns : leafCall[d].at = "mint" => leafCall[d].host # h
      BY <2>2, <1>m DEF MintInv, OneMintPerHost, Joined
    <3>2. \A d \in Conns : leafCall[d].host \in Hosts
      BY <1>c
    <3>3. ASSUME NEW d \in Conns, leafCall'[d].at = "mint"
          PROVE  /\ minting'[leafCall'[d].host] = leafCall'[d].mint
                 /\ \A e \in Conns : leafCall'[e].at = "mint" /\ leafCall'[e].host = leafCall'[d].host => e = d
      <4>1. CASE d = c
        BY <4>1, <3>1, <2>4, <2>5, <2>6
      <4>2. CASE d # c
        BY <4>2, <3>1, <3>2, <3>3, <2>4, <2>5, <2>6 DEF MintInv, OneMintPerHost
      <4> QED
        BY <4>1, <4>2
    <3> QED
      BY <3>3 DEF OneMintPerHost
  <2> QED
    BY <2>8, <2>9, <2>10, <2>11 DEF MintInv
<1>5. ASSUME NEW c \in Conns, MintEnds(c),
             DOMAIN mints' = DOMAIN mints,
             \A i \in DOMAIN mints : mints'[i].host = mints[i].host /\ mints'[i].done = mints[i].done
      PROVE  MintInv'
  <2> DEFINE h == leafCall[c].host
  <2>1. h \in Hosts
    BY <1>c
  <2>2. /\ leafCall[c].at = "mint"
        /\ minting' = [minting EXCEPT ![h] = 0]
        /\ leafCall' = [leafCall EXCEPT ![c].at = "publish"]
    BY <1>5 DEF MintEnds, At
  <2>3. leafCall'[c].at = "publish" /\ leafCall'[c].mint = leafCall[c].mint
    BY <2>2, <1>c
  <2>4. \A d \in Conns \ {c} : leafCall'[d] = leafCall[d]
    BY <2>2, <1>c
  <2>5. minting'[h] = 0 /\ \A g \in Hosts \ {h} : minting'[g] = minting[g]
    BY <2>1, <2>2, <1>n
  <2>6. minting[h] = leafCall[c].mint /\ leafCall[c].mint \in DOMAIN mints
    BY <2>2 DEF MintInv, OneMintPerHost, Joined
  <2>7. leafCall[c].mint # 0
    BY <2>6, <1>m
  <2>8. \A g \in Hosts \ {h} : minting[g] # leafCall[c].mint
    BY <2>1, <2>6, <2>7 DEF MintInv, Marked
  <2>9. \A d \in Conns \ {c} : leafCall[d].at = "mint" => leafCall[d].host # h
    BY <2>2 DEF MintInv, OneMintPerHost
  <2>x. \A d \in Conns : leafCall[d].host \in Hosts
    BY <1>c
  <2> HIDE DEF h
  <2>10. Marked'
    BY <2>5, <1>5 DEF MintInv, Marked
  <2>11. Joined'
    BY <2>2, <2>3, <2>4, <1>5 DEF MintInv, Joined
  <2>12. ClearedFirst'
    BY <2>3, <2>4, <2>5, <2>7, <2>8, <1>m, <1>5 DEF MintInv, ClearedFirst, Joined
  <2>13. OneMintPerHost'
    BY <2>3, <2>4, <2>5, <2>9, <2>x DEF MintInv, OneMintPerHost
  <2> QED
    BY <2>10, <2>11, <2>12, <2>13 DEF MintInv
<1>6. ASSUME NEW c \in Conns, MintSucceeds(c) PROVE MintInv'
  <2>1. leafCall[c].mint \in DOMAIN mints
    BY <1>6 DEF MintSucceeds, MintEnds, MintInv, Joined
  <2>2. MintEnds(c) /\ mints' = [mints EXCEPT ![leafCall[c].mint].leaf = TRUE]
    BY <1>6 DEF MintSucceeds
  <2> QED
    BY <2>1, <2>2, <1>m, <1>5, Succeeded
<1>7. ASSUME NEW c \in Conns, MintFails(c) PROVE MintInv'
  BY <1>7, <1>5 DEF MintFails
<1>8. ASSUME NEW c \in Conns, Publish(c) PROVE MintInv'
  <2> DEFINE i == leafCall[c].mint
  <2>1. leafCall[c].at = "publish" /\ i \in DOMAIN mints
    BY <1>8 DEF Publish, MintInv, Joined
  <2>2. mints' = [mints EXCEPT ![i].done = TRUE] /\ UNCHANGED minting
    BY <1>8 DEF Publish
  <2>3. PICK step \in {"leaf", "error"} : leafCall' = [leafCall EXCEPT ![c].at = step]
    BY <1>8 DEF Publish, At
  <2>4. leafCall'[c].at = step
    BY <2>3, <1>c
  <2>5. \A d \in Conns \ {c} : leafCall'[d] = leafCall[d]
    BY <2>3, <1>c
  <2>6. \A g \in Hosts : minting[g] # i
    BY <2>1 DEF MintInv, ClearedFirst
  <2>7. /\ DOMAIN mints' = DOMAIN mints
        /\ \A k \in DOMAIN mints :
             mints'[k].host = mints[k].host /\ (k # i => mints'[k].done = mints[k].done)
    BY <2>1, <2>2, <1>m, Published
  <2>8. Marked'
    BY <2>2, <2>6, <2>7 DEF MintInv, Marked
  <2>9. Joined'
    BY <2>4, <2>5, <2>7 DEF MintInv, Joined
  <2>10. ClearedFirst'
    BY <2>2, <2>4, <2>5 DEF MintInv, ClearedFirst
  <2>11. OneMintPerHost'
    BY <2>2, <2>4, <2>5 DEF MintInv, OneMintPerHost
  <2> QED
    BY <2>8, <2>9, <2>10, <2>11 DEF MintInv
<1>9. ASSUME NEW c \in Conns, Share(c) PROVE MintInv'
  <2>1. PICK step \in {"leaf", "error"} : leafCall' = [leafCall EXCEPT ![c].at = step]
    BY <1>9 DEF Share, At
  <2>2. UNCHANGED <<mints, minting>>
    BY <1>9 DEF Share
  <2> QED
    BY <2>1, <2>2, <1>c DEF MintInv, Marked, Joined, ClearedFirst, OneMintPerHost
<1>10. ASSUME NEW c \in Conns, NEW r, LeafReturns(c, r) PROVE MintInv'
  BY <1>10, <1>c DEF LeafReturns, NoCall, MintInv, Marked, Joined, ClearedFirst, OneMintPerHost
<1>11. ASSUME NEW h \in Hosts, Expire(h) PROVE MintInv'
  BY <1>11 DEF Expire, MintInv, Marked, Joined, ClearedFirst, OneMintPerHost
<1>12. CASE UNCHANGED leafVars
  BY <1>12 DEF leafVars, MintInv, Marked, Joined, ClearedFirst, OneMintPerHost
<1> QED
  BY <1>1, <1>2, <1>3, <1>4, <1>6, <1>7, <1>8, <1>9, <1>10, <1>11, <1>12 DEF LeafNext, LeafStep

--------------------------------------------------------------------------------
(* Which mints a call may see the result of *)

\* A mint that had ended stays ended, so that what a call knew of stays in the past.
LEMMA PastKept ==
  ASSUME PastIsDone, DoneMints \subseteq DoneMints',
         \A c \in Conns : leafCall'[c].past \subseteq leafCall[c].past \cup DoneMints
  PROVE  PastIsDone'
BY DEF PastIsDone

LEMMA PastStep == LeafInv /\ [LeafNext]_leafVars => PastInv'
<1> SUFFICES ASSUME LeafInv, [LeafNext]_leafVars PROVE PastInv'
  OBVIOUS
<1> USE DEF LeafInv
<1>m. mints \in Seq(Mint)
  BY MintsType
<1>c. leafCall \in [Conns -> [at : LeafSteps, host : Hosts, mint : Nat, past : SUBSET Nat]]
  BY DEF LeafTypeOK
<1>1. ASSUME NEW c \in Conns, NEW h \in Hosts, LeafForHost(c, h) PROVE PastInv'
  <2>1. DoneMints' = DoneMints
    BY <1>1 DEF LeafForHost, DoneMints
  <2>2. leafCall'[c].past = DoneMints /\ leafCall'[c].at \notin {"mint", "publish", "wait", "error"}
    BY <1>1, <1>c DEF LeafForHost
  <2>3. \A d \in Conns \ {c} : leafCall'[d] = leafCall[d]
    BY <1>1, <1>c DEF LeafForHost
  <2> QED
    BY <2>1, <2>2, <2>3 DEF PastInv, PastIsDone, NotOfThePast
<1>2. ASSUME NEW c \in Conns, FoundAfterAll(c) PROVE PastInv'
  BY <1>2, <1>c DEF FoundAfterAll, At, PastInv, PastIsDone, NotOfThePast, DoneMints
<1>3. ASSUME NEW c \in Conns, JoinMint(c) PROVE PastInv'
  <2> DEFINE i == minting[leafCall[c].host]
  <2>1. DoneMints' = DoneMints
    BY <1>3 DEF JoinMint, DoneMints
  <2>2. leafCall' = [leafCall EXCEPT ![c].at = "wait", ![c].mint = i] /\ i # 0
    BY <1>3 DEF JoinMint
  <2>3. i \notin DoneMints
    BY <2>2, <1>c DEF MintInv, Marked, DoneMints
  <2>4. leafCall'[c].past = leafCall[c].past /\ leafCall'[c].mint = i
    BY <2>2, <1>c
  <2>5. \A d \in Conns \ {c} : leafCall'[d] = leafCall[d]
    BY <2>2, <1>c
  <2> HIDE DEF i
  <2> QED
    BY <2>1, <2>3, <2>4, <2>5 DEF PastInv, PastIsDone, NotOfThePast
<1>4. ASSUME NEW c \in Conns, LeadMint(c) PROVE PastInv'
  <2> DEFINE new == [host |-> leafCall[c].host, leaf |-> FALSE, done |-> FALSE]
             i == Len(mints')
  <2>1. new \in Mint
    BY <1>c DEF Mint
  <2>2. /\ mints' = Append(mints, new)
        /\ leafCall' = [leafCall EXCEPT ![c].at = "mint", ![c].mint = i]
    BY <1>4 DEF LeadMint
  <2>3. /\ i \notin DOMAIN mints
        /\ \A k \in DOMAIN mints : k \in DOMAIN mints' /\ mints'[k] = mints[k]
    BY <2>1, <2>2, <1>m, Appended
  <2>4. DoneMints \subseteq DoneMints' /\ i \notin DoneMints
    BY <2>3 DEF DoneMints
  <2>5. leafCall'[c].past = leafCall[c].past /\ leafCall'[c].mint = i
    BY <2>2, <1>c
  <2>6. \A d \in Conns \ {c} : leafCall'[d] = leafCall[d]
    BY <2>2, <1>c
  <2> HIDE DEF i, new
  <2> QED
    BY <2>4, <2>5, <2>6 DEF PastInv, PastIsDone, NotOfThePast
<1>5. ASSUME NEW c \in Conns, MintEnds(c), DoneMints' = DoneMints PROVE PastInv'
  BY <1>5, <1>c DEF MintEnds, At, PastInv, PastIsDone, NotOfThePast
<1>6. ASSUME NEW c \in Conns, MintSucceeds(c) PROVE PastInv'
  <2>1. leafCall[c].mint \in DOMAIN mints
    BY <1>6 DEF MintSucceeds, MintEnds, MintInv, Joined
  <2>2. MintEnds(c) /\ mints' = [mints EXCEPT ![leafCall[c].mint].leaf = TRUE]
    BY <1>6 DEF MintSucceeds
  <2>3. DoneMints' = DoneMints
    BY <2>1, <2>2, <1>m, Succeeded DEF DoneMints
  <2> QED
    BY <2>2, <2>3, <1>5
<1>7. ASSUME NEW c \in Conns, MintFails(c) PROVE PastInv'
  <2>1. DoneMints' = DoneMints
    BY <1>7 DEF MintFails, DoneMints
  <2> QED
    BY <1>7, <2>1, <1>5 DEF MintFails
<1>8. ASSUME NEW c \in Conns, Publish(c) PROVE PastInv'
  <2>1. leafCall[c].at = "publish" /\ leafCall[c].mint \in DOMAIN mints
    BY <1>8 DEF Publish, MintInv, Joined
  <2>2. mints' = [mints EXCEPT ![leafCall[c].mint].done = TRUE]
    BY <1>8 DEF Publish
  <2>3. PICK step \in {"leaf", "error"} : leafCall' = [leafCall EXCEPT ![c].at = step]
    BY <1>8 DEF Publish, At
  <2>4. DoneMints \subseteq DoneMints'
    BY <2>1, <2>2, <1>m, Published DEF DoneMints
  <2>5. leafCall'[c].past = leafCall[c].past /\ leafCall'[c].mint = leafCall[c].mint
    BY <2>3, <1>c
  <2>6. \A d \in Conns \ {c} : leafCall'[d] = leafCall[d]
    BY <2>3, <1>c
  <2> QED
    BY <2>1, <2>4, <2>5, <2>6 DEF PastInv, PastIsDone, NotOfThePast
<1>9. ASSUME NEW c \in Conns, Share(c) PROVE PastInv'
  <2>1. PICK step \in {"leaf", "error"} : leafCall' = [leafCall EXCEPT ![c].at = step]
    BY <1>9 DEF Share, At
  <2>2. DoneMints' = DoneMints /\ leafCall[c].at = "wait"
    BY <1>9 DEF Share, DoneMints
  <2> QED
    BY <2>1, <2>2, <1>c DEF PastInv, PastIsDone, NotOfThePast
<1>10. ASSUME NEW c \in Conns, NEW r, LeafReturns(c, r) PROVE PastInv'
  BY <1>10, <1>c DEF LeafReturns, NoCall, PastInv, PastIsDone, NotOfThePast, DoneMints
<1>11. ASSUME NEW h \in Hosts, Expire(h) PROVE PastInv'
  BY <1>11 DEF Expire, PastInv, PastIsDone, NotOfThePast, DoneMints
<1>12. CASE UNCHANGED leafVars
  BY <1>12 DEF leafVars, PastInv, PastIsDone, NotOfThePast, DoneMints
<1> QED
  BY <1>1, <1>2, <1>3, <1>4, <1>6, <1>7, <1>8, <1>9, <1>10, <1>11, <1>12 DEF LeafNext, LeafStep

--------------------------------------------------------------------------------
(* The order in which hosts are evicted *)

\* Every position of the order holds a cached host, every cached host has one, and
\* no two positions hold the same.
LEMMA OrderParts ==
  CacheIsOrdered <=>
    /\ \A i \in DOMAIN cacheOrd : cacheOrd[i] \in Cached
    /\ \A h \in Cached : \E i \in DOMAIN cacheOrd : cacheOrd[i] = h
    /\ \A i, j \in DOMAIN cacheOrd : cacheOrd[i] = cacheOrd[j] => i = j
    /\ Len(cacheOrd) <= LeafCacheMax
BY DEF CacheIsOrdered, Range, IsInjective

LEMMA OrderStored ==
  ASSUME LeafTypeOK, CacheIsOrdered, NEW h \in Hosts,
         StoreKnown(h) \/ StoreNew(h) \/ StoreEvicting(h)
  PROVE  CacheIsOrdered'
<1>t. cache \in [Hosts -> Leaves] /\ cacheOrd \in Seq(Hosts)
  BY DEF LeafTypeOK
<1>m. LeafCacheMax \in Nat \ {0}
  BY LeafCacheMaxAssumption DEF LeafCacheMaxAssumption
<1>1. CASE StoreKnown(h)
  <2>1. Cached' = Cached
    BY <1>1, <1>t DEF StoreKnown, Cached
  <2> QED
    BY <1>1, <2>1 DEF StoreKnown, CacheIsOrdered
<1>2. CASE StoreNew(h)
  <2>1. Cached' = Cached \cup {h}
    BY <1>2, <1>t DEF StoreNew, Cached
  <2>2. /\ DOMAIN cacheOrd' = 1..(Len(cacheOrd) + 1) /\ Len(cacheOrd') = Len(cacheOrd) + 1
        /\ cacheOrd'[Len(cacheOrd) + 1] = h
        /\ \A i \in DOMAIN cacheOrd : cacheOrd'[i] = cacheOrd[i]
    BY <1>2, <1>t DEF StoreNew
  <2>3. h \notin Cached /\ Len(cacheOrd) < LeafCacheMax
    BY <1>2 DEF StoreNew
  <2>4. DOMAIN cacheOrd = 1..Len(cacheOrd) /\ Len(cacheOrd) \in Nat
    BY <1>t
  <2>5. \A i \in DOMAIN cacheOrd' : cacheOrd'[i] \in Cached'
    BY <2>1, <2>2, <2>4, OrderParts
  <2>6. \A g \in Cached' : \E i \in DOMAIN cacheOrd' : cacheOrd'[i] = g
    BY <2>1, <2>2, <2>4, OrderParts
  <2>7. \A i, j \in DOMAIN cacheOrd' : cacheOrd'[i] = cacheOrd'[j] => i = j
    BY <2>2, <2>3, <2>4, OrderParts
  <2>8. Len(cacheOrd') <= LeafCacheMax
    BY <2>2, <2>3, <2>4, <1>m
  <2> QED
    BY <2>5, <2>6, <2>7, <2>8 DEF CacheIsOrdered, Range, IsInjective
<1>3. CASE StoreEvicting(h)
  <2> DEFINE n == Len(cacheOrd)
  <2>1. h \notin Cached /\ n = LeafCacheMax /\ n \in Nat \ {0} /\ DOMAIN cacheOrd = 1..n
    BY <1>3, <1>t, <1>m DEF StoreEvicting
  <2>2. cache' = [cache EXCEPT ![Head(cacheOrd)] = "none", ![h] = "fresh"]
    BY <1>3 DEF StoreEvicting
  <2>3. Head(cacheOrd) = cacheOrd[1] /\ cacheOrd[1] \in Cached
    BY <2>1, <1>t, OrderParts
  <2>4. Cached' = (Cached \ {cacheOrd[1]}) \cup {h}
    BY <2>1, <2>2, <2>3, <1>t DEF Cached
  <2>5. /\ DOMAIN cacheOrd' = 1..n /\ Len(cacheOrd') = n /\ cacheOrd'[n] = h
        /\ \A i \in 1..(n - 1) : cacheOrd'[i] = cacheOrd[i + 1]
    BY <1>3, <2>1, <1>t DEF StoreEvicting
  <2> HIDE DEF n
  <2>6. \A i \in DOMAIN cacheOrd' : cacheOrd'[i] \in Cached'
    <3> SUFFICES ASSUME NEW i \in 1..n PROVE cacheOrd'[i] \in Cached'
      BY <2>5
    <3>1. CASE i = n
      BY <3>1, <2>4, <2>5
    <3>2. CASE i # n
      <4>1. i + 1 \in 1..n /\ i + 1 # 1 /\ i \in 1..(n - 1) /\ 1 \in 1..n
        BY <3>2, <2>1
      <4>2. cacheOrd[i + 1] \in Cached /\ cacheOrd[i + 1] # cacheOrd[1]
        BY <4>1, <2>1, OrderParts
      <4> QED
        BY <4>1, <4>2, <2>4, <2>5
    <3> QED
      BY <3>1, <3>2
  <2>7. \A g \in Cached' : \E i \in DOMAIN cacheOrd' : cacheOrd'[i] = g
    <3> SUFFICES ASSUME NEW g \in Cached' PROVE \E i \in 1..n : cacheOrd'[i] = g
      BY <2>5
    <3>1. CASE g = h
      BY <3>1, <2>1, <2>5
    <3>2. CASE g # h
      <4>1. PICK i \in 1..n : cacheOrd[i] = g
        BY <3>2, <2>4, <2>1, OrderParts
      <4>2. i # 1
        BY <4>1, <3>2, <2>4
      <4>3. i - 1 \in 1..(n - 1) /\ i - 1 \in 1..n /\ (i - 1) + 1 = i
        BY <4>2, <2>1
      <4> QED
        BY <4>1, <4>3, <2>5
    <3> QED
      BY <3>1, <3>2
  <2>8. \A i, j \in DOMAIN cacheOrd' : cacheOrd'[i] = cacheOrd'[j] => i = j
    <3>1. \A i \in 1..(n - 1) : cacheOrd'[i] # h
      <4> SUFFICES ASSUME NEW i \in 1..(n - 1) PROVE cacheOrd[i + 1] # h
        BY <2>5
      <4>1. i + 1 \in DOMAIN cacheOrd
        BY <2>1
      <4> QED
        BY <4>1, <2>1, OrderParts
    <3>2. ASSUME NEW i \in 1..(n - 1), NEW j \in 1..(n - 1), cacheOrd'[i] = cacheOrd'[j] PROVE i = j
      <4>1. i + 1 \in DOMAIN cacheOrd /\ j + 1 \in DOMAIN cacheOrd /\ cacheOrd[i + 1] = cacheOrd[j + 1]
        BY <3>2, <2>1, <2>5
      <4>2. i + 1 = j + 1
        BY <4>1, OrderParts
      <4> QED
        BY <4>2
    <3>3. \A i \in 1..n : i = n \/ i \in 1..(n - 1)
      BY <2>1
    <3> QED
      BY <3>1, <3>2, <3>3, <2>5
  <2>9. Len(cacheOrd') <= LeafCacheMax
    BY <2>1, <2>5
  <2> QED
    BY <2>6, <2>7, <2>8, <2>9 DEF CacheIsOrdered, Range, IsInjective
<1> QED
  BY <1>1, <1>2, <1>3

LEMMA OrderStep == LeafTypeOK /\ CacheIsOrdered /\ [LeafNext]_leafVars => CacheIsOrdered'
<1> SUFFICES ASSUME LeafTypeOK, CacheIsOrdered, [LeafNext]_leafVars PROVE CacheIsOrdered'
  OBVIOUS
<1>1. ASSUME UNCHANGED <<cache, cacheOrd>> PROVE CacheIsOrdered'
  BY <1>1 DEF CacheIsOrdered, Cached
<1>2. ASSUME NEW c \in Conns, MintSucceeds(c) PROVE CacheIsOrdered'
  <2>1. leafCall[c].host \in Hosts
    BY DEF LeafTypeOK
  <2> QED
    BY <1>2, <2>1, OrderStored DEF MintSucceeds
<1>3. ASSUME NEW h \in Hosts, Expire(h) PROVE CacheIsOrdered'
  <2>1. Cached' = Cached /\ UNCHANGED cacheOrd
    BY <1>3 DEF Expire, Cached, Usable, LeafTypeOK
  <2> QED
    BY <2>1 DEF CacheIsOrdered
<1> QED
  BY <1>1, <1>2, <1>3 DEF LeafNext, LeafStep, LeafForHost, FoundAfterAll, JoinMint, LeadMint,
                         MintFails, Publish, Share, LeafReturns, leafVars

--------------------------------------------------------------------------------
LEMMA LeafInvStep == LeafInv /\ [LeafNext]_leafVars => LeafInv'
BY LeafTypeStep, OrderStep, MintStep, PastStep DEF LeafInv

\* The state of the leaf cache stays what its fields say, and the invariant the
\* other theorems follow from holds of it.
THEOREM LeafCacheInvariant == LeafSpec => []LeafInv
<1> QED
  BY LeafInitInv, LeafInvStep, PTL DEF LeafSpec

\* LeafForHost: ten handshakes to a new host cost one mint, for any number of
\* handshakes and hosts, whatever mints fail and whatever is evicted meanwhile.
THEOREM OneMintAtATime == LeafSpec => []OneMintPerHost
<1>1. LeafInv => OneMintPerHost
  BY DEF LeafInv, MintInv
<1> QED
  BY <1>1, LeafCacheInvariant, PTL

\* storeLeafLocked: for any bound, the eviction order is the cache and within the bound.
THEOREM CacheStaysOrdered == LeafSpec => []CacheIsOrdered
<1>1. LeafInv => CacheIsOrdered
  BY DEF LeafInv
<1> QED
  BY <1>1, LeafCacheInvariant, PTL

\* LeafForHost: no caller gets the error of a mint that had ended when it called.
THEOREM NoErrorInherited == LeafSpec => []NoInheritedFailure
<1>1. LeafInv => NoInheritedFailure
  BY DEF LeafInv, PastInv, NotOfThePast, NoInheritedFailure
<1> QED
  BY <1>1, LeafCacheInvariant, PTL

--------------------------------------------------------------------------------
(* CONNECT and the settings *)

\* Two PUTs under way do not have the same field: what the promise of a PUT needs, and
\* what the server itself does not enforce.
RoutesApart == \A p, q \in Requests : p # q => \A k \in Steps : ~(Wants(p, k) /\ Wants(q, k))

--------------------------------------------------------------------------------
(* Which parts of the state a step can change *)

UnchangedSettings == UNCHANGED <<bypassVars, settingsVars, crossed>>
Adds(c) ==
  /\ AddBypassHost(c, leafCall[c].host)
  /\ UNCHANGED <<settingsVars, crossed>>
Saves(c) ==
  /\ NotifyStep(c) /\ UNCHANGED settingsVars
  /\ crossed' = (crossed \/ (notifier[c].at = "save" /\ PuttingList))
Puts(p) == (PlanSettingsUpdate(p) \/ PutStep(p)) /\ UNCHANGED crossed

\* A step of the proxy leaves list and settings alone, or is one of a callback or of a PUT.
LEMMA StepsOfSettings ==
  ASSUME [Next]_vars
  PROVE  \/ UnchangedSettings
         \/ \E c \in Conns : Adds(c) \/ Saves(c)
         \/ \E p \in Requests : Puts(p)
<1>1. ASSUME NEW c \in Conns, NEW d \in Hosts, Tunnel(c, d) \/ Handshake(c, d) PROVE UnchangedSettings
  BY <1>1 DEF Tunnel, Handshake, UnchangedSettings, settingsVars
<1>2. ASSUME NEW c \in Conns, Minting(c) \/ Accepted(c) PROVE UnchangedSettings
  BY <1>2 DEF Minting, Accepted, Rest, UnchangedSettings, settingsVars
<1>3. ASSUME NEW c \in Conns, NEW r, Failed(c, r) PROVE UnchangedSettings \/ Adds(c)
  BY <1>3 DEF Failed, Rest, AlreadyCovered, UnchangedSettings, Adds, settingsVars
<1>4. ASSUME NEW c \in Conns, Saving(c) PROVE Saves(c)
  BY <1>4 DEF Saving, Saves
<1>5. ASSUME NEW p \in Requests, Updating(p) PROVE Puts(p)
  BY <1>5 DEF Updating, Puts, connVars
<1>6. ASSUME NEW h \in Hosts, Expiring(h) PROVE UnchangedSettings
  BY <1>6 DEF Expiring, Rest, UnchangedSettings, settingsVars
<1>7. CASE UNCHANGED vars
  BY <1>7 DEF vars, connVars, UnchangedSettings
<1> QED
  BY <1>1, <1>2, <1>3, <1>4, <1>5, <1>6, <1>7 DEF Next, Rejects, Unminted

--------------------------------------------------------------------------------
(* The leaf cache inside the proxy *)

\* Every step of the proxy is one of the cache, or none for it.
LEMMA LeafStepsOfProxy == [Next]_vars => [LeafNext]_leafVars
<1> SUFFICES ASSUME [Next]_vars PROVE [LeafNext]_leafVars
  OBVIOUS
<1>1. ASSUME NEW c \in Conns, NEW d \in Hosts, Tunnel(c, d) PROVE UNCHANGED leafVars
  BY <1>1 DEF Tunnel
<1>2. ASSUME NEW c \in Conns, NEW d \in Hosts, Handshake(c, d) PROVE LeafNext
  <2>1. PICK h \in Hosts : LeafForHost(c, h)
    BY <1>2 DEF Handshake, LogicalHosts
  <2> QED
    BY <2>1 DEF LeafNext
<1>3. ASSUME NEW c \in Conns, Minting(c) PROVE LeafNext
  BY <1>3 DEF Minting, LeafNext
<1>4. ASSUME NEW c \in Conns, Accepted(c) PROVE LeafNext
  BY <1>4 DEF Accepted, LeafNext
<1>5. ASSUME NEW c \in Conns, Rejects(c) \/ Unminted(c) PROVE LeafNext
  BY <1>5 DEF Rejects, Unminted, Failed, LeafNext
<1>6. ASSUME NEW c \in Conns, Saving(c) PROVE UNCHANGED leafVars
  BY <1>6 DEF Saving
<1>7. ASSUME NEW p \in Requests, Updating(p) PROVE UNCHANGED leafVars
  BY <1>7 DEF Updating
<1>8. ASSUME NEW h \in Hosts, Expiring(h) PROVE LeafNext
  BY <1>8 DEF Expiring, LeafNext
<1>9. CASE UNCHANGED vars
  BY <1>9 DEF vars
<1> QED
  BY <1>1, <1>2, <1>3, <1>4, <1>5, <1>6, <1>7, <1>8, <1>9 DEF Next

\* handleConnect uses the certificate cache by its operations only: every behaviour
\* of the proxy is one of the cache.
THEOREM ProxyUsesLeafCache == Spec => LeafSpec
<1>1. Init => LeafInit
  BY DEF Init
<1> QED
  BY <1>1, LeafStepsOfProxy, PTL DEF Spec, LeafSpec

\* storeLeafLocked, seen from the proxy: the bound and the order hold there too.
THEOREM ProxyCacheIsOrdered == Spec => []CacheIsOrdered
BY ProxyUsesLeafCache, CacheStaysOrdered, PTL

\* LeafForHost, seen from the proxy: no handshake fails with an error from before it.
THEOREM ProxyInheritsNoFailure == Spec => []NoInheritedFailure
BY ProxyUsesLeafCache, NoErrorInherited, PTL

--------------------------------------------------------------------------------
(* What a PUT has done so far, and how far its undo has come *)

Phases == {"idle", "steps", "half", "undo", "apply"}
PutRecords == [at : Phases, want : [Steps -> Values \cup {Same}], list : Lists \cup {Same},
               previous : [Steps -> Values \cup {Same}], next : 1..Last + 1]

RouteType ==
  /\ saved \in [Steps -> Values] /\ live \in [Steps -> [Sides -> Values]]
  /\ put \in [Requests -> PutRecords]

InForce(k, v) == \A s \in Sides : live[k][s] = v

\* Of the fields of a PUT, the steps before the next one have been taken, the others not.
DoneSoFar(p, k) ==
  Wants(p, k) =>
    /\ k < put[p].next => InForce(k, put[p].want[k])
    /\ ~(k < put[p].next) => InForce(k, saved[k])

Half(p) ==
  /\ put[p].next \in Steps /\ Wants(p, put[p].next)
  /\ live[put[p].next]["sender"] = put[p].want[put[p].next]
  /\ live[put[p].next]["proxy"] = saved[put[p].next]
  /\ \A k \in Steps \ {put[p].next} : DoneSoFar(p, k)

Progress(p) ==
  /\ put[p].at = "idle" => put[p] = NoPut
  /\ put[p].at \in {"steps", "half", "undo"} =>
       \A k \in Steps : Wants(p, k) => put[p].previous[k] = saved[k]
  /\ put[p].at \in {"steps", "undo"} => \A k \in Steps : DoneSoFar(p, k)
  /\ put[p].at = "half" => Half(p)
  /\ put[p].at = "apply" => \A k \in Steps : Wants(p, k) => InForce(k, saved[k])

\* A route is the business of the PUT that has it in its body; a route that is in none
\* is in force as saved.
RouteInv ==
  /\ RouteType
  /\ \A p \in Requests : Progress(p)
  /\ \A k \in Steps : (\A p \in Requests : ~Wants(p, k)) => InForce(k, saved[k])

\* What the assumptions say of routes, values and lists.
LEMMA RoutesFacts ==
  /\ Steps = 1..Last /\ Last \in Nat /\ Same \notin Values /\ Direct \in Values
  /\ Lists \subseteq SUBSET Hosts /\ Same \notin Lists
BY SettingsAssumption DEF SettingsAssumption, Steps, Last

LEMMA NoPutFacts == NoPut \in PutRecords /\ NoPut.at = "idle" /\ \A k \in Steps : NoPut.want[k] = Same
BY RoutesFacts DEF NoPut, NoWant, PutRecords, Phases

LEMMA RouteInit == Init => RouteInv
<1> SUFFICES ASSUME Init PROVE RouteInv
  OBVIOUS
<1>1. RouteType
  BY NoPutFacts, RoutesFacts DEF Init, SettingsInit, RouteType, Sides
<1>2. \A k \in Steps : InForce(k, saved[k])
  BY DEF Init, SettingsInit, InForce
<1>3. \A p \in Requests : Progress(p)
  BY NoPutFacts DEF Init, SettingsInit, Progress
<1> QED
  BY <1>1, <1>2, <1>3 DEF RouteInv

\* A step that leaves routes and requests alone.
LEMMA RouteKept == RouteInv /\ UNCHANGED <<saved, live, put>> => RouteInv'
BY DEF RouteInv, RouteType, Progress, DoneSoFar, Half, InForce, Wants

\* When a PUT changes its own routes only, and nobody else has them, it is enough to
\* look at that PUT, and at the routes it lets go of.
LEMMA OneProgress ==
  ASSUME RouteInv, NEW p \in Requests, RouteType', Progress(p)',
         \A q \in Requests \ {p} : put'[q] = put[q],
         \A k \in Steps : Wants(p, k) \/ (live'[k] = live[k] /\ saved'[k] = saved[k]),
         \A k \in Steps : Wants(p, k) => \A q \in Requests \ {p} : ~Wants(q, k),
         \A k \in Steps : Wants(p, k) /\ ~Wants(p, k)' => InForce(k, saved[k])'
  PROVE  RouteInv'
<1>1. ASSUME NEW q \in Requests \ {p} PROVE Progress(q)'
  <2>1. put'[q] = put[q] /\ Progress(q)
    BY DEF RouteInv
  <2>2. \A k \in Steps : Wants(q, k) => live'[k] = live[k] /\ saved'[k] = saved[k]
    OBVIOUS
  <2>3. \A k \in Steps : Wants(q, k)' <=> Wants(q, k)
    BY <2>1 DEF Wants
  <2>4. \A k \in Steps : DoneSoFar(q, k) => DoneSoFar(q, k)'
    BY <2>1, <2>2, <2>3 DEF DoneSoFar, InForce
  <2>5. Half(q) => Half(q)'
    BY <2>1, <2>2, <2>3, <2>4 DEF Half
  <2>6. \A k \in Steps : Wants(q, k) /\ InForce(k, saved[k]) => InForce(k, saved[k])'
    BY <2>2 DEF InForce
  <2> QED
    BY <2>1, <2>2, <2>3, <2>4, <2>5, <2>6 DEF Progress
<1>2. ASSUME NEW k \in Steps, \A q \in Requests : ~Wants(q, k)' PROVE InForce(k, saved[k])'
  <2>1. CASE Wants(p, k)
    BY <1>2, <2>1
  <2>2. CASE ~Wants(p, k)
    <3>1. \A q \in Requests : ~Wants(q, k)
      BY <1>2, <2>2 DEF Wants
    <3> QED
      BY <2>2, <3>1 DEF RouteInv, InForce
  <2> QED
    BY <2>1, <2>2
<1> QED
  BY <1>1, <1>2 DEF RouteInv

\* A request whose next step changes keeps the rest of its record.
LEMMA NextSet ==
  ASSUME NEW r \in PutRecords, NEW n \in 1..Last + 1, NEW q, q = [r EXCEPT !.next = n]
  PROVE  q \in PutRecords /\ q.at = r.at /\ q.next = n /\ q.want = r.want /\ q.previous = r.previous
BY DEF PutRecords

\* One lemma per step of a PUT: what it writes, and how far it is then.
LEMMA PutSteps ==
  ASSUME RoutesApart, RouteInv, NEW p \in Requests, PutStep(p)
  PROVE  RouteInv'
<1> USE RoutesFacts, NoPutFacts
<1>t. /\ saved \in [Steps -> Values] /\ live \in [Steps -> [Sides -> Values]]
      /\ put \in [Requests -> PutRecords]
  BY DEF RouteInv, RouteType
<1>p. Progress(p)
  BY DEF RouteInv
<1>r. put[p] \in PutRecords
  BY <1>t
<1>s. Sides = {"sender", "proxy"}
  BY DEF Sides
<1>a. \A k \in Steps : Wants(p, k) => \A q \in Requests \ {p} : ~Wants(q, k)
  BY DEF RoutesApart
<1>w. ASSUME RouteType', Progress(p)', \A q \in Requests \ {p} : put'[q] = put[q],
             \A k \in Steps : Wants(p, k) \/ (live'[k] = live[k] /\ saved'[k] = saved[k]),
             put'[p].want = put[p].want
      PROVE  RouteInv'
  <2>1. \A k \in Steps : Wants(p, k)' <=> Wants(p, k)
    BY <1>w DEF Wants
  <2> QED
    BY <1>a, <1>w, <2>1, OneProgress
<1>n. ASSUME put' = [put EXCEPT ![p] = NoPut], UNCHANGED <<saved, live>>,
             \A k \in Steps : Wants(p, k) => InForce(k, saved[k])
      PROVE  RouteInv'
  <2>1. put'[p] = NoPut /\ \A q \in Requests \ {p} : put'[q] = put[q]
    BY <1>n, <1>t
  <2>2. RouteType'
    BY <1>n, <1>t DEF RouteType
  <2>3. Progress(p)'
    BY <2>1 DEF Progress
  <2>4. \A k \in Steps : Wants(p, k) => InForce(k, saved[k])'
    BY <1>n DEF InForce
  <2>5. \A k \in Steps : Wants(p, k) \/ (live'[k] = live[k] /\ saved'[k] = saved[k])
    BY <1>n
  <2> QED
    BY <1>a, <2>1, <2>2, <2>3, <2>4, <2>5, OneProgress
<1>k. ASSUME put[p].at \in {"steps", "half", "undo"}, put'[p].want = put[p].want,
             put'[p].previous = put[p].previous, UNCHANGED saved
      PROVE  \A k \in Steps : Wants(p, k)' => put'[p].previous[k] = saved'[k]
  <2>1. \A k \in Steps : Wants(p, k) => put[p].previous[k] = saved[k]
    BY <1>k, <1>p DEF Progress
  <2> QED
    BY <2>1, <1>k DEF Wants
<1>g. ASSUME put[p].at \in {"steps", "half", "undo"}, put'[p].want = put[p].want,
             put'[p].previous = put[p].previous, UNCHANGED saved,
             put'[p].at \in {"steps", "undo"}, \A k \in Steps : DoneSoFar(p, k)'
      PROVE  Progress(p)'
  BY <1>g, <1>k DEF Progress
<1>d. ASSUME put[p].at \in {"steps", "undo"}, put'[p].want = put[p].want,
             put'[p].next = put[p].next, UNCHANGED <<saved, live>>
      PROVE  \A k \in Steps : DoneSoFar(p, k)'
  <2>1. \A k \in Steps : DoneSoFar(p, k)
    BY <1>d, <1>p DEF Progress
  <2> QED
    BY <2>1, <1>d DEF DoneSoFar, InForce, Wants
<1>1. CASE PassOver(p)
  <2>1. /\ put' = [put EXCEPT ![p].next = @ + 1] /\ UNCHANGED <<saved, live>>
        /\ put[p].at = "steps" /\ put[p].next \in Steps /\ ~Wants(p, put[p].next)
    BY <1>1 DEF PassOver
  <2>2. put'[p] = [put[p] EXCEPT !.next = put[p].next + 1]
    BY <2>1, <1>t
  <2>3. put'[p] \in PutRecords /\ put'[p].at = "steps" /\ put'[p].next = put[p].next + 1
        /\ put'[p].want = put[p].want /\ put'[p].previous = put[p].previous
    <3>1. put[p].next + 1 \in 1..Last + 1
      BY <2>1
    <3>2. put'[p].at = put[p].at /\ put'[p] \in PutRecords /\ put'[p].next = put[p].next + 1
          /\ put'[p].want = put[p].want /\ put'[p].previous = put[p].previous
      BY ONLY <3>1, <2>2, <1>r, NextSet
    <3> QED
      BY <3>2, <2>1
  <2>4. RouteType'
    BY <2>1, <2>3, <1>t DEF RouteType
  <2>5. ASSUME NEW k \in Steps PROVE DoneSoFar(p, k)'
    <3>1. DoneSoFar(p, k)
      BY <2>1, <1>p DEF Progress
    <3>2. k < put'[p].next /\ Wants(p, k) <=> k < put[p].next /\ Wants(p, k)
      BY <2>1, <2>3, <1>r DEF PutRecords
    <3> QED
      BY <3>1, <3>2, <2>1, <2>3 DEF DoneSoFar, Wants, InForce
  <2>6. Progress(p)'
    BY <2>1, <2>3, <2>5, <1>g
  <2>o. \A q \in Requests \ {p} : put'[q] = put[q]
    BY <2>1, <1>t
  <2>c. \A j \in Steps : Wants(p, j) \/ (live'[j] = live[j] /\ saved'[j] = saved[j])
    BY <2>1
  <2> QED
    BY <2>3, <2>4, <2>6, <2>o, <2>c, <1>w
<1>2. CASE SenderTakes(p)
  <2> DEFINE k == put[p].next
  <2>1. /\ live' = [live EXCEPT ![k]["sender"] = put[p].want[k]]
        /\ put' = [put EXCEPT ![p].at = "half"] /\ UNCHANGED saved
        /\ put[p].at = "steps" /\ k \in Steps /\ Wants(p, k)
    BY <1>2 DEF SenderTakes, Turn
  <2>2. put'[p] = [put[p] EXCEPT !.at = "half"]
    BY <2>1, <1>t
  <2>3. put'[p] \in PutRecords /\ put'[p].at = "half" /\ put'[p].next = put[p].next
        /\ put'[p].want = put[p].want /\ put'[p].previous = put[p].previous
    BY <2>2, <1>r DEF PutRecords, Phases
  <2>4. put[p].want[k] \in Values
    BY <2>1, <1>r DEF PutRecords, Wants
  <2>5. /\ live' \in [Steps -> [Sides -> Values]]
        /\ live'[k]["sender"] = put[p].want[k] /\ live'[k]["proxy"] = live[k]["proxy"]
        /\ \A j \in Steps \ {k} : live'[j] = live[j]
    BY <2>1, <2>4, <1>t, <1>s
  <2>6. RouteType'
    BY <2>1, <2>3, <2>5, <1>t DEF RouteType
  <2>7. live[k]["proxy"] = saved[k]
    BY <2>1, <1>p, <1>s, <1>r DEF Progress, DoneSoFar, InForce, PutRecords
  <2>8. ASSUME NEW j \in Steps \ {k} PROVE DoneSoFar(p, j)'
    BY <2>1, <2>3, <2>5, <1>p DEF Progress, DoneSoFar, InForce, Wants
  <2>9. Half(p)'
    BY <2>1, <2>3, <2>5, <2>7, <2>8 DEF Half, Wants
  <2>10. Progress(p)'
    BY <2>1, <2>3, <2>9, <1>k DEF Progress
  <2>o. \A q \in Requests \ {p} : put'[q] = put[q]
    BY <2>1, <1>t
  <2>c. \A j \in Steps : Wants(p, j) \/ (live'[j] = live[j] /\ saved'[j] = saved[j])
    BY <2>1, <2>5
  <2> QED
    BY <2>3, <2>6, <2>10, <2>o, <2>c, <1>w
<1>3. CASE ProxyTakes(p)
  <2> DEFINE k == put[p].next
  <2>1. /\ live' = [live EXCEPT ![k]["proxy"] = put[p].want[k]]
        /\ put' = [put EXCEPT ![p].at = "steps", ![p].next = k + 1] /\ UNCHANGED saved
        /\ put[p].at = "half"
    BY <1>3 DEF ProxyTakes
  <2>2. Half(p) /\ k \in Steps /\ Wants(p, k)
    BY <2>1, <1>p DEF Progress, Half
  <2>3. put'[p] = [put[p] EXCEPT !.at = "steps", !.next = k + 1]
    BY <2>1, <1>t
  <2>4. put'[p] \in PutRecords /\ put'[p].at = "steps" /\ put'[p].next = k + 1
        /\ put'[p].want = put[p].want /\ put'[p].previous = put[p].previous
    <3>1. k + 1 \in 1..Last + 1
      BY <2>2
    <3> QED
      BY <3>1, <2>2, <2>3, <1>r DEF PutRecords, Phases
  <2>5. put[p].want[k] \in Values
    BY <2>2, <1>r DEF PutRecords, Wants
  <2>6. /\ live' \in [Steps -> [Sides -> Values]]
        /\ live'[k]["proxy"] = put[p].want[k] /\ live'[k]["sender"] = live[k]["sender"]
        /\ \A j \in Steps \ {k} : live'[j] = live[j]
    BY <2>1, <2>2, <2>5, <1>t, <1>s
  <2>7. RouteType'
    BY <2>1, <2>4, <2>6, <1>t DEF RouteType
  <2>8. \A s \in Sides : live'[k][s] = put'[p].want[k]
    BY <2>1, <2>2, <2>4, <2>6, <1>s DEF Half
  <2>9. ASSUME NEW j \in Steps PROVE DoneSoFar(p, j)'
    <3>1. CASE j = k
      <4>1. k < put'[p].next /\ put'[p].want[k] # Same
        BY <2>2, <2>4, <1>r DEF Wants, PutRecords
      <4> HIDE DEF k
      <4> QED
        BY <3>1, <4>1, <2>8 DEF DoneSoFar, InForce, Wants
    <3>2. CASE j # k
      <4>1. DoneSoFar(p, j)
        BY <3>2, <2>2 DEF Half
      <4>2. j < put'[p].next <=> j < put[p].next
        BY <3>2, <2>4, <1>r DEF PutRecords
      <4> QED
        BY <3>2, <4>1, <4>2, <2>1, <2>4, <2>6 DEF DoneSoFar, InForce, Wants
    <3> QED
      BY <3>1, <3>2
  <2>10. Progress(p)'
    BY <2>1, <2>4, <2>9, <1>g
  <2>o. \A q \in Requests \ {p} : put'[q] = put[q]
    BY <2>1, <1>t
  <2>c. \A j \in Steps : Wants(p, j) \/ (live'[j] = live[j] /\ saved'[j] = saved[j])
    BY <2>1, <2>2, <2>6
  <2> QED
    BY <2>4, <2>7, <2>10, <2>o, <2>c, <1>w
<1>4. CASE SenderRefuses(p)
  <2>1. put' = [put EXCEPT ![p].at = "undo"] /\ UNCHANGED <<saved, live>> /\ put[p].at = "steps"
    BY <1>4 DEF SenderRefuses, Turn
  <2>2. put'[p] \in PutRecords /\ put'[p] = [put[p] EXCEPT !.at = "undo"]
    BY <2>1, <1>t, <1>r DEF PutRecords, Phases
  <2>3. put'[p].at = "undo" /\ put'[p].next = put[p].next
        /\ put'[p].want = put[p].want /\ put'[p].previous = put[p].previous
    BY <2>2, <1>r DEF PutRecords
  <2>4. RouteType'
    BY <2>1, <2>2, <1>t DEF RouteType
  <2>5. Progress(p)'
    BY <2>1, <2>3, <1>d, <1>g
  <2>o. \A q \in Requests \ {p} : put'[q] = put[q]
    BY <2>1, <1>t
  <2>c. \A j \in Steps : Wants(p, j) \/ (live'[j] = live[j] /\ saved'[j] = saved[j])
    BY <2>1
  <2> QED
    BY <2>3, <2>4, <2>5, <2>o, <2>c, <1>w
<1>5. CASE ProxyRefuses(p)
  <2> DEFINE k == put[p].next
  <2>1. /\ live' = [live EXCEPT ![k]["sender"] = put[p].previous[k]]
        /\ put' = [put EXCEPT ![p].at = "undo"] /\ UNCHANGED saved
        /\ put[p].at = "half"
    BY <1>5 DEF ProxyRefuses
  <2>2. Half(p) /\ k \in Steps /\ Wants(p, k) /\ put[p].previous[k] = saved[k]
    BY <2>1, <1>p DEF Progress, Half
  <2>3. put'[p] \in PutRecords /\ put'[p] = [put[p] EXCEPT !.at = "undo"]
    BY <2>1, <1>t, <1>r DEF PutRecords, Phases
  <2>4. put'[p].at = "undo" /\ put'[p].next = k
        /\ put'[p].want = put[p].want /\ put'[p].previous = put[p].previous
    BY <2>3, <1>r DEF PutRecords
  <2>5. /\ live' \in [Steps -> [Sides -> Values]]
        /\ live'[k]["sender"] = saved[k] /\ live'[k]["proxy"] = saved[k]
        /\ \A j \in Steps \ {k} : live'[j] = live[j]
    BY <2>1, <2>2, <1>t, <1>s DEF Half
  <2>6. RouteType'
    BY <2>1, <2>3, <2>5, <1>t DEF RouteType
  <2>7. ASSUME NEW j \in Steps PROVE DoneSoFar(p, j)'
    <3>1. CASE j = k
      BY <3>1, <2>1, <2>2, <2>4, <2>5, <1>s, <1>r DEF DoneSoFar, InForce, Wants, PutRecords
    <3>2. CASE j # k
      BY <3>2, <2>1, <2>2, <2>4, <2>5 DEF Half, DoneSoFar, InForce, Wants
    <3> QED
      BY <3>1, <3>2
  <2>8. Progress(p)'
    BY <2>1, <2>4, <2>7, <1>g
  <2>o. \A q \in Requests \ {p} : put'[q] = put[q]
    BY <2>1, <1>t
  <2>c. \A j \in Steps : Wants(p, j) \/ (live'[j] = live[j] /\ saved'[j] = saved[j])
    BY <2>1, <2>2, <2>5
  <2> QED
    BY <2>4, <2>6, <2>8, <2>o, <2>c, <1>w
<1>6. CASE Undo(p)
  <2> DEFINE k == put[p].next - 1
  <2>1. /\ put[p].at = "undo" /\ k \in Steps /\ UNCHANGED saved
        /\ put' = [put EXCEPT ![p].next = k]
        /\ Wants(p, k) => live' = [live EXCEPT ![k] = [s \in Sides |-> put[p].previous[k]]]
        /\ ~Wants(p, k) => live' = live
    BY <1>6 DEF Undo
  <2>2. \A j \in Steps : DoneSoFar(p, j) /\ (Wants(p, j) => put[p].previous[j] = saved[j])
    BY <2>1, <1>p DEF Progress
  <2>3. put'[p] = [put[p] EXCEPT !.next = k]
    BY <2>1, <1>t
  <2>4. put'[p] \in PutRecords /\ put'[p].at = "undo" /\ put'[p].next = k
        /\ put'[p].want = put[p].want /\ put'[p].previous = put[p].previous
    <3>1. k \in 1..Last + 1
      BY <2>1
    <3> HIDE DEF k
    <3>2. put'[p].at = put[p].at /\ put'[p] \in PutRecords /\ put'[p].next = k
          /\ put'[p].want = put[p].want /\ put'[p].previous = put[p].previous
      BY ONLY <3>1, <2>3, <1>r, NextSet
    <3> QED
      BY <3>2, <2>1
  <2>5. Wants(p, k) => put[p].previous[k] = saved[k] /\ saved[k] \in Values
    BY <2>1, <2>2, <1>t
  <2>6. /\ live' \in [Steps -> [Sides -> Values]]
        /\ Wants(p, k) => \A s \in Sides : live'[k][s] = saved[k]
        /\ ~Wants(p, k) => live'[k] = live[k]
        /\ \A j \in Steps \ {k} : live'[j] = live[j]
    <3> HIDE DEF k
    <3>1. CASE Wants(p, k)
      <4>1. live' = [live EXCEPT ![k] = [s \in Sides |-> saved[k]]]
        BY <3>1, <2>1, <2>5
      <4> QED
        BY <3>1, <4>1, <2>1, <2>5, <1>t
    <3>2. CASE ~Wants(p, k)
      BY <3>2, <2>1, <1>t
    <3> QED
      BY <3>1, <3>2
  <2>7. RouteType'
    BY <2>1, <2>4, <2>6, <1>t DEF RouteType
  <2>8. ASSUME NEW j \in Steps PROVE DoneSoFar(p, j)'
    <3>1. CASE j = k
      BY <3>1, <2>1, <2>4, <2>6, <1>r DEF DoneSoFar, InForce, Wants, PutRecords
    <3>2. CASE j # k
      <4>1. DoneSoFar(p, j)
        BY <2>2
      <4>2. j < put'[p].next <=> j < put[p].next
        BY <3>2, <2>4, <1>r DEF PutRecords
      <4> QED
        BY <3>2, <4>1, <4>2, <2>1, <2>4, <2>6 DEF DoneSoFar, InForce, Wants
    <3> QED
      BY <3>1, <3>2
  <2>9. Progress(p)'
    BY <2>1, <2>4, <2>8, <1>g
  <2>o. \A q \in Requests \ {p} : put'[q] = put[q]
    BY <2>1, <1>t
  <2>c. \A j \in Steps : Wants(p, j) \/ (live'[j] = live[j] /\ saved'[j] = saved[j])
    BY <2>1, <2>6
  <2> QED
    BY <2>4, <2>7, <2>9, <2>o, <2>c, <1>w
<1>7. CASE Rejected(p)
  <2>1. /\ put[p].at = "undo" /\ put[p].next = 1
        /\ put' = [put EXCEPT ![p] = NoPut] /\ UNCHANGED <<saved, live>>
    BY <1>7 DEF Rejected
  <2>2. \A k \in Steps : Wants(p, k) => InForce(k, saved[k])
    BY <2>1, <1>p DEF Progress, DoneSoFar
  <2> QED
    BY <2>1, <2>2, <1>n
<1>8. CASE SaveSettings(p)
  <2>1. /\ put[p].at = "steps" /\ put[p].next = Last + 1
        /\ saved' = [k \in Steps |-> IF Wants(p, k) THEN put[p].want[k] ELSE saved[k]]
        /\ put' = [put EXCEPT ![p].at = "apply"] /\ UNCHANGED live
    BY <1>8 DEF SaveSettings
  <2>2. put'[p] \in PutRecords /\ put'[p] = [put[p] EXCEPT !.at = "apply"]
    BY <2>1, <1>t, <1>r DEF PutRecords, Phases
  <2>3. put'[p].at = "apply" /\ put'[p].want = put[p].want
    BY <2>2, <1>r DEF PutRecords
  <2>4. ASSUME NEW k \in Steps PROVE saved'[k] \in Values /\ (Wants(p, k) => InForce(k, saved'[k]))
    <3>1. DoneSoFar(p, k) /\ k < put[p].next
      BY <2>1, <1>p, <1>r DEF Progress, PutRecords
    <3>2. CASE Wants(p, k)
      BY <3>1, <3>2, <2>1, <1>r DEF DoneSoFar, Wants, PutRecords
    <3>3. CASE ~Wants(p, k)
      BY <3>3, <2>1, <1>t
    <3> QED
      BY <3>2, <3>3
  <2>5. saved' \in [Steps -> Values]
    BY <2>1, <2>4
  <2>6. RouteType'
    BY <2>1, <2>2, <2>5, <1>t DEF RouteType
  <2>7. \A k \in Steps : Wants(p, k)' => InForce(k, saved[k])'
    BY <2>1, <2>3, <2>4 DEF InForce, Wants
  <2>8. Progress(p)'
    BY <2>3, <2>7 DEF Progress
  <2>o. \A q \in Requests \ {p} : put'[q] = put[q]
    BY <2>1, <1>t
  <2>c. \A j \in Steps : Wants(p, j) \/ (live'[j] = live[j] /\ saved'[j] = saved[j])
    BY <2>1
  <2> QED
    BY <2>3, <2>6, <2>8, <2>o, <2>c, <1>w
<1>9. CASE SaveSettingsFails(p)
  <2>1. put' = [put EXCEPT ![p].at = "undo"] /\ UNCHANGED <<saved, live>> /\ put[p].at = "steps"
    BY <1>9 DEF SaveSettingsFails
  <2>2. put'[p] \in PutRecords /\ put'[p] = [put[p] EXCEPT !.at = "undo"]
    BY <2>1, <1>t, <1>r DEF PutRecords, Phases
  <2>3. put'[p].at = "undo" /\ put'[p].next = put[p].next
        /\ put'[p].want = put[p].want /\ put'[p].previous = put[p].previous
    BY <2>2, <1>r DEF PutRecords
  <2>4. RouteType'
    BY <2>1, <2>2, <1>t DEF RouteType
  <2>5. Progress(p)'
    BY <2>1, <2>3, <1>d, <1>g
  <2>o. \A q \in Requests \ {p} : put'[q] = put[q]
    BY <2>1, <1>t
  <2>c. \A j \in Steps : Wants(p, j) \/ (live'[j] = live[j] /\ saved'[j] = saved[j])
    BY <2>1
  <2> QED
    BY <2>3, <2>4, <2>5, <2>o, <2>c, <1>w
<1>10. CASE ApplySettings(p)
  <2>1. /\ put[p].at = "apply"
        /\ put' = [put EXCEPT ![p] = NoPut] /\ UNCHANGED <<saved, live>>
    BY <1>10 DEF ApplySettings
  <2>2. \A k \in Steps : Wants(p, k) => InForce(k, saved[k])
    BY <2>1, <1>p DEF Progress
  <2> QED
    BY <2>1, <2>2, <1>n
<1> QED
  BY <1>1, <1>2, <1>3, <1>4, <1>5, <1>6, <1>7, <1>8, <1>9, <1>10 DEF PutStep

\* A PUT begins where its routes are in force as saved: nobody else has them.
LEMMA PutPlanned ==
  ASSUME RouteInv, NEW p \in Requests, PlanSettingsUpdate(p), RoutesApart'
  PROVE  RouteInv'
<1> USE RoutesFacts, NoPutFacts
<1>t. /\ saved \in [Steps -> Values] /\ live \in [Steps -> [Sides -> Values]]
      /\ put \in [Requests -> PutRecords]
  BY DEF RouteInv, RouteType
<1>1. PICK want \in [Steps -> Values \cup {Same}], list \in Lists \cup {Same} :
        put' = [put EXCEPT ![p] = [at |-> "steps", want |-> want, list |-> list,
                                   previous |-> saved, next |-> 1]]
  BY DEF PlanSettingsUpdate
<1>2. put[p] = NoPut /\ UNCHANGED <<saved, live>>
  BY DEF PlanSettingsUpdate
<1>3. /\ put'[p] = [at |-> "steps", want |-> want, list |-> list, previous |-> saved, next |-> 1]
      /\ \A q \in Requests \ {p} : put'[q] = put[q]
  BY <1>1, <1>t
<1>4. put'[p] \in PutRecords /\ put'[p].at = "steps" /\ put'[p].previous = saved /\ put'[p].next = 1
  BY <1>3, <1>t DEF PutRecords, Phases
<1>5. RouteType'
  BY <1>1, <1>2, <1>4, <1>t DEF RouteType
<1>6. \A k \in Steps : ~Wants(p, k)
  BY <1>2 DEF Wants
<1>7. ASSUME NEW k \in Steps PROVE DoneSoFar(p, k)'
  <2>1. SUFFICES ASSUME Wants(p, k)' PROVE InForce(k, saved[k])'
    BY <1>4 DEF DoneSoFar, Wants
  <2>2. \A q \in Requests : ~Wants(q, k)
    BY <2>1, <1>3, <1>6 DEF RoutesApart, Wants
  <2> QED
    BY <1>2, <2>2 DEF RouteInv, InForce
<1>8. Progress(p)'
  BY <1>2, <1>4, <1>7 DEF Progress
<1> QED
  BY <1>2, <1>3, <1>5, <1>6, <1>8, OneProgress

LEMMA RouteStep ==
  ASSUME RouteInv, [Next]_vars, RoutesApart, RoutesApart'
  PROVE  RouteInv'
<1>1. CASE UnchangedSettings
  BY <1>1, RouteKept DEF UnchangedSettings, settingsVars
<1>2. ASSUME NEW c \in Conns, Adds(c) \/ Saves(c) PROVE RouteInv'
  BY <1>2, RouteKept DEF Adds, Saves, settingsVars
<1>3. ASSUME NEW p \in Requests, Puts(p) PROVE RouteInv'
  BY <1>3, PutSteps, PutPlanned DEF Puts
<1> QED
  BY <1>1, <1>2, <1>3, StepsOfSettings

\* commitSettingsUpdate: for any number of PUTs at once, as long as no two under way
\* have the same field, for any number of steps and whichever of them fails, what is
\* saved is in force in the sender and in the proxy once the requests are over.
THEOREM SettingsNeverDiverge == Spec /\ []RoutesApart => []StoreAndLiveAgree
<1>1. RouteInv /\ [Next]_vars /\ RoutesApart /\ RoutesApart' => RouteInv'
  BY RouteStep
<1>2. RouteInv => StoreAndLiveAgree
  <2>1. Quiet => \A p \in Requests, k \in Steps : ~Wants(p, k)
    BY NoPutFacts DEF Quiet, Wants
  <2> QED
    BY <2>1 DEF RouteInv, StoreAndLiveAgree, InForce
<1> QED
  BY RouteInit, <1>1, <1>2, PTL DEF Spec

--------------------------------------------------------------------------------
(* The bypass list and its saved copy *)

\* The callback of c still has a list to save, or will look at the list again.
Busy(c) ==
  \/ notifier[c].at \in {"version", "list", "save"}
  \/ notifier[c].at = "check" /\ notifier[c].version # bypassVersion

NotifierType ==
  /\ bypassVersion \in Nat
  /\ notifier \in [Conns -> [at : {"rest", "version", "list", "save", "check"},
                             version : Nat, list : SUBSET Hosts]]
  /\ bypass \in SUBSET Hosts

\* What a callback is about to save is the list in force, unless the version tells.
Current(c) ==
  /\ notifier[c].version <= bypassVersion
  /\ notifier[c].at = "save" /\ notifier[c].version = bypassVersion => notifier[c].list = bypass

Pending(p) == put[p].at = "apply" /\ put[p].list # Same

\* Two PUTs are not both between the transaction that saved their list and the setter
\* that puts it in force; nothing in the server keeps them apart.
ListsApart == \A p, q \in Requests : p # q => ~(Pending(p) /\ Pending(q))

ListInv ==
  /\ NotifierType
  /\ \A c \in Conns : Current(c)
  /\ ~crossed => \A p \in Requests : Pending(p) => savedBypass = put[p].list
  /\ ~crossed /\ ~unsaved => savedBypass = bypass \/ PuttingList \/ \E c \in Conns : Busy(c)

LEMMA ListInit == Init => ListInv
<1> SUFFICES ASSUME Init PROVE ListInv
  OBVIOUS
<1>1. NotifierType
  BY DEF Init, SettingsInit, BypassInit, NotifierType, Resting
<1>2. \A c \in Conns : Current(c)
  BY DEF Init, SettingsInit, BypassInit, Current, Resting
<1>3. \A p \in Requests : ~Pending(p)
  BY DEF Init, SettingsInit, NoPut, Pending
<1>4. savedBypass = bypass
  BY DEF Init, SettingsInit, BypassInit
<1> QED
  BY <1>1, <1>2, <1>3, <1>4 DEF ListInv

\* A step that leaves the list, its saved copy and the phases of PUTs alone.
LEMMA ListKept ==
  ASSUME ListInv, UNCHANGED bypassVars, UNCHANGED crossed,
         \A p \in Requests : (Pending(p)' <=> Pending(p)) /\ (Pending(p) => put'[p].list = put[p].list)
  PROVE  ListInv'
<1>1. PuttingList' <=> PuttingList
  BY DEF PuttingList, Pending
<1> QED
  BY <1>1 DEF ListInv, NotifierType, Current, Busy, bypassVars

\* The list in force is replaced, and whoever saves an older one will see it.
LEMMA ListReplaced ==
  ASSUME ListInv, NEW list \in SUBSET Hosts, SetTLSBypassHosts(list), UNCHANGED notifier
  PROVE  NotifierType' /\ \A c \in Conns : Current(c)'
<1>1. ASSUME NEW c \in Conns PROVE Current(c)'
  <2>1. notifier[c].version \in Nat /\ notifier[c].version <= bypassVersion /\ bypassVersion \in Nat
    BY DEF ListInv, NotifierType, Current
  <2>2. bypassVersion' = bypassVersion + 1 /\ notifier' = notifier
    BY DEF SetTLSBypassHosts
  <2> QED
    BY <2>1, <2>2 DEF Current
<1> QED
  BY <1>1 DEF ListInv, NotifierType, SetTLSBypassHosts

NotifierRecords == [at : {"rest", "version", "list", "save", "check"}, version : Nat, list : SUBSET Hosts]

\* addBypassHost: the list gets a host, and its callback is busy from then on.
LEMMA AddsStep == ASSUME ListInv, NEW c \in Conns, leafCall[c].host \in Hosts, Adds(c) PROVE ListInv'
<1> DEFINE h == leafCall[c].host
           r == [notifier[c] EXCEPT !.at = "version"]
<1>1. /\ bypass' = bypass \cup {h} /\ bypassVersion' = bypassVersion + 1
      /\ notifier[c] = Resting /\ notifier' = [notifier EXCEPT ![c] = r]
      /\ UNCHANGED <<savedBypass, unsaved, crossed, put>>
  BY DEF Adds, AddBypassHost, SetTLSBypassHosts, settingsVars
<1>2. r \in NotifierRecords /\ r.at = "version" /\ r.version = 0
  BY <1>1 DEF Resting, NotifierRecords
<1> HIDE DEF r
<1>3. /\ notifier' \in [Conns -> NotifierRecords] /\ notifier'[c] = r
      /\ \A d \in Conns \ {c} : notifier'[d] = notifier[d]
  BY <1>1, <1>2 DEF ListInv, NotifierType, NotifierRecords
<1>4. bypassVersion \in Nat /\ \A d \in Conns : notifier[d].version \in Nat
  BY DEF ListInv, NotifierType
<1>5. NotifierType'
  BY <1>1, <1>3, <1>4 DEF NotifierType, NotifierRecords, ListInv
<1>6. ASSUME NEW d \in Conns PROVE Current(d)'
  <2>1. notifier[d].version <= bypassVersion
    BY DEF ListInv, Current
  <2>2. CASE d = c
    BY <2>2, <1>1, <1>2, <1>3, <1>4 DEF Current
  <2>3. CASE d # c
    BY <2>1, <2>3, <1>1, <1>3, <1>4 DEF Current
  <2> QED
    BY <2>2, <2>3
<1>7. Busy(c)'
  BY <1>2, <1>3 DEF Busy
<1>8. \A p \in Requests : Pending(p)' <=> Pending(p)
  BY <1>1 DEF Pending
<1> QED
  BY <1>1, <1>5, <1>6, <1>7, <1>8 DEF ListInv

\* notifyBypassAdded: what is saved is the list in force, or the version tells.
LEMMA SavesStep == ASSUME ListInv, NEW c \in Conns, Saves(c) PROVE ListInv'
<1>t. notifier[c] \in NotifierRecords /\ notifier \in [Conns -> NotifierRecords] /\ bypassVersion \in Nat
  BY DEF ListInv, NotifierType, NotifierRecords
<1>p. UNCHANGED put /\ (crossed => crossed')
      /\ (notifier[c].at = "save" /\ PuttingList => crossed')
  BY Zenon DEF Saves, settingsVars
<1>q. \A p \in Requests : Pending(p)' <=> Pending(p)
  BY <1>p DEF Pending
<1>l. PuttingList' <=> PuttingList
  BY <1>p DEF PuttingList
<1>b. PuttingList <=> \E p \in Requests : Pending(p)
  BY DEF PuttingList, Pending
<1>w. ASSUME NEW r \in NotifierRecords, notifier' = [notifier EXCEPT ![c] = r],
             UNCHANGED <<bypass, bypassVersion>>, r.version <= bypassVersion,
             r.at = "save" /\ r.version = bypassVersion => r.list = bypass
      PROVE  /\ NotifierType' /\ \A d \in Conns : Current(d)'
             /\ notifier'[c] = r /\ \A d \in Conns \ {c} : Busy(d)' <=> Busy(d)
  <2>1. notifier' \in [Conns -> NotifierRecords] /\ notifier'[c] = r
        /\ \A d \in Conns \ {c} : notifier'[d] = notifier[d]
    BY <1>w, <1>t
  <2>2. \A d \in Conns : Current(d)'
    BY <2>1, <1>w DEF ListInv, Current
  <2> QED
    BY <2>1, <2>2, <1>w DEF ListInv, NotifierType, NotifierRecords, Busy
<1>1. CASE LoadVersion(c)
  <2> DEFINE r == [notifier[c] EXCEPT !.at = "list", !.version = bypassVersion]
  <2>1. r \in NotifierRecords /\ r.at = "list" /\ r.version = bypassVersion
    BY <1>t DEF NotifierRecords
  <2>2. notifier' = [notifier EXCEPT ![c] = r] /\ UNCHANGED <<bypass, bypassVersion, savedBypass, unsaved>>
        /\ notifier[c].at = "version"
    BY <1>1 DEF LoadVersion
  <2> HIDE DEF r
  <2>3. r.version <= bypassVersion
    BY <2>1, <1>t
  <2>4. NotifierType' /\ (\A d \in Conns : Current(d)') /\ notifier'[c] = r
    BY <2>1, <2>2, <2>3, <1>w
  <2>5. Busy(c)'
    BY <2>1, <2>4 DEF Busy
  <2> QED
    BY <2>2, <2>4, <2>5, <1>p, <1>q DEF ListInv
<1>2. CASE LoadList(c)
  <2> DEFINE r == [notifier[c] EXCEPT !.at = "save", !.list = bypass]
  <2>1. r \in NotifierRecords /\ r.at = "save" /\ r.version = notifier[c].version /\ r.list = bypass
    BY <1>t DEF NotifierRecords, ListInv, NotifierType
  <2>2. notifier' = [notifier EXCEPT ![c] = r] /\ UNCHANGED <<bypass, bypassVersion, savedBypass, unsaved>>
        /\ notifier[c].at = "list"
    BY <1>2 DEF LoadList
  <2> HIDE DEF r
  <2>3. r.version <= bypassVersion
    BY <2>1 DEF ListInv, Current
  <2>4. NotifierType' /\ (\A d \in Conns : Current(d)') /\ notifier'[c] = r
    BY <2>1, <2>2, <2>3, <1>w
  <2>5. Busy(c)'
    BY <2>1, <2>4 DEF Busy
  <2> QED
    BY <2>2, <2>4, <2>5, <1>p, <1>q DEF ListInv
<1>3. CASE SaveList(c)
  <2> DEFINE r == [notifier[c] EXCEPT !.at = "check"]
  <2>1. r \in NotifierRecords /\ r.at = "check" /\ r.version = notifier[c].version
    BY <1>t DEF NotifierRecords
  <2>2. /\ notifier' = [notifier EXCEPT ![c] = r] /\ UNCHANGED <<bypass, bypassVersion>>
        /\ notifier[c].at = "save"
        /\ (savedBypass' = notifier[c].list /\ unsaved' = FALSE) \/ (unsaved' = TRUE /\ UNCHANGED savedBypass)
    BY <1>3 DEF SaveList
  <2> HIDE DEF r
  <2>3. r.version <= bypassVersion
    BY <2>1 DEF ListInv, Current
  <2>4. NotifierType' /\ (\A d \in Conns : Current(d)') /\ notifier'[c] = r
    BY <2>1, <2>2, <2>3, <1>w
  <2>5. ~unsaved' => savedBypass' = bypass' \/ Busy(c)'
    BY <2>1, <2>2, <2>4 DEF Busy, ListInv, Current
  <2>6. ~crossed' => \A p \in Requests : ~Pending(p)'
    BY <2>2, <1>p, <1>q, <1>b
  <2> QED
    BY <2>4, <2>5, <2>6 DEF ListInv
<1>4. CASE CheckVersion(c)
  <2>1. UNCHANGED <<bypass, bypassVersion, savedBypass, unsaved>> /\ notifier[c].at = "check"
    BY <1>4 DEF CheckVersion
  <2>2. CASE notifier[c].version = bypassVersion
    <3>1. notifier' = [notifier EXCEPT ![c] = Resting] /\ ~Busy(c)
      BY <1>4, <2>2 DEF CheckVersion, Busy
    <3>2. Resting \in NotifierRecords /\ Resting.version <= bypassVersion /\ Resting.at # "save"
      BY <1>t DEF Resting, NotifierRecords
    <3>3. NotifierType' /\ (\A d \in Conns : Current(d)') /\ \A d \in Conns \ {c} : Busy(d)' <=> Busy(d)
      BY <2>1, <3>1, <3>2, <1>w
    <3> QED
      BY <2>1, <3>1, <3>3, <1>p, <1>q, <1>l DEF ListInv
  <2>3. CASE notifier[c].version # bypassVersion
    <3> DEFINE r == [Resting EXCEPT !.at = "version"]
    <3>1. notifier' = [notifier EXCEPT ![c] = r]
      BY <1>4, <2>3 DEF CheckVersion
    <3>2. r \in NotifierRecords /\ r.version <= bypassVersion /\ r.at = "version"
      BY <1>t DEF Resting, NotifierRecords
    <3> HIDE DEF r
    <3>3. NotifierType' /\ (\A d \in Conns : Current(d)') /\ notifier'[c] = r
      BY <2>1, <3>1, <3>2, <1>w
    <3>4. Busy(c)'
      BY <3>2, <3>3 DEF Busy
    <3> QED
      BY <2>1, <3>3, <3>4, <1>p, <1>q DEF ListInv
  <2> QED
    BY <2>2, <2>3
<1> QED
  BY <1>1, <1>2, <1>3, <1>4 DEF Saves, NotifyStep

\* What a PUT does to the list: nothing, save its own, or put it in force.
PutListSteps(p) ==
  \/ ~Pending(p) /\ ~Pending(p)' /\ UNCHANGED bypassVars
  \/ /\ ~Pending(p) /\ Pending(p)' /\ savedBypass' = put'[p].list
     /\ UNCHANGED <<bypass, bypassVersion, notifier>>
  \/ /\ Pending(p) /\ ~Pending(p)' /\ put[p].list \in SUBSET Hosts
     /\ SetTLSBypassHosts(put[p].list) /\ UNCHANGED <<savedBypass, unsaved, notifier>>

LEMMA PutLists ==
  ASSUME RouteType, NEW p \in Requests, PlanSettingsUpdate(p) \/ PutStep(p)
  PROVE  PutListSteps(p)
<1>t. put[p] \in PutRecords /\ put \in [Requests -> PutRecords]
  BY DEF RouteType
<1>l. put[p].list \in Lists \cup {Same} /\ Lists \subseteq SUBSET Hosts
  BY <1>t, RoutesFacts DEF PutRecords
<1>0. ASSUME UNCHANGED bypassVars, put[p].at # "apply", put'[p].at # "apply"
      PROVE  PutListSteps(p)
  BY <1>0 DEF PutListSteps, Pending
<1>1. CASE PlanSettingsUpdate(p)
  <2>1. put[p].at = "idle" /\ put'[p].at = "steps" /\ UNCHANGED bypassVars
    BY <1>1, <1>t, NoPutFacts DEF PlanSettingsUpdate
  <2> QED
    BY <2>1, <1>0
<1>2. CASE PassOver(p) \/ Undo(p)
  <2>1. put[p].at # "apply" /\ UNCHANGED bypassVars
    BY <1>2 DEF PassOver, Undo
  <2>2. PICK n : put' = [put EXCEPT ![p].next = n]
    BY <1>2 DEF PassOver, Undo
  <2>3. put'[p].at = put[p].at
    BY <2>2, <1>t DEF PutRecords
  <2> QED
    BY <2>1, <2>3, <1>0
<1>3. CASE SenderTakes(p) \/ SenderRefuses(p) \/ ProxyRefuses(p) \/ SaveSettingsFails(p)
  <2>1. put[p].at # "apply" /\ UNCHANGED bypassVars
    BY <1>3 DEF SenderTakes, SenderRefuses, ProxyRefuses, SaveSettingsFails, Turn
  <2>2. PICK s \in {"half", "undo"} : put' = [put EXCEPT ![p].at = s]
    BY <1>3 DEF SenderTakes, SenderRefuses, ProxyRefuses, SaveSettingsFails
  <2>3. put'[p].at = s
    BY <2>2, <1>t DEF PutRecords
  <2> QED
    BY <2>1, <2>2, <2>3, <1>0
<1>4. CASE ProxyTakes(p)
  <2>1. put[p].at = "half" /\ UNCHANGED bypassVars
    BY <1>4 DEF ProxyTakes
  <2>2. PICK n : put' = [put EXCEPT ![p].at = "steps", ![p].next = n]
    BY <1>4 DEF ProxyTakes
  <2>3. put'[p].at = "steps"
    BY <2>2, <1>t DEF PutRecords
  <2> QED
    BY <2>1, <2>3, <1>0
<1>5. CASE Rejected(p)
  <2>1. put[p].at = "undo" /\ put'[p].at = "idle" /\ UNCHANGED bypassVars
    BY <1>5, <1>t, NoPutFacts DEF Rejected
  <2> QED
    BY <2>1, <1>0
<1>6. CASE SaveSettings(p)
  <2>1. put[p].at = "steps" /\ put' = [put EXCEPT ![p].at = "apply"]
        /\ UNCHANGED <<bypass, bypassVersion, notifier>>
    BY <1>6 DEF SaveSettings
  <2>2. put'[p].at = "apply" /\ put'[p].list = put[p].list
    BY <2>1, <1>t DEF PutRecords
  <2>3. CASE put[p].list = Same
    <3>1. UNCHANGED bypassVars
      BY <1>6, <2>1, <2>3 DEF SaveSettings, bypassVars
    <3> QED
      BY <3>1, <2>1, <2>2, <2>3 DEF PutListSteps, Pending
  <2>4. CASE put[p].list # Same
    <3>1. savedBypass' = put[p].list
      BY <1>6, <2>4 DEF SaveSettings
    <3> QED
      BY <3>1, <2>1, <2>2, <2>4 DEF PutListSteps, Pending
  <2> QED
    BY <2>3, <2>4
<1>7. CASE ApplySettings(p)
  <2>1. put[p].at = "apply" /\ put'[p].at = "idle" /\ UNCHANGED <<savedBypass, unsaved, notifier>>
    BY <1>7, <1>t, NoPutFacts DEF ApplySettings
  <2>2. CASE put[p].list = Same
    <3>1. UNCHANGED bypassVars
      BY <1>7, <2>1, <2>2 DEF ApplySettings, bypassVars
    <3> QED
      BY <3>1, <2>1, <2>2 DEF PutListSteps, Pending
  <2>3. CASE put[p].list # Same
    <3>1. SetTLSBypassHosts(put[p].list)
      BY <1>7, <2>3 DEF ApplySettings
    <3>2. put[p].list \in SUBSET Hosts
      BY <1>l, <2>3
    <3> QED
      BY <3>1, <3>2, <2>1, <2>3 DEF PutListSteps, Pending
  <2> QED
    BY <2>2, <2>3
<1> QED
  BY <1>1, <1>2, <1>3, <1>4, <1>5, <1>6, <1>7 DEF PutStep

\* A PUT is the only one whose record its step changes.
LEMMA OtherPuts ==
  ASSUME RouteType, NEW p \in Requests, PlanSettingsUpdate(p) \/ PutStep(p)
  PROVE  \A q \in Requests \ {p} : put'[q] = put[q]
<1>t. put \in [Requests -> PutRecords]
  BY DEF RouteType
<1>1. CASE PlanSettingsUpdate(p)
  BY <1>1, <1>t DEF PlanSettingsUpdate
<1>2. CASE PutStep(p)
  BY <1>2, <1>t DEF PutStep, PassOver, SenderTakes, ProxyTakes, SenderRefuses, ProxyRefuses, Undo, Rejected,
     SaveSettings, SaveSettingsFails, ApplySettings
<1> QED
  BY <1>1, <1>2

\* A PUT saves its list, then puts it in force.
LEMMA PutsStep ==
  ASSUME ListsApart, ListsApart', RouteType, ListInv, NEW p \in Requests, Puts(p)
  PROVE  ListInv'
<1>1. PutListSteps(p) /\ UNCHANGED crossed
  BY PutLists DEF Puts
<1>2. \A q \in Requests \ {p} : put'[q] = put[q]
  BY OtherPuts DEF Puts
<1>3. \A q \in Requests \ {p} : Pending(q)' <=> Pending(q)
  BY <1>2 DEF Pending
<1>4. CASE ~Pending(p) /\ ~Pending(p)' /\ UNCHANGED bypassVars
  BY <1>1, <1>2, <1>3, <1>4, ListKept
<1>5. CASE /\ ~Pending(p) /\ Pending(p)' /\ savedBypass' = put'[p].list
           /\ UNCHANGED <<bypass, bypassVersion, notifier>>
  <2>1. \A q \in Requests : Pending(q)' => q = p
    BY <1>5 DEF ListsApart
  <2>2. PuttingList'
    BY <1>5 DEF PuttingList, Pending
  <2>3. NotifierType' /\ \A c \in Conns : Current(c)'
    BY <1>5 DEF ListInv, NotifierType, Current
  <2> QED
    BY <1>5, <2>1, <2>2, <2>3 DEF ListInv
<1>6. CASE /\ Pending(p) /\ ~Pending(p)' /\ put[p].list \in SUBSET Hosts
           /\ SetTLSBypassHosts(put[p].list) /\ UNCHANGED <<savedBypass, unsaved, notifier>>
  <2>1. NotifierType' /\ \A c \in Conns : Current(c)'
    BY <1>6, ListReplaced
  <2>2. ~crossed => savedBypass = put[p].list
    BY <1>6 DEF ListInv
  <2>3. bypass' = put[p].list
    BY <1>6 DEF SetTLSBypassHosts
  <2>4. \A q \in Requests : ~Pending(q)'
    BY <1>3, <1>6 DEF ListsApart
  <2> QED
    BY <1>1, <1>6, <2>1, <2>2, <2>3, <2>4 DEF ListInv
<1> QED
  BY <1>1, <1>4, <1>5, <1>6 DEF PutListSteps

CallsAreOfHosts == \A c \in Conns : leafCall[c].host \in Hosts

LEMMA ListStep ==
  ASSUME ListsApart, ListsApart', RouteType, ListInv, CallsAreOfHosts, [Next]_vars
  PROVE  ListInv'
<1>1. CASE UnchangedSettings
  <2>1. UNCHANGED bypassVars /\ UNCHANGED crossed /\ UNCHANGED put
    BY <1>1 DEF UnchangedSettings, settingsVars
  <2> QED
    BY <2>1, ListKept DEF Pending
<1>2. ASSUME NEW c \in Conns, Adds(c) \/ Saves(c) PROVE ListInv'
  BY <1>2, AddsStep, SavesStep DEF CallsAreOfHosts
<1>3. ASSUME NEW p \in Requests, Puts(p) PROVE ListInv'
  BY <1>3, PutsStep
<1> QED
  BY <1>1, <1>2, <1>3, StepsOfSettings

--------------------------------------------------------------------------------
(* Types, however many PUTs run at once *)

\* What an undo goes back to was saved, and whoever has changed the sender only is
\* at a step of its body.
PutShape(p) ==
  /\ put[p].at # "idle" => put[p].previous \in [Steps -> Values]
  /\ put[p].at = "half" => put[p].next \in Steps /\ Wants(p, put[p].next)

PutType == RouteType /\ \A p \in Requests : PutShape(p)

ListType == BypassTypeOK

ConnType ==
  /\ conn \in [Conns -> {"closed", "handshake", "saving"}]
  /\ dials \in [Conns -> 0..MaxDials] /\ autoBypass \in BOOLEAN /\ crossed \in BOOLEAN

\* One request moves on, to a record of the right shape.
LEMMA PutMoves ==
  ASSUME PutType, NEW p \in Requests, NEW r \in PutRecords, put' = [put EXCEPT ![p] = r],
         r.at # "idle" => r.previous \in [Steps -> Values],
         r.at = "half" => r.next \in Steps /\ r.want[r.next] # Same,
         saved' \in [Steps -> Values], live' \in [Steps -> [Sides -> Values]]
  PROVE  PutType'
<1>1. /\ put' \in [Requests -> PutRecords] /\ put'[p] = r
      /\ \A q \in Requests : q # p => put'[q] = put[q]
  BY DEF PutType, RouteType
<1>2. ASSUME NEW q \in Requests PROVE PutShape(q)'
  <2>1. CASE q = p
    BY <1>1, <2>1 DEF PutShape, Wants
  <2>2. CASE q # p
    BY <1>1, <2>2 DEF PutType, PutShape, Wants
  <2> QED
    BY <2>1, <2>2
<1> QED
  BY <1>1, <1>2 DEF PutType, RouteType

\* Every step of a PUT keeps the shape, whatever other PUTs are doing.
LEMMA PutTypeStep ==
  ASSUME PutType, NEW p \in Requests, PlanSettingsUpdate(p) \/ PutStep(p)
  PROVE  PutType'
<1> USE RoutesFacts, NoPutFacts
<1>t. /\ saved \in [Steps -> Values] /\ live \in [Steps -> [Sides -> Values]]
      /\ put \in [Requests -> PutRecords] /\ put[p] \in PutRecords
  BY DEF PutType, RouteType
<1>p. put[p].at # "idle" => put[p].previous \in [Steps -> Values]
  BY DEF PutType, PutShape
<1>h. put[p].at = "half" => put[p].next \in Steps /\ put[p].want[put[p].next] \in Values
  BY <1>t DEF PutType, PutShape, Wants, PutRecords
<1>n. put[p].next \in 1..Last + 1 /\ put[p].at \in Phases /\ put[p].want \in [Steps -> Values \cup {Same}]
  BY <1>t DEF PutRecords
<1>m. ASSUME NEW at \in Phases, NEW n \in 1..Last + 1,
             put' = [put EXCEPT ![p] = [put[p] EXCEPT !.at = at, !.next = n]],
             put[p].at # "idle", at = "half" => n \in Steps /\ Wants(p, n),
             saved' \in [Steps -> Values], live' \in [Steps -> [Sides -> Values]]
      PROVE  PutType'
  <2>0. PICK r : r = [put[p] EXCEPT !.at = at, !.next = n]
    OBVIOUS
  <2>1. r \in PutRecords /\ r.at = at /\ r.next = n /\ r.previous = put[p].previous /\ r.want = put[p].want
    BY <2>0, <1>t DEF PutRecords
  <2>2. put' = [put EXCEPT ![p] = r]
    BY <2>0, <1>m
  <2>3. r.at # "idle" => r.previous \in [Steps -> Values]
    BY <2>1, <1>p, <1>m
  <2>4. r.at = "half" => r.next \in Steps /\ r.want[r.next] # Same
    BY <2>1, <1>m DEF Wants
  <2> QED
    BY <2>1, <2>2, <2>3, <2>4, <1>m, PutMoves
<1>r. ASSUME put' = [put EXCEPT ![p] = NoPut], UNCHANGED <<saved, live>> PROVE PutType'
  BY <1>r, <1>t, PutMoves
<1>a. /\ [put EXCEPT ![p].at = "half"] = [put EXCEPT ![p] = [put[p] EXCEPT !.at = "half", !.next = put[p].next]]
      /\ [put EXCEPT ![p].at = "undo"] = [put EXCEPT ![p] = [put[p] EXCEPT !.at = "undo", !.next = put[p].next]]
      /\ [put EXCEPT ![p].at = "apply"] = [put EXCEPT ![p] = [put[p] EXCEPT !.at = "apply", !.next = put[p].next]]
  BY <1>t DEF PutRecords
<1>b. \A n : [put EXCEPT ![p].next = n] = [put EXCEPT ![p] = [put[p] EXCEPT !.at = put[p].at, !.next = n]]
  BY <1>t DEF PutRecords
<1>f. {"half", "undo", "apply", "steps"} \subseteq Phases
  BY DEF Phases
<1>1. CASE PlanSettingsUpdate(p)
  <2>1. PICK want \in [Steps -> Values \cup {Same}], list \in Lists \cup {Same} :
          put' = [put EXCEPT ![p] = [at |-> "steps", want |-> want, list |-> list,
                                     previous |-> saved, next |-> 1]]
    BY <1>1 DEF PlanSettingsUpdate
  <2> DEFINE r == [at |-> "steps", want |-> want, list |-> list, previous |-> saved, next |-> 1]
  <2>2. r \in PutRecords /\ r.at = "steps" /\ r.previous = saved
    BY <1>t DEF PutRecords, Phases
  <2>3. put' = [put EXCEPT ![p] = r] /\ UNCHANGED <<saved, live>>
    BY <1>1, <2>1 DEF PlanSettingsUpdate
  <2> HIDE DEF r
  <2> QED
    BY <1>t, <2>2, <2>3, PutMoves
<1>2. CASE PassOver(p)
  <2>1. /\ put' = [put EXCEPT ![p].next = put[p].next + 1] /\ UNCHANGED <<saved, live>>
        /\ put[p].at = "steps" /\ put[p].next + 1 \in 1..Last + 1
    BY <1>2 DEF PassOver
  <2> QED
    BY <2>1, <1>b, <1>m, <1>n, <1>t
<1>3. CASE SenderTakes(p)
  <2>1. PICK k \in Steps : /\ put[p].at = "steps" /\ put[p].next = k /\ Wants(p, k)
                           /\ live' = [live EXCEPT ![k]["sender"] = put[p].want[k]]
                           /\ put' = [put EXCEPT ![p].at = "half"] /\ UNCHANGED saved
    BY <1>3 DEF SenderTakes, Turn
  <2>2. put[p].want[k] \in Values
    BY <2>1, <1>n DEF Wants
  <2>3. live' \in [Steps -> [Sides -> Values]]
    BY <2>1, <2>2, <1>t DEF Sides
  <2> QED
    BY <2>1, <2>3, <1>a, <1>f, <1>m, <1>n, <1>t
<1>4. CASE ProxyTakes(p)
  <2>1. /\ put[p].at = "half" /\ UNCHANGED saved
        /\ live' = [live EXCEPT ![put[p].next]["proxy"] = put[p].want[put[p].next]]
        /\ put' = [put EXCEPT ![p].at = "steps", ![p].next = put[p].next + 1]
    BY <1>4 DEF ProxyTakes
  <2>2. put' = [put EXCEPT ![p] = [put[p] EXCEPT !.at = "steps", !.next = put[p].next + 1]]
    BY <2>1, <1>t DEF PutRecords
  <2>3. live' \in [Steps -> [Sides -> Values]] /\ put[p].next + 1 \in 1..Last + 1
    BY <2>1, <1>h, <1>t DEF Sides
  <2> QED
    BY <2>1, <2>2, <2>3, <1>f, <1>m, <1>t
<1>5. CASE SenderRefuses(p)
  <2>1. put[p].at = "steps" /\ put' = [put EXCEPT ![p].at = "undo"] /\ UNCHANGED <<saved, live>>
    BY <1>5 DEF SenderRefuses, Turn
  <2> QED
    BY <2>1, <1>a, <1>f, <1>m, <1>n, <1>t
<1>6. CASE ProxyRefuses(p)
  <2>1. /\ put[p].at = "half" /\ UNCHANGED saved /\ put' = [put EXCEPT ![p].at = "undo"]
        /\ live' = [live EXCEPT ![put[p].next]["sender"] = put[p].previous[put[p].next]]
    BY <1>6 DEF ProxyRefuses
  <2>2. live' \in [Steps -> [Sides -> Values]]
    BY <2>1, <1>h, <1>p, <1>t DEF Sides
  <2> QED
    BY <2>1, <2>2, <1>a, <1>f, <1>m, <1>n, <1>t
<1>7. CASE Undo(p)
  <2> DEFINE k == put[p].next - 1
  <2>1. /\ put[p].at = "undo" /\ k \in Steps /\ UNCHANGED saved /\ put' = [put EXCEPT ![p].next = k]
        /\ live' = IF Wants(p, k) THEN [live EXCEPT ![k] = [s \in Sides |-> put[p].previous[k]]] ELSE live
    BY <1>7 DEF Undo
  <2> HIDE DEF k
  <2>2. live' \in [Steps -> [Sides -> Values]]
    BY <2>1, <1>p, <1>t
  <2>3. k \in 1..Last + 1
    BY <2>1
  <2> QED
    BY <2>1, <2>2, <2>3, <1>b, <1>m, <1>n, <1>t
<1>8. CASE Rejected(p)
  BY <1>8, <1>r DEF Rejected
<1>9. CASE SaveSettings(p)
  <2>1. /\ put[p].at = "steps" /\ UNCHANGED live /\ put' = [put EXCEPT ![p].at = "apply"]
        /\ saved' = [k \in Steps |-> IF Wants(p, k) THEN put[p].want[k] ELSE saved[k]]
    BY <1>9 DEF SaveSettings
  <2>2. saved' \in [Steps -> Values]
    BY <2>1, <1>n, <1>t DEF Wants
  <2> QED
    BY <2>1, <2>2, <1>a, <1>f, <1>m, <1>n, <1>t
<1>10. CASE SaveSettingsFails(p)
  <2>1. put[p].at = "steps" /\ put' = [put EXCEPT ![p].at = "undo"] /\ UNCHANGED <<saved, live>>
    BY <1>10 DEF SaveSettingsFails
  <2> QED
    BY <2>1, <1>a, <1>f, <1>m, <1>n, <1>t
<1>11. CASE ApplySettings(p)
  BY <1>11, <1>r DEF ApplySettings
<1> QED
  BY <1>1, <1>2, <1>3, <1>4, <1>5, <1>6, <1>7, <1>8, <1>9, <1>10, <1>11 DEF PutStep

\* A PUT changes the list to one of its body.
LEMMA PutListType ==
  ASSUME BypassTypeOK, RouteType, NEW p \in Requests, PlanSettingsUpdate(p) \/ PutStep(p)
  PROVE  BypassTypeOK'
<1>1. put[p].list # Same => put[p].list \in SUBSET Hosts
  BY RoutesFacts DEF RouteType, PutRecords
<1>2. CASE SaveSettings(p)
  BY <1>1, <1>2 DEF SaveSettings, BypassTypeOK
<1>3. CASE ApplySettings(p)
  BY <1>1, <1>3 DEF ApplySettings, SetTLSBypassHosts, BypassTypeOK
<1>4. CASE UNCHANGED bypassVars
  BY <1>4 DEF bypassVars, BypassTypeOK
<1>5. UNCHANGED bypassVars \/ SaveSettings(p) \/ ApplySettings(p)
  BY DEF PlanSettingsUpdate, PutStep, PassOver, SenderTakes, ProxyTakes, SenderRefuses, ProxyRefuses, Undo,
     Rejected, SaveSettingsFails
<1> QED
  BY <1>2, <1>3, <1>4, <1>5

\* The callback of one connection, and the handshake that starts it.
LEMMA NotifierTypeStep ==
  ASSUME BypassTypeOK, NEW c \in Conns, leafCall[c].host \in Hosts, Adds(c) \/ Saves(c)
  PROVE  BypassTypeOK'
<1>t. /\ notifier \in [Conns -> NotifierRecords] /\ notifier[c] \in NotifierRecords
      /\ bypassVersion \in Nat /\ bypass \in SUBSET Hosts
  BY DEF BypassTypeOK, NotifierRecords
<1>r. Resting \in NotifierRecords /\ [Resting EXCEPT !.at = "version"] \in NotifierRecords
  BY DEF Resting, NotifierRecords
<1>1. notifier' \in [Conns -> NotifierRecords]
  <2>1. CASE AddBypassHost(c, leafCall[c].host)
    BY <2>1, <1>t DEF AddBypassHost, NotifierRecords
  <2>2. CASE LoadVersion(c)
    BY <2>2, <1>t DEF LoadVersion, NotifierRecords
  <2>3. CASE LoadList(c)
    BY <2>3, <1>t DEF LoadList, NotifierRecords
  <2>4. CASE SaveList(c)
    BY <2>4, <1>t DEF SaveList, NotifierRecords
  <2>5. CASE CheckVersion(c)
    <3>1. notifier' = [notifier EXCEPT ![c] = Resting]
          \/ notifier' = [notifier EXCEPT ![c] = [Resting EXCEPT !.at = "version"]]
      BY <2>5, <1>t DEF CheckVersion
    <3> QED
      BY <3>1, <1>r, <1>t
  <2> QED
    BY <2>1, <2>2, <2>3, <2>4, <2>5 DEF Adds, Saves, NotifyStep
<1>2. bypass' \in SUBSET Hosts /\ bypassVersion' \in Nat
  BY <1>t DEF Adds, AddBypassHost, SetTLSBypassHosts, Saves, NotifyStep, LoadVersion, LoadList, SaveList, CheckVersion
<1>3. savedBypass' \in SUBSET Hosts /\ unsaved' \in BOOLEAN
  <2>1. notifier[c].list \in SUBSET Hosts /\ savedBypass \in SUBSET Hosts /\ unsaved \in BOOLEAN
    BY <1>t DEF NotifierRecords, BypassTypeOK
  <2> QED
    BY <2>1 DEF Adds, AddBypassHost, Saves, NotifyStep, LoadVersion, LoadList, SaveList, CheckVersion
<1> QED
  BY <1>1, <1>2, <1>3 DEF BypassTypeOK, NotifierRecords

LEMMA ConnTypeStep == ConnType /\ [Next]_vars => ConnType'
<1> SUFFICES ASSUME ConnType, [Next]_vars PROVE ConnType'
  OBVIOUS
<1> USE AddressesAssumption DEF ConnType, AddressesAssumption
<1>1. ASSUME NEW c \in Conns, NEW d \in Hosts, Tunnel(c, d) \/ Handshake(c, d) PROVE ConnType'
  <2>1. /\ dials[c] < MaxDials /\ dials' = [dials EXCEPT ![c] = dials[c] + 1] /\ UNCHANGED <<autoBypass, crossed>>
        /\ conn' = conn \/ conn' = [conn EXCEPT ![c] = "handshake"]
    BY <1>1 DEF Tunnel, Handshake, Becomes
  <2>2. dials[c] + 1 \in 0..MaxDials
    BY <2>1
  <2> QED
    BY <2>1, <2>2
<1>2. ASSUME NEW c \in Conns, Minting(c) PROVE ConnType'
  BY <1>2 DEF Minting, Rest
<1>3. ASSUME NEW c \in Conns, Accepted(c) \/ Rejects(c) \/ Unminted(c) PROVE ConnType'
  <2>1. /\ UNCHANGED <<dials, autoBypass, crossed>>
        /\ \E stage \in {"closed", "saving"} : conn' = [conn EXCEPT ![c] = stage]
    BY <1>3 DEF Accepted, Rejects, Unminted, Failed, Becomes, Rest
  <2> QED
    BY <2>1
<1>4. ASSUME NEW c \in Conns, Saving(c) PROVE ConnType'
  <2>1. \E stage \in {"closed", "saving"} : conn' = [conn EXCEPT ![c] = stage]
    BY <1>4 DEF Saving, Becomes
  <2>2. UNCHANGED <<dials, autoBypass>>
    BY <1>4 DEF Saving
  <2>3. crossed' \in BOOLEAN
    BY <1>4, Zenon DEF Saving
  <2> QED
    BY <2>1, <2>2, <2>3
<1>5. ASSUME NEW p \in Requests, Updating(p) PROVE ConnType'
  BY <1>5 DEF Updating, connVars
<1>6. ASSUME NEW h \in Hosts, Expiring(h) PROVE ConnType'
  BY <1>6 DEF Expiring, Rest
<1>7. CASE UNCHANGED vars
  BY <1>7 DEF vars, connVars
<1> QED
  BY <1>1, <1>2, <1>3, <1>4, <1>5, <1>6, <1>7 DEF Next

\* The number of PUTs, which only a plan increments.
CountType == puts \in Nat

LEMMA CountTypeStep == CountType /\ [Next]_vars => CountType'
<1> SUFFICES ASSUME CountType, [Next]_vars PROVE CountType'
  OBVIOUS
<1> USE DEF CountType
<1>1. CASE UnchangedSettings
  BY <1>1 DEF UnchangedSettings, settingsVars
<1>2. ASSUME NEW c \in Conns, Adds(c) \/ Saves(c) PROVE CountType'
  BY <1>2 DEF Adds, Saves, settingsVars
<1>3. ASSUME NEW p \in Requests, Puts(p) PROVE CountType'
  BY <1>3 DEF Puts, PlanSettingsUpdate, PutStep, PassOver, SenderTakes, ProxyTakes, SenderRefuses, ProxyRefuses,
     Undo, Rejected, SaveSettings, SaveSettingsFails, ApplySettings
<1> QED
  BY <1>1, <1>2, <1>3, StepsOfSettings

SettingsTypes == PutType /\ ListType /\ CountType

LEMMA SettingsTypesStep == LeafTypeOK /\ SettingsTypes /\ [Next]_vars => SettingsTypes'
<1> SUFFICES ASSUME LeafTypeOK, SettingsTypes, [Next]_vars PROVE SettingsTypes'
  OBVIOUS
<1> USE DEF SettingsTypes, ListType
<1>0. CountType'
  BY CountTypeStep
<1>1. CASE UnchangedSettings
  BY <1>0, <1>1 DEF UnchangedSettings, settingsVars, bypassVars, PutType, RouteType, PutShape, Wants, BypassTypeOK
<1>2. ASSUME NEW c \in Conns, Adds(c) \/ Saves(c) PROVE SettingsTypes'
  <2>1. leafCall[c].host \in Hosts
    BY DEF LeafTypeOK
  <2>2. BypassTypeOK'
    BY <1>2, <2>1, NotifierTypeStep
  <2>3. UNCHANGED <<saved, live, put>>
    BY <1>2 DEF Adds, Saves, settingsVars
  <2>4. PutType'
    BY <2>3 DEF PutType, RouteType, PutShape, Wants
  <2> QED
    BY <1>0, <2>2, <2>4
<1>3. ASSUME NEW p \in Requests, Puts(p) PROVE SettingsTypes'
  <2>1. PlanSettingsUpdate(p) \/ PutStep(p)
    BY <1>3 DEF Puts
  <2>2. PutType'
    BY <2>1, PutTypeStep
  <2>3. BypassTypeOK'
    BY <2>1, PutListType DEF PutType
  <2> QED
    BY <1>0, <2>2, <2>3
<1> QED
  BY <1>1, <1>2, <1>3, StepsOfSettings

LEMMA InitTypes == Init => SettingsTypes /\ ConnType
<1> SUFFICES ASSUME Init PROVE SettingsTypes /\ ConnType
  OBVIOUS
<1>1. RouteType
  BY RouteInit DEF RouteInv
<1>2. \A p \in Requests : PutShape(p)
  BY NoPutFacts DEF Init, SettingsInit, PutShape
<1>3. BypassTypeOK
  BY DEF Init, SettingsInit, BypassInit, BypassTypeOK, Resting
<1>4. ConnType
  <2>1. 0 \in 0..MaxDials
    BY AddressesAssumption DEF AddressesAssumption
  <2>2. dials \in [Conns -> 0..MaxDials] /\ conn \in [Conns -> {"closed", "handshake", "saving"}]
    BY <2>1 DEF Init
  <2>3. autoBypass \in BOOLEAN /\ crossed \in BOOLEAN
    BY Zenon DEF Init
  <2> QED
    BY <2>2, <2>3 DEF ConnType
<1> QED
  BY <1>1, <1>2, <1>3, <1>4 DEF SettingsTypes, PutType, ListType, CountType, Init, SettingsInit

\* Every variable of the proxy, of its cache, its list and its settings stays in its
\* domain (TypeOK), for any number of PUTs at once: no route becomes a field that a
\* body does not have, whichever steps are undone.
THEOREM ProxyTypes == Spec => []TypeOK
<1>1. Spec => []LeafInv
  BY ProxyUsesLeafCache, LeafCacheInvariant, PTL
<1>2. LeafInv /\ SettingsTypes /\ [Next]_vars => SettingsTypes'
  BY SettingsTypesStep DEF LeafInv
<1>3. LeafInv /\ SettingsTypes /\ ConnType => TypeOK
  BY DEF LeafInv, SettingsTypes, PutType, RouteType, PutRecords, Phases, ListType, CountType, ConnType,
     SettingsTypeOK, TypeOK
<1> QED
  BY <1>1, <1>2, <1>3, InitTypes, ConnTypeStep, PTL DEF Spec

--------------------------------------------------------------------------------
(* The list that a restart reads *)

\* addBypassHost and its callback: whatever the handshakes that add a host and the PUTs
\* that replace the list overtake, the list that a restart reads is the one in force
\* when all are done, but for a save inside a PUT and for a setting that was not
\* written, as long as no two PUTs have saved a list that is not in force yet.
THEOREM SavedListIsTheListInForce == Spec /\ []ListsApart => []BypassIsSaved
<1>1. Spec => []LeafInv
  BY ProxyUsesLeafCache, LeafCacheInvariant, PTL
<1>2. Spec => []TypeOK
  BY ProxyTypes
<1>3. LeafInv => CallsAreOfHosts
  BY DEF LeafInv, LeafTypeOK, CallsAreOfHosts
<1>4. TypeOK => RouteType
  BY DEF TypeOK, SettingsTypeOK, RouteType, PutRecords, Phases
<1>5. RouteType /\ ListInv /\ CallsAreOfHosts /\ ListsApart /\ ListsApart' /\ [Next]_vars => ListInv'
  BY ListStep
<1>6. ListInv => BypassIsSaved
  <2> SUFFICES ASSUME ListInv, Quiet, ~crossed, \A c \in Conns : notifier[c] = Resting, ~unsaved
               PROVE  savedBypass = bypass
    BY DEF BypassIsSaved, SavedBypassIsCurrent
  <2>1. ~PuttingList
    BY NoPutFacts DEF Quiet, PuttingList
  <2>2. \A c \in Conns : ~Busy(c)
    BY DEF Busy, Resting
  <2> QED
    BY <2>1, <2>2 DEF ListInv
<1> QED
  BY ListInit, <1>1, <1>2, <1>3, <1>4, <1>5, <1>6, PTL DEF Spec
================================================================================
