-------------------------------- MODULE AddrMan --------------------------------
(***************************************************************************)
(* The address manager: entries for the addresses of other nodes, found by *)
(* network address (mapAddr), in random order (vRandom), and in buckets,   *)
(* "new" ones that may share an entry and "tried" ones that may not.       *)
(*                                                                         *)
(* Every operation holds the manager's own lock, so it is one step.  The   *)
(* buckets an address hashes to are constants.  Times and numbers of       *)
(* attempts only choose between entries; except for nLastSuccess, which    *)
(* SelectTried compares, any choice is allowed.                            *)
(***************************************************************************)
EXTENDS Integers, Sequences, FiniteSets, SequencesExt, TLC

CONSTANTS
    IPs, Sources,
    Services,          \* some [ip, port]
    NewBuckets, TriedBuckets,
    GetNewBucket,      \* [IPs \X Sources -> NewBuckets]
    GetTriedBucket,    \* [Services -> TriedBuckets]
    NewBucketSize, TriedBucketSize,
    BucketsPerAddress,
    InspectOnEvict,
    GetAddrPct,
    Times,             \* the values of nLastSuccess, positive
    MaxIds             \* bound: entries made since the start

ASSUME AddrManAssumption ==
    /\ \A s \in Services : s.ip \in IPs
    /\ GetNewBucket \in [IPs \X Sources -> NewBuckets]
    /\ GetTriedBucket \in [Services -> TriedBuckets]
    /\ {NewBucketSize, TriedBucketSize, BucketsPerAddress, InspectOnEvict} \subseteq Nat \ {0}
    /\ GetAddrPct \in 0 .. 100
    /\ Times \subseteq Nat \ {0}
    /\ MaxIds \in Nat

VARIABLE am   \* the members of CAddrMan

Without(f, x) == [y \in DOMAIN f \ {x} |-> f[y]]

CAddrInfo(s, src) == [addr |-> s, source |-> src, nLastSuccess |-> 0,
                      nRefCount |-> 0, fInTried |-> FALSE, nRandomPos |-> 0]

CAddrMan == [nIdCount |-> 0, mapInfo |-> <<>>, mapAddr |-> <<>>, vRandom |-> <<>>,
             nTried |-> 0, vvTried |-> [b \in TriedBuckets |-> <<>>],
             nNew |-> 0, vvNew |-> [b \in NewBuckets |-> {}]]

(* Is there an entry for this network address, with this port?             *)
Find(a, ip) == ip \in DOMAIN a.mapAddr
FindService(a, s) == Find(a, s.ip) /\ a.mapInfo[a.mapAddr[s.ip]].addr = s

Create(a, s, src) ==
    LET n == a.nIdCount
        info == [CAddrInfo(s, src) EXCEPT !.nRandomPos = Len(a.vRandom) + 1]
    IN  [a EXCEPT !.nIdCount = n + 1,
                  !.mapInfo = (n :> info) @@ @,
                  !.mapAddr = (s.ip :> n) @@ @,
                  !.vRandom = Append(@, n)]

(* Variant: the entries are not told where they went.                      *)
SwapRandomOnly(a, p, q) == [a EXCEPT !.vRandom[p] = a.vRandom[q], !.vRandom[q] = a.vRandom[p]]

SwapRandom(a, p, q) ==
    LET n1 == a.vRandom[p]
        n2 == a.vRandom[q]
    IN  IF p = q THEN a
        ELSE [a EXCEPT !.mapInfo[n1].nRandomPos = q, !.mapInfo[n2].nRandomPos = p,
                       !.vRandom[p] = n2, !.vRandom[q] = n1]

-------------------------------------------------------------------------------
(* New buckets.                                                            *)

Delete(a, n) ==
    LET s == SwapRandom(a, a.mapInfo[n].nRandomPos, Len(a.vRandom))
    IN  [s EXCEPT !.vRandom = Front(@),
                  !.mapAddr = Without(@, a.mapInfo[n].addr.ip),
                  !.mapInfo = Without(@, n),
                  !.nNew = @ - 1]

Unref(a, b, n) ==
    LET r == [a EXCEPT !.mapInfo[n].nRefCount = @ - 1]
        d == IF r.mapInfo[n].nRefCount = 0 THEN Delete(r, n) ELSE r
    IN  [d EXCEPT !.vvNew[b] = @ \ {n}]

(* A terrible entry goes, or the oldest of a few: any, by their times.     *)
ShrinkNew(a, b) == {Unref(a, b, n) : n \in a.vvNew[b]}

Insert(a, b, n) == [a EXCEPT !.vvNew[b] = @ \cup {n}]
Ref(a, n) == [a EXCEPT !.mapInfo[n].nRefCount = @ + 1]

(* Variant: a full bucket is filled further.                               *)
InsertIntoFull(a, b, n) ==
    IF n \in a.vvNew[b] THEN {a} ELSE {Insert(Ref(a, n), b, n)}

AddToBucket(a, b, n) ==
    IF n \in a.vvNew[b] THEN {a}
    ELSE IF Cardinality(a.vvNew[b]) = NewBucketSize
         THEN {Insert(s, b, n) : s \in ShrinkNew(Ref(a, n), b)}
         ELSE {Insert(Ref(a, n), b, n)}

(* The results of Add_.  A known address gains a bucket only if it is not  *)
(* tried, not in too many already, seen more recently, and by chance.      *)
Add(a, s, src) ==
    LET b == GetNewBucket[s.ip, src]
        n == a.mapAddr[s.ip]
    IN  IF ~Find(a, s.ip)
        THEN AddToBucket([Create(a, s, src) EXCEPT !.nNew = @ + 1], b, a.nIdCount)
        ELSE {a} \cup IF a.mapInfo[n].fInTried \/ a.mapInfo[n].nRefCount = BucketsPerAddress
                      THEN {} ELSE AddToBucket(a, b, n)

-------------------------------------------------------------------------------
(* Tried buckets.                                                          *)

(* The first few entries are exchanged with random ones, and the position  *)
(* that the one with the oldest success came from is kept.                 *)
SelectTried(a, k) ==
    LET older(n, m) == a.mapInfo[n].nLastSuccess < a.mapInfo[m].nLastSuccess
        look(s, i) ==
            {LET n == s.list[p]
                 list == [s.list EXCEPT ![p] = s.list[i], ![i] = n]
             IN  IF s.pos = 0 \/ older(n, s.oldest)
                 THEN [list |-> list, oldest |-> n, pos |-> p]
                 ELSE [s EXCEPT !.list = list]
             : p \in i .. Len(s.list)}
        f[i \in 0 .. InspectOnEvict] ==
            IF i = 0 THEN {[list |-> a.vvTried[k], oldest |-> 0, pos |-> 0]}
            ELSE IF i > Len(a.vvTried[k]) THEN f[i - 1]
            ELSE UNION {look(s, i) : s \in f[i - 1]}
    IN  f[InspectOnEvict]

(* Variant: the entry that makes place is deleted.                         *)
Forget(a, origin, old) ==
    [Delete(a, old) EXCEPT !.nNew = a.nNew]

(* An entry goes from tried back to new: to its own bucket or, if that is  *)
(* full, to the one that the new tried entry has just left.                *)
Evict(a, origin, old) ==
    LET info == a.mapInfo[old]
        own == GetNewBucket[info.addr.ip, info.source]
        b == IF Cardinality(a.vvNew[own]) < NewBucketSize THEN own ELSE origin
    IN  [a EXCEPT !.mapInfo[old].fInTried = FALSE, !.mapInfo[old].nRefCount = 1,
                  !.vvNew[b] = @ \cup {old},
                  !.nNew = @ + 1]

MakeTried(a, n, origin) ==
    LET k == GetTriedBucket[a.mapInfo[n].addr]
        out == [a EXCEPT !.vvNew = [b \in NewBuckets |-> @[b] \ {n}],
                         !.mapInfo[n].nRefCount = @ - Cardinality({b \in NewBuckets : n \in a.vvNew[b]}),
                         !.mapInfo[n].fInTried = TRUE,
                         !.nNew = @ - 1]
    IN  IF Len(a.vvTried[k]) < TriedBucketSize
        THEN {[out EXCEPT !.vvTried[k] = Append(@, n), !.nTried = @ + 1]}
        ELSE {[Evict(out, origin, s.list[s.pos]) EXCEPT !.vvTried[k] = [s.list EXCEPT ![s.pos] = n]]
              : s \in SelectTried(a, k)}

(* The results of Good_.                                                   *)
Good(a, s, time) ==
    LET n == a.mapAddr[s.ip]
        up == [a EXCEPT !.mapInfo[n].nLastSuccess = time]
        origins == {b \in NewBuckets : n \in a.vvNew[b]}
    IN  IF ~FindService(a, s) THEN {a}
        ELSE IF a.mapInfo[n].fInTried \/ origins = {} THEN {up}
        ELSE UNION {MakeTried(up, n, b) : b \in origins}

(* The results of GetAddr_: a shuffle of the first part of vRandom.        *)
GetAddr(a) ==
    LET nNodes == (GetAddrPct * Len(a.vRandom)) \div 100
        f[i \in 0 .. nNodes] ==
            IF i = 0 THEN {a}
            ELSE UNION {{SwapRandom(s, i, p) : p \in i .. Len(a.vRandom)} : s \in f[i - 1]}
    IN  f[nNodes]

-------------------------------------------------------------------------------
(* peers.dat: the new entries and the tried ones, by id, and for each new  *)
(* bucket the places of its entries among the former.                      *)

Sorted(S) == SetToSortSeq(S, <)
FirstOf(list, n) == SubSeq(list, 1, IF n < Len(list) THEN n ELSE Len(list))
Kept(info) == [CAddrInfo(info.addr, info.source) EXCEPT !.nLastSuccess = info.nLastSuccess]

(* Variant: the places count the tried entries too.                        *)
PlaceAmongAll(a, n) == Cardinality({m \in DOMAIN a.mapInfo : m < n})

Place(a, n) == Cardinality({m \in DOMAIN a.mapInfo : m < n /\ a.mapInfo[m].nRefCount # 0})

Serialize(a) ==
    LET infos(S) == LET ids == Sorted(S) IN [i \in DOMAIN ids |-> Kept(a.mapInfo[ids[i]])]
    IN  [new |-> FirstOf(infos({n \in DOMAIN a.mapInfo : a.mapInfo[n].nRefCount # 0}), a.nNew),
         tried |-> FirstOf(infos({n \in DOMAIN a.mapInfo : a.mapInfo[n].fInTried}), a.nTried),
         buckets |-> [b \in NewBuckets |-> {Place(a, n) : n \in a.vvNew[b]}]]

(* Ids are given out anew.  A tried entry is lost if its bucket is full, a *)
(* place in a bucket if the address has too many.                          *)
LoadTried(a, info) ==
    LET k == GetTriedBucket[info.addr]
        n == a.nIdCount
        c == Create(a, info.addr, info.source)
    IN  IF Len(a.vvTried[k]) >= TriedBucketSize THEN a
        ELSE [c EXCEPT !.mapInfo[n].fInTried = TRUE,
                       !.mapInfo[n].nLastSuccess = info.nLastSuccess,
                       !.vvTried[k] = Append(@, n),
                       !.nTried = @ + 1]
LoadNew(a, info) ==
    [Create(a, info.addr, info.source) EXCEPT
        !.mapInfo[a.nIdCount].nLastSuccess = info.nLastSuccess, !.nNew = @ + 1]
LoadPlace(a, place) ==
    LET n == place[2]
    IN  IF a.mapInfo[n].nRefCount < BucketsPerAddress THEN Insert(Ref(a, n), place[1], n) ELSE a

Unserialize(file) ==
    LET places == {<<b, i>> \in NewBuckets \X (0 .. Len(file.new) - 1) : i \in file.buckets[b]}
        new == FoldLeft(LoadNew, CAddrMan, file.new)
        all == FoldLeft(LoadTried, new, file.tried)
    IN  FoldLeft(LoadPlace, all, SetToSeq(places))

-------------------------------------------------------------------------------
Init == am = CAddrMan

AddressAdded == \E s \in Services, src \in Sources :
    am.nIdCount < MaxIds /\ am' \in Add(am, s, src)
ConnectionGood == \E s \in Services, time \in Times : am' \in Good(am, s, time)
AddressesAsked == am' \in GetAddr(am)
Restart == am' = Unserialize(Serialize(am))

Next == AddressAdded \/ ConnectionGood \/ AddressesAsked \/ Restart
Spec == Init /\ [][Next]_am

-------------------------------------------------------------------------------
(* What is checked.                                                        *)

Ids == DOMAIN am.mapInfo
Buckets(n) == {b \in NewBuckets : n \in am.vvNew[b]}

(* The types, with the sizes: "Only keep a limited number of addresses     *)
(* around" (addrman.h).                                                    *)
TypeOK ==
    /\ am.nIdCount \in Nat /\ Ids \subseteq 0 .. am.nIdCount - 1
    /\ am.mapInfo \in [Ids -> [addr : Services, source : Sources, nLastSuccess : Times \cup {0},
                               nRefCount : Nat, fInTried : BOOLEAN, nRandomPos : Nat]]
    /\ \A b \in NewBuckets : Cardinality(am.vvNew[b]) <= NewBucketSize
    /\ \A k \in TriedBuckets : Len(am.vvTried[k]) <= TriedBucketSize

(* Check_ returns 0: the entries, the index by address, the random order,  *)
(* the buckets, the reference counts and the two counters agree.  The      *)
(* asserts of SwapRandom, MakeTried and Select_ follow, and that Select_   *)
(* never searches an empty table for ever.                                 *)
Consistent ==
    /\ Len(am.vRandom) = am.nTried + am.nNew
    /\ \A n \in Ids :
          LET info == am.mapInfo[n]
              places == {<<k, i>> \in TriedBuckets \X (1 .. TriedBucketSize) :
                            i <= Len(am.vvTried[k]) /\ am.vvTried[k][i] = n}
          IN  /\ IF info.fInTried
                 THEN info.nLastSuccess # 0 /\ info.nRefCount = 0 /\ Cardinality(places) = 1
                 ELSE info.nRefCount \in 1 .. BucketsPerAddress /\ places = {}
              /\ Cardinality(Buckets(n)) = info.nRefCount
              /\ info.addr.ip \in DOMAIN am.mapAddr /\ am.mapAddr[info.addr.ip] = n
              /\ info.nRandomPos \in DOMAIN am.vRandom /\ am.vRandom[info.nRandomPos] = n
    /\ am.nTried = Cardinality({n \in Ids : am.mapInfo[n].fInTried})
    /\ am.nNew = Cardinality({n \in Ids : ~am.mapInfo[n].fInTried})
    /\ \A k \in TriedBuckets : ToSet(am.vvTried[k]) \subseteq Ids
    /\ \A b \in NewBuckets : am.vvNew[b] \subseteq Ids

(* What is to be known of the addresses, ids and orders aside.             *)
Known(a) ==
    {[info |-> Kept(a.mapInfo[n]), fInTried |-> a.mapInfo[n].fInTried,
      buckets |-> {b \in NewBuckets : n \in a.vvNew[b]}] : n \in DOMAIN a.mapInfo}

(* What peers.dat is written from comes back from it: no tried entry is    *)
(* lost to a full bucket, and no new entry is taken for another, although  *)
(* the file names entries by their place among the new ones.               *)
FileExact == Known(Unserialize(Serialize(am))) = Known(am)

(* addrman.h: entries "are never deleted while in the tried table, only    *)
(* possibly evicted back to the new table": in one step, be it a restart,  *)
(* the address of a tried entry stays known.                               *)
TriedKept ==
    [][\A n \in Ids : am.mapInfo[n].fInTried =>
          am.mapInfo[n].addr.ip \in DOMAIN am'.mapAddr]_am
================================================================================
