-------------------------------- MODULE Offers --------------------------------
(***************************************************************************)
(* The offers: a seller announces a quantity (offernew, offeractivate) and *)
(* changes it (offerupdate), buyers take a part of it (offeraccept) and    *)
(* pay (offerpay).  The offer database is written while blocks connect; it *)
(* holds, for every offer, a list of its versions by height, the accepts   *)
(* inside each version, and an index from accepts to offers.               *)
(*                                                                         *)
(* Disconnecting a block does not touch the database: DisconnectBlock only *)
(* decodes alias operations.  For the same reason the maps of pending      *)
(* offer operations, which the RPCs look at first, are always empty.       *)
(* Verifying the chain, at every start or on request, connects its last    *)
(* blocks again and writes their offers to the database once more.         *)
(*                                                                         *)
(* A transaction is known by its place in txs; what is not in the chain    *)
(* waits in the memory pool.  Heights count from the first block modelled. *)
(* Prices, fees due and wallet funds are left out: the RPCs attach the fee *)
(* that CheckOfferInputs asks for.                                         *)
(***************************************************************************)
EXTENDS Integers, Sequences, FiniteSets

CONSTANTS
    Wallets, Guids, Accepts,
    NewQtys,          \* the quantities offered, the changes of it, and
    UpdateQtys,       \* the quantities accepted
    AcceptQtys,
    ExpirationDepth,  \* GetOfferExpirationDepth, constant at the heights modelled
    MaxReorg,         \* bound: blocks disconnected at a time
    MaxCheck,         \* bound: blocks verified at a time
    MaxTxs,           \* bound: transactions made
    MaxSent,          \* bound: payments sent for an accept
    MaxHeight,        \* bound: height of the best chain
    MaxUpsets,        \* bound: events of upsets
    None

ASSUME OffersAssumption ==
    /\ NewQtys \subseteq Nat /\ UpdateQtys \subseteq Int /\ AcceptQtys \subseteq Int
    /\ ExpirationDepth \in Nat \ {0} /\ MaxReorg \in Nat /\ MaxCheck \in Nat
    /\ MaxTxs \in Nat /\ MaxSent \in Nat /\ MaxHeight \in Nat /\ MaxUpsets \in Nat
    /\ None \notin Guids \cup Accepts

Ops == {"new", "activate", "update", "accept", "pay"}
TxId == 1 .. MaxTxs

VARIABLES
    txs,        \* the transactions made: [op, guid, acc, in, from, nQty]
    chain,      \* the blocks connected, each a sequence of transactions
    best,       \* the chain that ends in pindexBest
    offers,     \* offeri: guid -> list of versions [nHeight, nQty, accepts, tx]
    offera,     \* offera: accept -> guid, or None
    testPool,   \* dummyTestPool, the guids and accepts of what has been indexed
    fees,       \* lstOfferFees, heights only, and what of it is in the database
    feesdb,
    sent,       \* history: the payments sent for an accept
    upsets      \* history: what else the database has seen than the best chain growing

db == <<offers, offera, testPool, fees, feesdb>>
vars == <<txs, chain, best, offers, offera, testPool, fees, feesdb, sent, upsets>>

Idle == chain = best

Confirmed(ch) == UNION {{ch[h][i] : i \in DOMAIN ch[h]} : h \in DOMAIN ch}
MinedAt(ch) == [t \in Confirmed(ch) |->
                   CHOOSE h \in DOMAIN ch : \E i \in DOMAIN ch[h] : ch[h][i] = t]
Spends(t) == {txs[t].in} \ {0}
Last(s) == s[Len(s)]

-------------------------------------------------------------------------------
(* Versions and accepts of an offer.                                       *)

At(list, h) == {i \in DOMAIN list : list[i].nHeight = h}

(* The version of this height, else the last one.                          *)
GetOfferFromList(list, h) ==
    IF At(list, h) # {} THEN list[CHOOSE i \in At(list, h) : TRUE] ELSE Last(list)

(* Variant: a version of the same height is kept beside the new one.       *)
AppendToOfferList(list, o) == Append(list, o)

PutToOfferList(list, o) ==
    IF At(list, o.nHeight) # {}
    THEN [list EXCEPT ![CHOOSE i \in At(list, o.nHeight) : TRUE] = o]
    ELSE Append(list, o)

PutOfferAccept(o, a, ca) ==
    [o EXCEPT !.accepts = [x \in DOMAIN @ \cup {a} |-> IF x = a THEN ca ELSE @[x]]]

GetRemQty(o) ==
    LET taken[S \in SUBSET DOMAIN o.accepts] ==
            IF S = {} THEN 0
            ELSE LET a == CHOOSE x \in S : TRUE
                 IN  o.accepts[a].nQty + taken[S \ {a}]
    IN  o.nQty - taken[DOMAIN o.accepts]

(* The offer a transaction carries.                                        *)
Serialized(t, h) ==
    LET tx == txs[t]
        carried == tx.op \in {"accept", "pay"}
    IN  [nHeight |-> h, tx |-> t,
         nQty    |-> IF carried THEN 0 ELSE tx.nQty,
         accepts |-> [a \in IF carried THEN {tx.acc} ELSE {} |->
                         [nQty |-> tx.nQty, bPaid |-> FALSE]]]

(* Variant: the newest entry goes to the end.                             *)
AppendOfferFee(list, h) == Append(list, h)

(* One entry for a height: the hash of the transaction is never set.       *)
InsertOfferFee(list, h) ==
    IF h \in {list[i] : i \in DOMAIN list} THEN list ELSE <<h>> \o list

-------------------------------------------------------------------------------
(* CheckOfferInputs for a transaction t of a block at height h, when       *)
(* pindexBest is at height tip.  s holds the coins seen so far (at, the    *)
(* heights of what is mined, and spent) and the database.                  *)

RelativeDepth(s, t, h) == h - s.at[txs[t].in]

HaveInputs(s, t) ==
    /\ t \notin DOMAIN s.at
    /\ Spends(t) \subseteq DOMAIN s.at \ s.spent

(* Variant: only operations on the offer clash.                            *)
ClashOfOffers(s, t, h, tip) ==
    h = tip /\ txs[t].op \in {"activate", "update"} /\ txs[t].guid \in s.testPool

(* The conditions of each operation.  At the height of pindexBest, and     *)
(* only there, an operation on what is in mapTestPool is refused: when the *)
(* tip is verified, or when a branch passes the height of the old tip.     *)
Clash(s, t, h, tip) ==
    LET tx == txs[t]
    IN  /\ h = tip
        /\ \/ tx.op \in {"activate", "update"} /\ tx.guid \in s.testPool
           \/ tx.op = "pay" /\ tx.acc \in s.testPool
Valid(s, t, h, tip) ==
    LET tx == txs[t]
        prev == txs[tx.in]
    IN  /\ tx.op = "activate" =>
              /\ prev.op = "new" /\ prev.guid = tx.guid
              /\ RelativeDepth(s, t, h) \in 1 .. ExpirationDepth - 1
        /\ tx.op = "update" =>
              /\ prev.op # "new" /\ prev.guid = tx.guid
              /\ RelativeDepth(s, t, h) < ExpirationDepth
        /\ tx.op = "pay" =>
              prev.op = "accept" /\ prev.guid = tx.guid /\ prev.acc = tx.acc
        /\ ~Clash(s, t, h, tip)

Current(s, t, h) ==
    LET list == s.offers[txs[t].guid]
    IN  IF list = <<>> THEN Serialized(t, h) ELSE GetOfferFromList(list, h)

(* Variant: the quantity asked for is compared with the quantity offered.  *)
FulfilsAny(s, t, h) == txs[t].nQty \in 1 .. Current(s, t, h).nQty

(* An accept is recorded if the quantity is left, first to mine makes it.  *)
Fulfils(s, t, h) == txs[t].nQty \in 1 .. GetRemQty(Current(s, t, h))

(* Variant: an update brings its own accepts, which are none.              *)
UpdateAlone(s, t, h) ==
    CASE txs[t].op = "activate" -> [Current(s, t, h) EXCEPT !.nHeight = h]
      [] txs[t].op = "update" -> Serialized(t, h)
      [] OTHER -> PutOfferAccept(Current(s, t, h), txs[t].acc,
                      [nQty |-> txs[t].nQty, bPaid |-> txs[t].op = "pay"])

(* The version that t leaves: an update replaces all but the accepts; only *)
(* activations and updates move the height.                                *)
Version(s, t, h) ==
    CASE txs[t].op = "activate" -> [Current(s, t, h) EXCEPT !.nHeight = h]
      [] txs[t].op = "update" ->
            [Serialized(t, h) EXCEPT !.accepts = Current(s, t, h).accepts]
      [] OTHER -> PutOfferAccept(Current(s, t, h), txs[t].acc,
                      [nQty |-> txs[t].nQty, bPaid |-> txs[t].op = "pay"])

(* Variant: the test pool notes the transaction.                           *)
IndexedByTx(s, t, o, h) ==
    [s EXCEPT !.offers[txs[t].guid] = PutToOfferList(@, [o EXCEPT !.tx = t]),
              !.testPool = @ \cup {t}]

Indexed(s, t, o, h) ==
    LET tx == txs[t]
        ids == {tx.acc} \ {None}
        newFees == InsertOfferFee(s.fees, h)
    IN  [s EXCEPT !.offers[tx.guid] = PutToOfferList(@, [o EXCEPT !.tx = t]),
                  !.offera = [a \in Accepts |-> IF a \in ids THEN tx.guid ELSE @[a]],
                  !.testPool = @ \cup ids \cup {tx.guid},
                  !.fees = newFees, !.feesdb = newFees]

(* A payment needs its accept in the database.  Nothing is indexed at the  *)
(* height of pindexBest.                                                   *)
CheckOfferInputs(s, t, h, tip) ==
    LET op == txs[t].op
    IN  IF ~Valid(s, t, h, tip) THEN [s EXCEPT !.ok = FALSE]
        ELSE IF op = "new" \/ h = tip \/ (op = "accept" /\ ~Fulfils(s, t, h)) THEN s
        ELSE IF op = "pay" /\ txs[t].acc \notin DOMAIN Current(s, t, h).accepts
        THEN [s EXCEPT !.ok = FALSE]
        ELSE Indexed(s, t, Version(s, t, h), h)

UpdateCoins(s, t, h) ==
    [s EXCEPT !.at = [x \in DOMAIN @ \cup {t} |-> IF x = t THEN h ELSE @[x]],
              !.spent = @ \cup Spends(t)]

(* The coins after the blocks of ch, and the database as it is.            *)
View(ch) ==
    [ok |-> TRUE, at |-> MinedAt(ch), spent |-> UNION {Spends(t) : t \in Confirmed(ch)},
     offers |-> offers, offera |-> offera, testPool |-> testPool,
     fees |-> fees, feesdb |-> feesdb]

(* The transactions of a block in order, up to the first that fails.       *)
ConnectTxs(view, b, h, tip) ==
    LET after[i \in 0 .. Len(b)] ==
            IF i = 0 THEN view
            ELSE LET s == after[i - 1]
                     checked == CheckOfferInputs(s, b[i], h, tip)
                 IN  IF ~s.ok THEN s
                     ELSE IF ~HaveInputs(s, b[i]) THEN [s EXCEPT !.ok = FALSE]
                     ELSE IF ~checked.ok THEN checked
                     ELSE UpdateCoins(checked, b[i], h)
    IN  after[Len(b)]

Store(s) ==
    /\ offers' = s.offers /\ offera' = s.offera /\ testPool' = s.testPool
    /\ fees' = s.fees /\ feesdb' = s.feesdb

-------------------------------------------------------------------------------
(* The best chain moves.                                                   *)

Blocks ==
    LET open == DOMAIN txs \ Confirmed(chain)
    IN  {<<>>} \cup {<<t>> : t \in open}
        \cup {<<p[1], p[2]>> : p \in {q \in open \X open : q[1] # q[2]}}

(* One block of the branch that is to become the best chain.  If it fails, *)
(* the old chain stays, and so does what has been written.                 *)
ConnectBlock(b) ==
    LET s == ConnectTxs(View(chain), b, Len(chain) + 1, Len(best))
    IN  /\ Len(chain) < MaxHeight
        /\ Store(s)
        /\ IF s.ok
           THEN /\ chain' = Append(chain, b)
                /\ best' = IF Len(chain') > Len(best) THEN chain' ELSE best
                /\ UNCHANGED upsets
           ELSE /\ chain' = best
                /\ best' = best
                /\ upsets' = IF db' = db THEN upsets ELSE Append(upsets, "failure")
        /\ UNCHANGED <<txs, sent>>

(* A branch that leaves the best chain n blocks below its tip has more     *)
(* work.  pindexBest stays where it is until all of it is connected.       *)
DisconnectBlocks(n) ==
    /\ Idle
    /\ n <= Len(best) /\ Len(best) < MaxHeight
    /\ chain' = SubSeq(best, 1, Len(best) - n)
    /\ upsets' = Append(upsets, "reorg")
    /\ UNCHANGED <<txs, best, db, sent>>

-------------------------------------------------------------------------------
(* Verification and restarts.                                              *)

(* VerifyDB at its default level on a chain ch: the blocks from height k   *)
(* up are taken off a scratch copy of the coins, which leaves the offers   *)
(* alone, and connected again, which writes the offers below the tip once  *)
(* more into the database itself.  How deep it goes is up to -checkblocks  *)
(* and to the size of the coin caches.                                     *)
VerifyDB(ch, k, pool) ==
    LET start == [View(SubSeq(ch, 1, k - 1)) EXCEPT !.testPool = pool, !.fees = feesdb]
        after[h \in k - 1 .. Len(ch)] ==
            IF h = k - 1 THEN start
            ELSE LET s == after[h - 1]
                 IN  IF s.ok THEN ConnectTxs(s, ch[h], h, Len(ch)) ELSE s
    IN  after[Len(ch)]

(* What a verification does to the database besides repeating it: it fails *)
(* at an operation of the tip on what it has written below (Clash), or     *)
(* records an accept that did not fit when its block connected.            *)
Aftermath(s) ==
    IF ~s.ok /\ <<s.offers, s.offera, s.feesdb>> # <<offers, offera, feesdb>>
    THEN <<"failure">>
    ELSE IF s.offera # offera THEN <<"late">> ELSE <<>>

(* The RPC; a failure is only reported.                                    *)
verifychain(k) ==
    LET s == VerifyDB(best, k, testPool)
    IN  /\ Idle
        /\ k > Len(best) - MaxCheck
        /\ Store(s)
        /\ upsets' = upsets \o Aftermath(s)
        /\ UNCHANGED <<txs, chain, best, sent>>

(* ReconstructOfferIndex for one transaction.  An accept that is in the    *)
(* index, or not in the version, is written back as a null object.         *)
Reconstruct(s, t, h) ==
    LET tx == txs[t]
        cur == Current(s, t, h)
        found == s.offera[tx.acc] = None /\ tx.acc \in DOMAIN cur.accepts
        ca == IF found THEN cur.accepts[tx.acc] ELSE [nQty |-> 0, bPaid |-> FALSE]
        version == CASE tx.op = "activate" -> cur
                     [] tx.op = "update" ->
                           [Serialized(t, h) EXCEPT !.accepts = cur.accepts]
                     [] OTHER -> PutOfferAccept(cur, tx.acc, ca)
        new == Indexed(s, t, [version EXCEPT !.nHeight = h], h)
    IN  IF tx.op = "new" THEN s
        ELSE [new EXCEPT !.testPool = s.testPool, !.feesdb = s.feesdb]

ReconstructOfferIndex(start, ch, from) ==
    LET block(s0, h) ==
            LET b == ch[h]
                tx[i \in 0 .. Len(b)] ==
                    IF i = 0 THEN s0 ELSE Reconstruct(tx[i - 1], b[i], h)
            IN  tx[Len(b)]
        after[h \in from - 1 .. Len(ch)] ==
            IF h = from - 1 THEN start ELSE block(after[h - 1], h)
    IN  after[Len(ch)]

(* The node comes back with the first n blocks, as many as were flushed,   *)
(* verifies those from k up, and rescans from the wallet's best block if   *)
(* that is below the tip.  If they do not verify it does not start, and is *)
(* started with a lower -checklevel, which connects nothing.               *)
Restart(n, k, from) ==
    LET ch == SubSeq(best, 1, n)
        s == VerifyDB(ch, k, {})
        loaded == IF s.ok THEN s ELSE [s EXCEPT !.testPool = {}, !.fees = s.feesdb]
    IN  /\ Idle
        /\ n >= Len(best) - MaxReorg /\ k > n - MaxCheck
        /\ from # n
        /\ n < Len(best) \/ from < n => Len(upsets) < MaxUpsets
        /\ chain' = ch /\ best' = ch
        /\ Store(ReconstructOfferIndex(loaded, ch, from))
        /\ upsets' = upsets \o Aftermath(s) \o
              (IF from < n THEN <<"rescan">> ELSE IF n < Len(best) THEN <<"crash">> ELSE <<>>)
        /\ UNCHANGED <<txs, sent>>

-------------------------------------------------------------------------------
(* The RPCs.  Each makes a transaction and hands it to the memory pool,    *)
(* which refuses what spends an output twice.                              *)

mapWallet(w) == {t \in DOMAIN txs : txs[t].from = w}
Unspent(t) == \A u \in DOMAIN txs : txs[u].in # t

(* The offer is in the database and not expired.                           *)
GetTxOfOffer(g) ==
    /\ offers[g] # <<>>
    /\ Last(offers[g]).nHeight + ExpirationDepth >= Len(best)

Send(op, g, a, in, w, qty) ==
    /\ Len(txs) < MaxTxs
    /\ txs' = Append(txs, [op |-> op, guid |-> g, acc |-> a, in |-> in,
                           from |-> w, nQty |-> qty])

offernew(w, g, qty) ==
    /\ Idle
    /\ \A t \in DOMAIN txs : txs[t].guid # g
    /\ Send("new", g, None, 0, w, qty)
    /\ UNCHANGED <<chain, best, db, sent, upsets>>

offeractivate(w, g, in) ==
    /\ Idle
    /\ ~GetTxOfOffer(g)
    /\ in \in mapWallet(w)
    /\ txs[in].op = "new" /\ txs[in].guid = g
    /\ Unspent(in)
    /\ Send("activate", g, None, in, w, txs[in].nQty)
    /\ UNCHANGED <<chain, best, db, sent, upsets>>

(* The accepts are cleared before GetRemQty is asked, so that the change   *)
(* is held against the quantity offered, not against what is left of it.   *)
offerupdate(w, g, qty) ==
    LET o == Last(offers[g])
    IN  /\ Idle
        /\ GetTxOfOffer(g)
        /\ o.tx \in mapWallet(w)
        /\ Unspent(o.tx)
        /\ Send("update", g, None, o.tx, w,
                IF o.nQty + qty >= 0 THEN o.nQty + qty ELSE o.nQty)
        /\ UNCHANGED <<chain, best, db, sent, upsets>>

offeraccept(w, g, a, qty) ==
    /\ Idle
    /\ \A t \in DOMAIN txs : txs[t].acc # a
    /\ GetTxOfOffer(g)
    /\ GetRemQty(Last(offers[g])) >= qty
    /\ Send("accept", g, a, 0, w, qty)
    /\ UNCHANGED <<chain, best, db, sent, upsets>>

(* The money goes out first; then the transaction that records it, which   *)
(* the memory pool refuses if its input is spent.  The input is the accept *)
(* or, from mapMyOfferAccepts, the last payment for it.                    *)
offerpay(w, a, in) ==
    LET g == offera[a]
        o == Last(offers[g])
    IN  /\ Idle
        /\ in \in mapWallet(w) /\ txs[in].acc = a
        /\ g # None
        /\ GetTxOfOffer(g)
        /\ a \in DOMAIN o.accepts
        /\ ~o.accepts[a].bPaid
        /\ sent[a] < MaxSent
        /\ sent' = [sent EXCEPT ![a] = @ + 1]
        /\ \/ Unspent(in) /\ Send("pay", g, a, in, w, o.accepts[a].nQty)
           \/ ~Unspent(in) /\ UNCHANGED txs
        /\ UNCHANGED <<chain, best, db, upsets>>

-------------------------------------------------------------------------------
(* An offer has been announced and activated, in one block each.           *)
Init ==
    \E w \in Wallets, g \in Guids, qty \in NewQtys :
        /\ txs = <<[op |-> "new", guid |-> g, acc |-> None, in |-> 0, from |-> w, nQty |-> qty],
                   [op |-> "activate", guid |-> g, acc |-> None, in |-> 1, from |-> w, nQty |-> qty]>>
        /\ chain = <<<<1>>, <<2>>>> /\ best = chain
        /\ offers = [x \in Guids |-> IF x = g THEN <<Serialized(2, 2)>> ELSE <<>>]
        /\ offera = [a \in Accepts |-> None]
        /\ testPool = {g}
        /\ fees = <<2>> /\ feesdb = fees
        /\ sent = [a \in Accepts |-> 0]
        /\ upsets = <<>>

ChainMoves ==
    \/ \E b \in Blocks : ConnectBlock(b)
    \/ \E n \in 1 .. MaxReorg : DisconnectBlocks(n)
    \/ \E n \in 0 .. Len(best) : \E k, from \in 1 .. n + 1 : Restart(n, k, from)
    \/ \E k \in 1 .. Len(best) : verifychain(k)

RPCs ==
    \E w \in Wallets :
        \/ \E g \in Guids, qty \in NewQtys : offernew(w, g, qty)
        \/ \E g \in Guids, in \in DOMAIN txs : offeractivate(w, g, in)
        \/ \E g \in Guids, qty \in UpdateQtys : offerupdate(w, g, qty)
        \/ \E g \in Guids, a \in Accepts, qty \in AcceptQtys : offeraccept(w, g, a, qty)
        \/ \E a \in Accepts, in \in DOMAIN txs : offerpay(w, a, in)

Next == (ChainMoves \/ RPCs) /\ Len(upsets') <= MaxUpsets
Spec == Init /\ [][Next]_vars
-------------------------------------------------------------------------------
(* What is checked.                                                        *)

IsVersion(o) ==
    /\ o.nHeight \in 1 .. MaxHeight /\ o.nQty \in Int /\ o.tx \in TxId
    /\ DOMAIN o.accepts \subseteq Accepts
    /\ o.accepts \in [DOMAIN o.accepts -> [nQty : Int, bPaid : BOOLEAN]]
Tx == [op : Ops, guid : Guids, acc : Accepts \cup {None}, in : 0 .. MaxTxs,
       from : Wallets, nQty : Int]

(* The types of the variables.                                             *)
TypeOK ==
    /\ \A t \in DOMAIN txs : txs[t] \in Tx
    /\ \A h \in DOMAIN best : \A i \in DOMAIN best[h] : best[h][i] \in DOMAIN txs
    /\ \A g \in Guids : \A i \in DOMAIN offers[g] : IsVersion(offers[g][i])
    /\ offera \in [Accepts -> Guids \cup {None}]
    /\ testPool \subseteq Guids \cup Accepts
    /\ sent \in [Accepts -> 0 .. MaxSent]
    /\ upsets \in Seq({"failure", "late", "reorg", "crash", "rescan"})

(* The chain has only grown, and verifying it has neither failed halfway   *)
(* nor recorded an accept late.                                            *)
Clean == upsets = <<>>
Mined(op, g) == {t \in Confirmed(best) : txs[t].op = op /\ txs[t].guid = g}
Sold(g) == {a \in Accepts : offera[a] = g}

(* As long as the chain has only grown and verified, the last version of   *)
(* an offer has the quantity and the height of the last activation or      *)
(* update that was mined for it, and the earlier versions lie below it:    *)
(* what CheckOfferInputs writes while blocks connect, and connect again.   *)
VersionsExact ==
    Clean => \A g \in Guids :
        LET list == offers[g]
            own == Mined("activate", g) \cup Mined("update", g)
            at == MinedAt(best)
        IN  /\ Len(list) = Cardinality({at[t] : t \in own})
            /\ \A i, j \in DOMAIN list : i < j => list[i].nHeight < list[j].nHeight
            /\ list # <<>> => \E t \in own :
                  /\ Last(list).nHeight = at[t] /\ Last(list).nQty = txs[t].nQty
                  /\ \A u \in own : at[u] <= at[t] /\ txs[u].in # t

(* As long as the chain has only grown and verified, the accepts of an     *)
(* offer's last version are the ones the index has for the offer, each is  *)
(* a mined accept with its quantity, and it is paid if and only if its     *)
(* payment has been mined.  An update in between loses none of it, and     *)
(* neither does VerifyDB, which records accepts again as unpaid: of a tip  *)
(* that pays for one it has just written, CheckOfferInputs says it clashes *)
(* (offer.cpp:1233), so that the verification fails.  The accept of such a *)
(* failed verification stays unpaid, which Clean leaves out.               *)
AcceptsExact ==
    Clean => \A g \in Guids : offers[g] # <<>> =>
        LET accepts == Last(offers[g]).accepts
        IN  /\ DOMAIN accepts = Sold(g)
            /\ \A a \in Sold(g) :
                  /\ \E t \in Mined("accept", g) :
                        txs[t].acc = a /\ txs[t].nQty = accepts[a].nQty
                  /\ accepts[a].bPaid <=> \E t \in Mined("pay", g) : txs[t].acc = a

(* No version has more accepted than it offers, whatever order accepts are *)
(* mined in, or connected again after a failure, a crash, a reorganisation *)
(* or in a verification, unless an update has lowered the quantity:        *)
(* "first-to-mine makes it".                                               *)
(* A rescan is another matter: it writes accepts back without quantities.  *)
NeverOversold ==
    (\A i \in DOMAIN upsets : upsets[i] # "rescan") =>
    \A g \in Guids : \A i \in DOMAIN offers[g] :
        GetRemQty(offers[g][i]) < 0 =>
            \E t \in DOMAIN txs : txs[t].op = "update" /\ txs[t].guid = g

(* While the chain only grows and verifies, a payment whose accept is open *)
(* can go into the next block: offerpay asks of the database no less than  *)
(* CheckOfferInputs will.                                                  *)
PayConnects ==
    Clean => \A t \in DOMAIN txs \ Confirmed(best) :
        /\ txs[t].op = "pay" /\ txs[txs[t].in].op = "accept"
        /\ txs[t].in \in Confirmed(best)
        => ConnectTxs(View(best), <<t>>, Len(best) + 1, Len(best)).ok

(* As long as the chain has only grown and verified, the fee list has one  *)
(* entry for a height, newest first, and is in the database as in memory:  *)
(* GetOfferFeeSubsidy divides by the distance to the last entry in its     *)
(* window, which an entry above the height asked for makes zero.           *)
FeesNewestFirst ==
    Clean => /\ feesdb = fees
             /\ \A i, j \in DOMAIN fees : i < j => fees[i] > fees[j]
===============================================================================
