------------------------------- MODULE BlockSync -------------------------------
(***************************************************************************)
(* How nodes get each other's blocks: inventory, getdata, getblocks in     *)
(* batches, the continuation of a batch, and blocks that arrive before     *)
(* their parents.                                                          *)
(*                                                                         *)
(* Every node runs this code.  A link <<n, p>> is n's connection to its    *)
(* peer p; what n sends on it arrives in order, until the connection drops *)
(* and both ends forget it.  A block is its place in the tree: all blocks  *)
(* are acceptable and have the same work, and there are no checkpoints.    *)
(* The time of a request is reduced to: at once for the first, later for a *)
(* repeated one.  setInventoryKnown does not overflow, nothing is imported *)
(* and the send buffer does not fill up.                                   *)
(***************************************************************************)
EXTENDS Naturals, FiniteSets, SequencesExt

CONSTANTS
    Nodes,
    Links,          \* pairs of nodes that may be connected, in both directions
    Blocks,         \* a block is the sequence of choices that leads to it
    Have,           \* blocks of each node at the start, one chain
    nLimit,         \* blocks announced for one getblocks: 500
    SyncWindow,     \* a peer this far behind is not made the sync node: 144
    RelayWindow,    \* a peer is not told of blocks this far below its start: 2000
    MaxDrops,       \* bound: connections lost
    None

VARIABLES
    mapBlockIndex, pindexBest, mapOrphanBlocks,   \* of each node
    mapAlreadyAskedFor,
    pnodeSync,      \* the peer, or None
    cnode,          \* link -> CNode, or None
    wire,           \* link -> messages on their way
    drops

chain == <<mapBlockIndex, pindexBest, mapOrphanBlocks>>
vars == <<chain, mapAlreadyAskedFor, pnodeSync, cnode, wire, drops>>

hashPrevBlock(x) == Front(x)

nHeight(x) == Len(x)

Ancestors(x) == {SubSeq(x, 1, i) : i \in 0 .. Len(x)}

(* Blocks of different heights, lowest first.                              *)
ByHeight(S) ==
    [i \in 1 .. Cardinality(S) |->
        CHOOSE x \in S : Cardinality({y \in S : nHeight(y) <= nHeight(x)}) = i]

Back(l) == <<l[2], l[1]>>

AlreadyHave(n, x) == x \in mapBlockIndex[n] \cup mapOrphanBlocks[n]

(* What a node remembers of a connection.                                  *)
CNode(height) ==
    [nStartingHeight |-> height, setInventoryKnown |-> {}, vInventoryToSend |-> <<>>,
     now |-> <<>>, later |-> <<>>,         \* mapAskFor
     vRecvGetData |-> <<>>, hashContinue |-> None,
     lastGetBlocks |-> <<None, None>>,     \* pindexLastGetBlocksBegin, hashLastGetBlocksEnd
     fStartSync |-> FALSE]

Init ==
    /\ mapBlockIndex = Have
    /\ pindexBest = [n \in Nodes |-> Last(ByHeight(Have[n]))]
    /\ mapOrphanBlocks = [n \in Nodes |-> {}]
    /\ mapAlreadyAskedFor = [n \in Nodes |-> {}]
    /\ pnodeSync = [n \in Nodes |-> None]
    /\ cnode = [l \in Links |-> None]
    /\ wire = [l \in Links |-> <<>>]
    /\ drops = 0

---------------------------------------------------------------------------
(* PushGetBlocks for each of reqs in turn: a request like the last one is  *)
(* not repeated.                                                           *)
NotRepeated(c, reqs) ==
    LET seen == <<c.lastGetBlocks>> \o reqs
        new == {i \in DOMAIN reqs : reqs[i] # seen[i]}
    IN  [i \in 1 .. Cardinality(new) |->
            reqs[CHOOSE j \in new : Cardinality({k \in new : k <= j}) = i]]

GetBlocks(c, reqs) ==
    [i \in DOMAIN NotRepeated(c, reqs) |-> [type |-> "getblocks", req |-> NotRepeated(c, reqs)[i]]]

Requested(c, reqs) ==
    [c EXCEPT !.lastGetBlocks = Last(<<@>> \o reqs)]

PushInventory(c, blocks) ==
    [c EXCEPT !.vInventoryToSend = @ \o SelectSeq(blocks, LAMBDA x : x \notin c.setInventoryKnown)]

GetOrphanRoot(n, x) ==
    LET gap == {i \in 0 .. Len(x) - 1 : SubSeq(x, 1, i) \notin mapOrphanBlocks[n]}
    IN  SubSeq(x, 1, 1 + CHOOSE i \in gap : \A j \in gap : j <= i)

(* Variant: only the orphans right above the block.                        *)
AcceptedChildren(n, x) == {x} \cup {o \in mapOrphanBlocks[n] : hashPrevBlock(o) = x}

(* A block whose parent is there, and the orphans that hang on it.         *)
Accepted(n, x) ==
    {x} \cup {o \in mapOrphanBlocks[n] :
                x \in Ancestors(o) /\ Ancestors(o) \ Ancestors(x) \subseteq mapOrphanBlocks[n]}

(* Variant: of the orphans none becomes the best block.                    *)
HigherItself(n, x) == {y \in {x} : nHeight(y) > nHeight(pindexBest[n])}

(* ConnectBestBlock: what has more work than the best block.               *)
Higher(n, x) == {y \in Accepted(n, x) : nHeight(y) > nHeight(pindexBest[n])}

(* ProcessBlock for a block with a parent; cn are the connections after    *)
(* what came before.  Each block that becomes the best one is relayed, the *)
(* first of its height.                                                    *)
ProcessBlock(n, x, cn) ==
    \E news \in SUBSET Higher(n, x) :
        LET relayed(c) ==
                SelectSeq(ByHeight(news), LAMBDA y : nHeight(y) + RelayWindow > c.nStartingHeight)
        IN  /\ {nHeight(y) : y \in news} = {nHeight(y) : y \in Higher(n, x)}
            /\ \A y, z \in news : nHeight(y) = nHeight(z) => y = z
            /\ mapBlockIndex' = [mapBlockIndex EXCEPT ![n] = @ \cup Accepted(n, x)]
            /\ mapOrphanBlocks' = [mapOrphanBlocks EXCEPT ![n] = @ \ Accepted(n, x)]
            /\ pindexBest' = [pindexBest EXCEPT ![n] = Last(<<@>> \o ByHeight(news))]
            /\ cnode' = [l \in Links |-> IF l[1] = n /\ cn[l] # None
                                         THEN PushInventory(cn[l], relayed(cn[l])) ELSE cn[l]]

---------------------------------------------------------------------------
(* The messages.  Each is taken off the wire of the other end, c is the    *)
(* connection that receives it.                                            *)
Reply(l, messages) ==
    wire' = [wire EXCEPT ![Back(l)] = Tail(@), ![l] = @ \o messages]

(* AskFor for what is not there yet; an orphan sets off a search for its   *)
(* root; the last block of the bundle, if it is there, the next batch.     *)
Inv(l, vInv) ==
    LET n == l[1]
        c == cnode[l]
        missing == SelectSeq(vInv, LAMBDA x : ~AlreadyHave(n, x))
        asked == mapAlreadyAskedFor[n]
        request(i) ==
            IF vInv[i] \in mapOrphanBlocks[n]
            THEN <<<<pindexBest[n], GetOrphanRoot(n, vInv[i])>>>>
            ELSE IF i = Len(vInv) /\ vInv[i] \in mapBlockIndex[n] THEN <<<<vInv[i], None>>>>
            ELSE <<>>
        reqs == FlattenSeq([i \in DOMAIN vInv |-> request(i)])
    IN  /\ cnode' = [cnode EXCEPT ![l] =
                [Requested(c, reqs) EXCEPT
                    !.setInventoryKnown = @ \cup ToSet(vInv),
                    !.now = @ \o SelectSeq(missing, LAMBDA x : x \notin asked),
                    !.later = @ \o SelectSeq(missing, LAMBDA x : x \in asked)]]
        /\ mapAlreadyAskedFor' = [mapAlreadyAskedFor EXCEPT ![n] = @ \cup ToSet(missing)]
        /\ Reply(l, GetBlocks(c, reqs))
        /\ UNCHANGED <<chain, pnodeSync>>

(* The blocks after the last one of the main chain that the caller has.    *)
Following(n, begin) == ByHeight(Ancestors(pindexBest[n]) \ Ancestors(begin))

UpTo(blocks, stop) ==
    LET before == {i \in DOMAIN blocks : \A j \in 1 .. i : blocks[j] # stop}
    IN  SubSeq(blocks, 1, Cardinality(before))

GetBlocksMessage(l, req) ==
    LET blocks == UpTo(Following(l[1], req[1]), req[2])
        batch == SubSeq(blocks, 1, IF Len(blocks) < nLimit THEN Len(blocks) ELSE nLimit)
        c == PushInventory(cnode[l], batch)
    IN  /\ cnode' = [cnode EXCEPT ![l] =
                IF Len(batch) = nLimit THEN [c EXCEPT !.hashContinue = Last(batch)] ELSE c]
        /\ Reply(l, <<>>)
        /\ UNCHANGED <<chain, mapAlreadyAskedFor, pnodeSync>>

(* Variant: the inventory that starts the next batch is not sent.          *)
ServeOnly(l, queue) ==
    LET found == Head(queue) \in mapBlockIndex[l[1]]
        continue == found /\ Head(queue) = cnode[l].hashContinue
        c == [cnode[l] EXCEPT !.vRecvGetData = Tail(queue)]
    IN  [cn |-> IF continue THEN [c EXCEPT !.hashContinue = None] ELSE c,
         out |-> IF found THEN <<[type |-> "block", block |-> Head(queue)]>> ELSE <<>>]

(* ProcessGetData: one block at a time; after the last one of a batch, the *)
(* inventory that makes the peer ask for the next.                         *)
ProcessGetData(l, queue) ==
    LET found == Head(queue) \in mapBlockIndex[l[1]]
        continue == found /\ Head(queue) = cnode[l].hashContinue
        c == [cnode[l] EXCEPT !.vRecvGetData = Tail(queue)]
    IN  [cn |-> IF continue THEN [c EXCEPT !.hashContinue = None] ELSE c,
         out |-> (IF found THEN <<[type |-> "block", block |-> Head(queue)]>> ELSE <<>>)
                 \o (IF continue THEN <<[type |-> "inv", inv |-> <<pindexBest[l[1]]>>]>>
                     ELSE <<>>)]

GetData(l, vInv) ==
    LET s == ProcessGetData(l, vInv)
    IN  /\ cnode' = [cnode EXCEPT ![l] = s.cn]
        /\ Reply(l, s.out)
        /\ UNCHANGED <<chain, mapAlreadyAskedFor, pnodeSync>>

(* A block that is there already, one without its parent, and one that can *)
(* be accepted.                                                            *)
Block(l, x) ==
    LET n == l[1]
        c == [cnode[l] EXCEPT !.setInventoryKnown = @ \cup {x}]
    IN  /\ \/ /\ AlreadyHave(n, x)
              /\ cnode' = [cnode EXCEPT ![l] = c]
              /\ Reply(l, <<>>)
              /\ UNCHANGED chain
           \/ /\ ~AlreadyHave(n, x) /\ hashPrevBlock(x) \notin mapBlockIndex[n]
              /\ LET reqs == <<<<pindexBest[n], GetOrphanRoot(n, x)>>>>
                 IN  /\ cnode' = [cnode EXCEPT ![l] = Requested(c, reqs)]
                     /\ Reply(l, GetBlocks(c, reqs))
              /\ mapOrphanBlocks' = [mapOrphanBlocks EXCEPT ![n] = @ \cup {x}]
              /\ UNCHANGED <<mapBlockIndex, pindexBest>>
           \/ /\ ~AlreadyHave(n, x) /\ hashPrevBlock(x) \in mapBlockIndex[n]
              /\ ProcessBlock(n, x, [cnode EXCEPT ![l] = c])
              /\ Reply(l, <<>>)
        /\ mapAlreadyAskedFor' =
                [mapAlreadyAskedFor EXCEPT ![n] = IF AlreadyHave(n, x) THEN @ ELSE @ \ {x}]
        /\ UNCHANGED pnodeSync

(* One turn of ProcessMessages: what was asked for before comes first.     *)
ProcessMessages(l) ==
    /\ cnode[l] # None
    /\ \/ /\ cnode[l].vRecvGetData # <<>>
          /\ LET s == ProcessGetData(l, cnode[l].vRecvGetData)
             IN  /\ cnode' = [cnode EXCEPT ![l] = s.cn]
                 /\ wire' = [wire EXCEPT ![l] = @ \o s.out]
          /\ UNCHANGED <<chain, mapAlreadyAskedFor, pnodeSync>>
       \/ /\ cnode[l].vRecvGetData = <<>> /\ wire[Back(l)] # <<>>
          /\ LET m == Head(wire[Back(l)])
             IN  \/ m.type = "inv" /\ Inv(l, m.inv)
                 \/ m.type = "getdata" /\ GetData(l, m.inv)
                 \/ m.type = "getblocks" /\ GetBlocksMessage(l, m.req)
                 \/ m.type = "block" /\ Block(l, m.block)
    /\ UNCHANGED drops

(* SendMessages: the start of the sync, the inventory, the requests.       *)
SendMessages(l) ==
    LET c == cnode[l]
        n == l[1]
        start == IF c.fStartSync THEN <<<<pindexBest[n], None>>>> ELSE <<>>
        new == ToSet(c.vInventoryToSend) \ c.setInventoryKnown
        inv == [i \in 1 .. Cardinality(new) |->
                    c.vInventoryToSend[CHOOSE j \in DOMAIN c.vInventoryToSend :
                        /\ c.vInventoryToSend[j] \in new
                        /\ \A k \in 1 .. j - 1 : c.vInventoryToSend[k] # c.vInventoryToSend[j]
                        /\ Cardinality({c.vInventoryToSend[k] : k \in 1 .. j} \cap new) = i]]
        wanted == SelectSeq(c.now, LAMBDA x : ~AlreadyHave(n, x))
    IN  /\ c # None
        /\ c.fStartSync \/ c.vInventoryToSend # <<>> \/ c.now # <<>>
        /\ cnode' = [cnode EXCEPT ![l] =
                [Requested(c, start) EXCEPT
                    !.fStartSync = FALSE, !.vInventoryToSend = <<>>, !.now = <<>>,
                    !.setInventoryKnown = @ \cup new]]
        /\ wire' = [wire EXCEPT ![l] = @ \o GetBlocks(c, start)
                \o (IF new = {} THEN <<>> ELSE <<[type |-> "inv", inv |-> inv]>>)
                \o (IF wanted = <<>> THEN <<>> ELSE <<[type |-> "getdata", inv |-> wanted]>>)]
        /\ UNCHANGED <<chain, mapAlreadyAskedFor, pnodeSync, drops>>

(* Two minutes have passed since the request before.                       *)
RetryDue(l) ==
    /\ cnode[l] # None /\ cnode[l].later # <<>>
    /\ cnode' = [cnode EXCEPT ![l].now = Append(@, Head(cnode[l].later)),
                              ![l].later = Tail(@)]
    /\ UNCHANGED <<chain, mapAlreadyAskedFor, pnodeSync, wire, drops>>

(* The score of a peer is left open: any that may be the sync node.        *)
StartSync(n) ==
    /\ pnodeSync[n] = None
    /\ \E l \in Links :
        /\ l[1] = n /\ cnode[l] # None
        /\ cnode[l].nStartingHeight + SyncWindow > nHeight(pindexBest[n])
        /\ cnode' = [cnode EXCEPT ![l].fStartSync = TRUE]
        /\ pnodeSync' = [pnodeSync EXCEPT ![n] = l[2]]
    /\ UNCHANGED <<chain, mapAlreadyAskedFor, wire, drops>>

(* A block is found on top of the best one.                                *)
CheckWork(n) ==
    /\ \E x \in Blocks \ UNION {mapBlockIndex[m] : m \in Nodes} :
        /\ hashPrevBlock(x) = pindexBest[n]
        /\ ProcessBlock(n, x, cnode)
    /\ UNCHANGED <<mapAlreadyAskedFor, pnodeSync, wire, drops>>

(* The connection is made and the versions are exchanged.                  *)
Connect(l) ==
    /\ cnode[l] = None
    /\ cnode' = [cnode EXCEPT ![l] = CNode(nHeight(pindexBest[l[2]])),
                              ![Back(l)] = CNode(nHeight(pindexBest[l[1]]))]
    /\ UNCHANGED <<chain, mapAlreadyAskedFor, pnodeSync, wire, drops>>

Disconnect(l) ==
    /\ cnode[l] # None /\ drops < MaxDrops
    /\ drops' = drops + 1
    /\ cnode' = [cnode EXCEPT ![l] = None, ![Back(l)] = None]
    /\ wire' = [wire EXCEPT ![l] = <<>>, ![Back(l)] = <<>>]
    /\ pnodeSync' = [n \in Nodes |-> IF <<n, pnodeSync[n]>> \in {l, Back(l)} THEN None
                                     ELSE pnodeSync[n]]
    /\ UNCHANGED <<chain, mapAlreadyAskedFor>>

ThreadMessageHandler(n) ==
    \/ StartSync(n)
    \/ \E l \in Links : l[1] = n /\ (ProcessMessages(l) \/ SendMessages(l) \/ RetryDue(l))

Next ==
    \/ \E n \in Nodes : ThreadMessageHandler(n) \/ CheckWork(n)
    \/ \E l \in Links : Connect(l) \/ Disconnect(l)

(* Each node's message handler goes on as long as there is something to do *)
(* (requests come due with time), and connections are made again; blocks   *)
(* need not be found.                                                      *)
Fairness ==
    /\ \A n \in Nodes : WF_vars(ThreadMessageHandler(n))
    /\ \A l \in Links : WF_vars(Connect(l))

Spec == Init /\ [][Next]_vars /\ Fairness

---------------------------------------------------------------------------
(* Types: the index of a node holds the ancestors of its blocks, its best  *)
(* block is among the highest ones.                                        *)
TypeOK ==
    \A n \in Nodes :
        /\ mapBlockIndex[n] \subseteq Blocks /\ mapOrphanBlocks[n] \subseteq Blocks
        /\ \A x \in mapBlockIndex[n] : Ancestors(x) \subseteq mapBlockIndex[n]
        /\ pindexBest[n] \in mapBlockIndex[n]
        /\ \A x \in mapBlockIndex[n] : nHeight(x) <= nHeight(pindexBest[n])

(* ProcessBlock takes every orphan along whose parent has come, however    *)
(* long the chain of orphans is.                                           *)
NoneLeftBehind ==
    \A n \in Nodes : \A o \in mapOrphanBlocks[n] :
        o \notin mapBlockIndex[n] /\ hashPrevBlock(o) \notin mapBlockIndex[n]

SameHeight == \A m, n \in Nodes : nHeight(pindexBest[m]) = nHeight(pindexBest[n])

(* A node is behind, on a side chain that is at least as long as a batch.  *)
LongSideChain ==
    \E m, n \in Nodes :
        /\ nHeight(pindexBest[m]) < nHeight(pindexBest[n])
        /\ Cardinality(Ancestors(pindexBest[m]) \ Ancestors(pindexBest[n])) >= nLimit

(* The comments on getblocks and inv: when the last block of a batch is    *)
(* requested, "we'll send an inv that'll make them getblocks the next      *)
(* batch", and a getblocks is pushed when the last block is there already. *)
(* So, once no more blocks are found, and whatever was in flight when      *)
(* connections were lost: all nodes come to chains of the same length.     *)
(* Excepted are a node on a long side chain, which is announced the same   *)
(* batch over and over (PushInventory leaves it out, PushGetBlocks does    *)
(* not repeat the request), and one that waits for a peer to request the   *)
(* last block of a batch that the peer had already.                        *)
InSyncUnlessStalled ==
    <>[](\/ SameHeight
         \/ LongSideChain
         \/ \E l \in Links : /\ cnode[l] # None /\ cnode[l].hashContinue # None
                             /\ AlreadyHave(l[2], cnode[l].hashContinue))
===============================================================================
