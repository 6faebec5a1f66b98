---------------------------- MODULE ChainReplica ----------------------------
(***************************************************************************)
(* What the listener and its database promise to the readers of the        *)
(* tables.  A replica holds a branch of the chain.  It grows by one whole  *)
(* block, mined on top of its last one, or loses blocks from its end; and  *)
(* at every moment a reader sees the vaults and the balances as they were  *)
(* in the contract after the replica's last block.                         *)
(***************************************************************************)
EXTENDS EastContract

VARIABLES ledger,   \* every block ever mined; its index is its signature
          replica,  \* the signatures of the blocks held, in order
          view      \* the vaults and balances that readers see

vars == <<ledger, replica, view>>

\* The readers' part of the contract's state after the last of the blocks.
ViewAfter(blocks, sigs) ==
    LET s == IF sigs = <<>> THEN GenesisState
                            ELSE Final(blocks[sigs[Len(sigs)]])
    IN  [vaults |-> s.vaults, balances |-> s.balances]

Init == /\ ledger = <<>>
        /\ replica = <<>>
        /\ view = ViewAfter(<<>>, <<>>)

\* The node mines a block, which changes nothing for the readers.
Mined == /\ Len(ledger') = Len(ledger) + 1
         /\ \A s \in DOMAIN ledger : ledger'[s] = ledger[s]
         /\ UNCHANGED <<replica, view>>

Tip == IF replica = <<>> THEN 0 ELSE replica[Len(replica)]

AppendBlock ==
    /\ \E s \in DOMAIN ledger : /\ ledger[s].parent = Tip
                                /\ replica' = Append(replica, s)
    /\ view' = ViewAfter(ledger, replica')
    /\ UNCHANGED ledger

DropBlocks ==
    /\ \E n \in 0 .. Len(replica) - 1 : replica' = SubSeq(replica, 1, n)
    /\ view' = ViewAfter(ledger, replica')
    /\ UNCHANGED ledger

Next == Mined \/ AppendBlock \/ DropBlocks

Spec == Init /\ [][Next]_vars
=============================================================================
