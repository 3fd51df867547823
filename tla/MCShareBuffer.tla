----------------------------- MODULE MCShareBuffer -----------------------------
(* A small instance of ShareBuffer: two slots and blocks of every form the   *)
(* parser tells apart; hashes of two bytes.  An entry may lose any number of *)
(* bytes of its block.                                                       *)
EXTENDS ShareBuffer

Genesis ==
  [id |-> 11, major |-> 9, timestamp |-> 100, height |-> 5, rewards |-> << >>,
   protocolOutputs |-> 0, txs |-> << >>, wallet |-> 20, parent |-> 0,
   uncles |-> << >>, sideHeight |-> 0, difficulty |-> <<7, 0>>,
   cumulative |-> <<7, 0>>, proof |-> << >>, chains |-> << >>]

(* Carrot, one output, two-byte varints, uncles and a proof.               *)
Carrot ==
  [Genesis EXCEPT !.id = 12, !.major = 10, !.timestamp = 300, !.height = 200,
     !.rewards = <<500>>, !.parent = 11, !.uncles = <<31, 32>>, !.sideHeight = 129,
     !.difficulty = <<8, 1>>, !.cumulative = <<15, 2>>, !.proof = <<41>>]

(* Several outputs, transactions, merge mined chains, one of them twice.   *)
Merged ==
  [Carrot EXCEPT !.id = 13, !.rewards = <<1, 128>>, !.protocolOutputs = 2,
     !.txs = <<4, 60>>, !.parent = 12, !.uncles = << >>, !.proof = <<41, 42>>,
     !.chains = <<<<51, 1>>, <<52, 0>>, <<51, 2>>>>]

(* Compact outputs in a Carrot block; four transactions, as many as the    *)
(* version of a protocol transaction.                                      *)
Compact == [Carrot EXCEPT !.id = 14, !.rewards = << >>, !.txs = <<60, 1, 2, 3>>]

(* Four transactions in a block before Carrot.                             *)
Old == [Genesis EXCEPT !.id = 15, !.rewards = <<2>>, !.txs = <<60, 60, 1, 2>>]

AllBlocks == {Genesis, Carrot, Merged, Compact, Old}
AllCuts   == 1..(Max({Len(BlockBytes(b)) : b \in AllBlocks}))

(* What the proofs assume of protocol transactions holds of these.         *)
ASSUME ProtocolsAreShort == ShortProtocols

=============================================================================
