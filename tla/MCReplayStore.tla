--------------------------- MODULE MCReplayStore ---------------------------
(* A small replay store: two receipts issued for the same intent, and two  *)
(* receipts of different intents that carry the same receipt id.           *)
EXTENDS ReplayStore, TLC, FiniteSets

MCRow == {[receipt_id |-> "r1", intent_key |-> "i1", expires_at |-> 1],
          [receipt_id |-> "r2", intent_key |-> "i1", expires_at |-> 2],
          [receipt_id |-> "r2", intent_key |-> "i2", expires_at |-> 2]}

MCSymmetry == Permutations(Process)
=============================================================================
