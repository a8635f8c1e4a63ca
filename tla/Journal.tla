------------------------------- MODULE Journal -------------------------------
(***************************************************************************)
(* The in-memory journal manager of journal.h, as operators on the value   *)
(* of a Journal object: its two vectors of records.                        *)
(*                                                                         *)
(* next_txn_id_ only has to give a transaction an id that no live record   *)
(* carries, for ids are compared with nothing else; FreshTxn is the least  *)
(* id above those of the live records, so that a long run of commands does *)
(* not make every state a new one.                                         *)
(***************************************************************************)
EXTENDS Integers, Sequences, SequencesExt

NewJournal == [pending |-> <<>>, committed |-> <<>>]

Record(type, txn) == [type |-> type, txn |-> txn]
DataRecord(txn, block, image) ==
  [type |-> "DATA_BLOCK", txn |-> txn, target |-> block, data |-> image]

LiveTxns(j) == {j.pending[i].txn : i \in DOMAIN j.pending}
                 \cup {j.committed[i].txn : i \in DOMAIN j.committed}
FreshTxn(j) == 1 + Max({0} \cup LiveTxns(j))

(* The records at the positions in K, in order, as std::remove_if and       *)
(* erase, or a loop that copies some of them, leave them.                   *)
KeptUpTo(records, K) ==
  LET kept[i \in 0 .. Len(records)] ==
        IF i = 0 THEN <<>>
        ELSE IF i \in K THEN Append(kept[i - 1], records[i]) ELSE kept[i - 1]
  IN  kept
Kept(records, K) == KeptUpTo(records, K)[Len(records)]

Without(records, txn) ==
  Kept(records, {i \in DOMAIN records : records[i].txn # txn})

BeginTransaction(j) ==
  [j EXCEPT !.pending = Append(@, Record("BEGIN", FreshTxn(j)))]

(* One log_block per block of the sequence, with its new image, in order.   *)
LogBlocks(j, txn, blocks, images) ==
  [j EXCEPT !.pending =
     @ \o [k \in DOMAIN blocks |-> DataRecord(txn, blocks[k], images[k])]]

(* commit() moves every pending record, whichever transaction it is of.    *)
Commit(j, txn) ==
  [j EXCEPT !.committed = @ \o Append(j.pending, Record("COMMIT", txn)),
            !.pending   = <<>>]

Checkpoint(j, txn) == [j EXCEPT !.committed = Without(@, txn)]

(* Variant with a bug: an abort that forgets to erase the records.         *)
AbortNothing(j, txn) == j
Abort(j, txn)      == [j EXCEPT !.pending   = Without(@, txn)]
Clear(j)           == NewJournal

(* The committed block images recover_from_journal writes back, in order.  *)
ReplayRecords(j) ==
  Kept(j.committed, {i \in DOMAIN j.committed : j.committed[i].type = "DATA_BLOCK"})

=============================================================================
