----------------------------- MODULE BlockDevice -----------------------------
(***************************************************************************)
(* What the layers above expect of VirtualDisk: every block holds what was *)
(* last written to it.  A write that is reported as failed leaves its      *)
(* block, and no other, in doubt: later reads may return the old value, or *)
(* the new one, or a mixture, until the block is written again.  content   *)
(* holds, for each block, the values a read may return.                    *)
(***************************************************************************)
CONSTANTS Blocks, Values,
          Zero,           \* a block of zeros
          Torn,           \* a block of which only a part was written
          Done, Failed    \* the answers to a write, and to a call that throws

VARIABLES content, answer

Init == content = [b \in Blocks |-> {Zero}] /\ answer = Done

Read(b) == answer' \in content[b] /\ UNCHANGED content

Write(b, v) == content' = [content EXCEPT ![b] = {v}] /\ answer' = Done

Fail == answer' = Failed /\ UNCHANGED content

FailedWrite(b, v) ==
  /\ answer' = Failed
  /\ \E possible \in SUBSET (content[b] \cup {v, Torn}) :
       possible # {} /\ content' = [content EXCEPT ![b] = possible]

(* Closing, losing or opening the device settles what was in doubt.         *)
Settle ==
  /\ answer' = Done
  /\ content' \in [Blocks -> {{v} : v \in Values}]
  /\ \A b \in Blocks : content'[b] \subseteq content[b]

Next == \/ \E b \in Blocks : Read(b) \/ \E v \in Values : Write(b, v) \/ FailedWrite(b, v)
        \/ Fail \/ Settle

Spec == Init /\ [][Next]_<<content, answer>>

=============================================================================
