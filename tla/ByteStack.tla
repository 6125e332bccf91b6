----------------------------- MODULE ByteStack -----------------------------
(***************************************************************************)
(* What a device promises that gives back the bytes written last first: a  *)
(* write puts bytes on top as far as there is room, a read takes at least  *)
(* one byte off the top and hands the bytes over in the order in which     *)
(* they were written.  Nothing is lost and nothing is handed over twice.   *)
(***************************************************************************)
EXTENDS Integers, Sequences

CONSTANTS Users,     \* whoever reads
          Capacity   \* how many bytes there is room for

VARIABLES content,   \* the bytes on the stack, the top one last
          got        \* what each user's last read returned

Init ==
  /\ content = <<>>
  /\ got = [u \in Users |-> <<>>]

Push ==
  /\ Len(content') <= Capacity
  /\ Len(content) <= Len(content')
  /\ content = SubSeq(content', 1, Len(content))
  /\ UNCHANGED got

Pop(u) ==
  \E n \in 1 .. Len(content) :
    LET rest == Len(content) - n
    IN  /\ content' = SubSeq(content, 1, rest)
        /\ got' = [got EXCEPT ![u] = SubSeq(content, rest + 1, Len(content))]

Next == Push \/ \E u \in Users : Pop(u)

Spec == Init /\ [][Next]_<<content, got>>
=============================================================================
