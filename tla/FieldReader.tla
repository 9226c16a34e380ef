------------------------------ MODULE FieldReader ------------------------------
(***************************************************************************)
(* What the caller of a decoder may rely on: it reads fields one after the *)
(* other from its bytes, each in one step.  Of a field all that is known   *)
(* is whether it is an opaque envelope.  Such a field takes the bytes of   *)
(* its envelope, no more and no less, and fails only when the envelope     *)
(* itself is incomplete; other fields take what they take, or fail.        *)
(***************************************************************************)
EXTENDS CompactCodec

VARIABLES
  input,    \* the bytes
  pos,      \* how many of them have been read
  left,     \* for each field to come, whether it is opaque
  verdict   \* "run", "done" or "panic"

vars == <<input, pos, left, verdict>>

Ahead == SubSeq(input, pos + 1, Len(input))

Init ==
  /\ input \in Seq(Byte)
  /\ pos = 0
  /\ left \in Seq(BOOLEAN)
  /\ verdict = "run"

ReadField ==
  /\ verdict = "run" /\ left # <<>>
  /\ left' = Tail(left)
  /\ pos' \in pos..Len(input)
  /\ Head(left) => EnvelopeOK(Ahead) /\ pos' = pos + EnvelopeLength(Ahead)
  /\ UNCHANGED <<input, verdict>>

Fail ==
  /\ verdict = "run" /\ left # <<>>
  /\ Head(left) => ~ EnvelopeOK(Ahead)
  /\ verdict' = "panic"
  /\ UNCHANGED <<input, pos, left>>

Stop ==
  /\ verdict = "run" /\ left = <<>>
  /\ verdict' = "done"
  /\ UNCHANGED <<input, pos, left>>

Next == ReadField \/ Fail \/ Stop

Spec == Init /\ [][Next]_vars
=============================================================================
