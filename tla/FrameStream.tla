----------------------------- MODULE FrameStream -----------------------------
(***************************************************************************)
(* What the media transport promises each direction of an attachment: the  *)
(* frames that come out were put in, come out whole, in the order they     *)
(* were put in and at most once.  It does not promise that they come out.  *)
(***************************************************************************)
EXTENDS Naturals

CONSTANT End        \* the receiving ends, one per direction

VARIABLES
    put,            \* number of frames put in for each end
    out             \* the last frame that came out at each end, 0 if none did

Put(e) ==
    /\ put' = [put EXCEPT ![e] = @ + 1]
    /\ UNCHANGED out

Deliver(e) ==
    /\ \E frame \in (out[e] + 1) .. put[e] : out' = [out EXCEPT ![e] = frame]
    /\ UNCHANGED put

Init ==
    /\ put = [e \in End |-> 0]
    /\ out = [e \in End |-> 0]

Next == \E e \in End : Put(e) \/ Deliver(e)

Spec == Init /\ [][Next]_<<put, out>>
=============================================================================
