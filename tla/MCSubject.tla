----------------------------- MODULE MCSubject -----------------------------
(* Instances of SubjectErasure for TLC. *)
EXTENDS SubjectErasure, TLC
CONSTANTS email, phone, device, b1, b2, b3

\* A known customer's email with a phone or a device, and each alone.
TwoIds == {{email}, {phone}, {email, phone}}
OneId == {{email}}
ThreeIds == {{email}, {phone}, {email, phone, device}}

\* A subject addressed by its email alone or by its phone and its customer.
AnyAddress == {[id |-> email, brain |-> NoBrain], [id |-> phone, brain |-> b1]}

ByEmail == {[id |-> email, brain |-> NoBrain]}

Symmetric == Permutations({b2, b3})
=============================================================================
