---------------------------- MODULE MCSubmission -----------------------------
(* Small instances of Submission for TLC. *)
EXTENDS Submission, TLC

CONSTANTS biz, buy, dup, mail, Mail, other

Roles == biz :> "business" @@ buy :> "buyer" @@ dup :> "investor"
Payloads == biz :> other @@ buy :> Mail @@ dup :> mail
LowerCase == mail :> mail @@ Mail :> mail @@ other :> other

Symmetry == Permutations(BuyerRows) \cup Permutations(Slots)

=============================================================================
