------------------------------ MODULE MCChannels ------------------------------
(* Bodies that switch the type both ways, set one or both SMTP fields and    *)
(* choose global SMTP.                                                        *)
EXTENDS Channels, TLC

Settings(h, f) == [host |-> h, from |-> f]

MCBodies ==
    {[type |-> "email", url |-> FALSE, recipients |-> "some", global |-> "unset", smtp |-> Settings(1, 1)],
     [type |-> "email", url |-> FALSE, recipients |-> "some", global |-> "true", smtp |-> NoSMTP],
     [type |-> "webhook", url |-> TRUE, recipients |-> "none", global |-> "false", smtp |-> NoSMTP],
     [type |-> "webhook", url |-> FALSE, recipients |-> "kept", global |-> "unset", smtp |-> NoSMTP],
     [type |-> "", url |-> FALSE, recipients |-> "kept", global |-> "unset", smtp |-> Settings(1, 0)]}

Symmetry == Permutations(Ids) \cup Permutations(Requests)

=============================================================================
