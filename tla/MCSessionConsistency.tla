------------------------ MODULE MCSessionConsistency ------------------------
(* Model-checking instances of SessionConsistency. *)
EXTENDS SessionConsistency, TLC

\* Policies that degrade with a warning and prefer a replica.
Lenient == [missing |-> "warning", timeout |-> "warning", fallback |-> "primary",
            loss |-> "replica_then_primary", rerr |-> "primary"]

\* The default policy: the primary serves what a replica cannot.
Strict == [missing |-> "primary", timeout |-> "primary", fallback |-> "primary",
           loss |-> "replica_then_primary", rerr |-> "error"]

\* Nothing but replicas: what they cannot serve is an error.
ReplicaOnly == [missing |-> "error", timeout |-> "error", fallback |-> "error",
                loss |-> "replica_then_error", rerr |-> "disconnect"]

\* No second attempt of any kind.
Abrupt == [missing |-> "primary", timeout |-> "disconnect", fallback |-> "primary",
           loss |-> "disconnect", rerr |-> "error"]

AllPolicies == {Lenient, Strict, ReplicaOnly, Abrupt}
StrictPolicy == {Strict}
LenientAndStrict == {Lenient, Strict}

ReaderSymmetry == Permutations(Readers)
SessionSymmetry == Permutations(Sessions)
=============================================================================
