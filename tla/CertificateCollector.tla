-------------------------- MODULE CertificateCollector --------------------------
(***************************************************************************)
(* What a collector of signatures promises to the rest of consensus: it    *)
(* turns good signatures of a supermajority into certificates, the rounds  *)
(* of the certificates it makes increase, so that no round gets two, and   *)
(* it never comes back to a round it has given up.  VoteState (QCs) and    *)
(* NoEndorsementState (NECs) are shown to implement it.                    *)
(***************************************************************************)
EXTENDS Integers

CONSTANTS Quorums, \* the sets of validators whose signatures make a certificate
          Values,  \* what a certificate may be about
          Rounds   \* the rounds that certificates are made for

VARIABLES floor,        \* the first round that a certificate may still be made for
          certificates  \* the certificates made so far, with their good signers

vars == <<floor, certificates>>

Init ==
    /\ floor = 1
    /\ certificates = {}

\* A supermajority has signed `value` in a round that is still open.
Certify ==
    \E round \in Rounds, value \in Values, signers \in Quorums :
        /\ round >= floor
        /\ certificates' = certificates \cup
                              {[round |-> round, value |-> value, signers |-> signers]}
        /\ floor' = round + 1

\* The rounds below a later floor are given up.
GiveUp ==
    /\ floor' > floor
    /\ UNCHANGED certificates

Next == Certify \/ GiveUp

Spec == Init /\ [][Next]_vars

=============================================================================
