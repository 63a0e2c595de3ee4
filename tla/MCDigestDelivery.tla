-------------------------- MODULE MCDigestDelivery --------------------------
(***************************************************************************)
(* DigestDelivery for TLC: dispatchers are interchangeable, and so are     *)
(* members where all of them use a Grant.                                  *)
(***************************************************************************)
EXTENDS DigestDelivery, TLC

\* Two members and two dispatchers for a public aggregate, where no Grant can be
\* revoked; two members, or two dispatchers, for a private digest.
SmallDigests ==
    [public : {TRUE}, who : {Members}, by : {Dispatchers}]
    \cup [public : {FALSE}, who : {Members}, by : {{d} : d \in Dispatchers}]
    \cup [public : {FALSE}, who : {{m} : m \in Members}, by : {Dispatchers}]

DigestSymmetry == Permutations(Dispatchers) \cup Permutations(Members)
=============================================================================
