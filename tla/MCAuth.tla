------------------------------- MODULE MCAuth -------------------------------
(***************************************************************************)
(* Small instances of Auth for TLC.  A run starts either from nothing or   *)
(* from a user with an Owner and a second phone, both logged in.           *)
(***************************************************************************)
EXTENDS Auth, TLC

CONSTANTS owner, phone

\* Nobody yet: the run begins with a bootstrap.
Empty == [role |-> [d \in Devices |-> "absent"], revoked |-> {},
          acc |-> [d \in Devices |-> 0], rfr |-> [d \in Devices |-> 0], minted |-> 0]

\* An Owner and a second phone, both logged in.
Pair == [role |-> [d \in Devices |-> IF d = owner THEN "owner"
                                     ELSE IF d = phone THEN "phone" ELSE "absent"],
         revoked |-> {},
         acc |-> [d \in Devices |-> IF d = owner THEN 1 ELSE IF d = phone THEN 2 ELSE 0],
         rfr |-> [d \in Devices |-> IF d = phone THEN 3 ELSE 0],
         minted |-> 3]

Fresh == {Empty}
FreshOrPair == {Empty, Pair}

\* Requests and request ids are alike, and so are devices without a seed.
Symmetric == Permutations(Requests) \cup Permutations(RequestIds)
             \cup Permutations(Devices \ {owner, phone})

=============================================================================
