------------------------------ MODULE MCServer ------------------------------
(***************************************************************************)
(* Model values and small sets for the runs of module Server.              *)
(***************************************************************************)
EXTENDS Server, TLC

CONSTANTS desk, phone, alice, bob, one, idName, usernameName, hashName, rowidName,
          secret, other

MCClients == {desk, phone}
OneClient == {desk}

\* Names that are strings; and a string that is written as a number beside names
\* that are columns.
MCUsernames == {alice, bob}
QuotedNames == {one, idName, usernameName}
AllColumns == {one, idName, usernameName, hashName, rowidName}

\* Hashes that are no name's number.
MCPasswords == {secret, other}

MCColumn == [name \in Usernames |->
  CASE name = idName -> "ID"
    [] name = usernameName -> "USERNAME"
    [] name = hashName -> "PW_HASH"
    [] name = rowidName -> "ROWID"
    [] OTHER -> "none"]
MCNumber == [name \in Usernames |-> IF name = one THEN 1 ELSE NoUser]

\* Ids of all runs together.
TwoIds == 0 .. 1
ThreeIds == 0 .. 2

\* Clients are only compared, and so are hashes where no name is PW_HASH.
MCSymmetry == Permutations(MCClients) \cup Permutations(MCPasswords)
=============================================================================
