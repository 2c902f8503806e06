-------------------------- MODULE MCSessionManager --------------------------
(* SessionManager with finite instances for TLC. *)
EXTENDS SessionTurns

CONSTANTS c1, c2, c3, c4, u1, u2

TwoChannels   == {c1, c2}
ThreeChannels == {c1, c2, c3}
FourChannels  == {c1, c2, c3, c4}

OneUser  == {u1}
TwoUsers == {u1, u2}

\* Channels and users are only compared for equality.
Symmetry == Permutations(Channel) \cup Permutations(User)

=============================================================================
