----------------------------- MODULE MCInvites ------------------------------
(***************************************************************************)
(* TLC instances of Invites: a host; a guest; the same browser, and the    *)
(* same person, logged in.                                                 *)
(***************************************************************************)
EXTENDS InvitesProps

CONSTANTS host, guest, member

MCUserOf == [p \in People |-> IF p = member THEN "user" ELSE None]
MCVisitorOf == [p \in People |-> IF p = host THEN "v1" ELSE "v2"]
MCIpOf == [p \in People |-> IF p = host THEN "ip1" ELSE "ip2"]
RoomSymmetry == Permutations(Rooms)

\* Tokens matter only to joins to come, and a public bonus that ran out to
\* nothing any more.
StillOwed(row) == row.source # "public_game" \/ Active(row)
View ==
  <<status, players, IF joins < MaxJoins THEN minter ELSE None, attr,
    SelectSeq(buffs, StillOwed), now, games, joins, real, used>>
=============================================================================
