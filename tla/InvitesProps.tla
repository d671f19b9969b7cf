----------------------------- MODULE InvitesProps ---------------------------
(***************************************************************************)
(* What the bonuses of Invites must satisfy, and what a comment of the     *)
(* code says of them.                                                      *)
(***************************************************************************)
EXTENDS Invites

LeftOf(a, s) ==
  LET owned == {i \in DOMAIN buffs : buffs[i].attr = a /\ buffs[i].source = s}
  IN  IF owned = {} THEN 0 ELSE buffs[CHOOSE i \in owned : TRUE].left

\* A pending invitation has paid nothing; of an earned one, the matches still
\* due and the matches a bonus was used for add up to the grant of each side.
PaidOnce ==
  \A a \in Attributions :
    /\ \A s \in {"invite_host", "invite_joiner"} :
         Cardinality({i \in DOMAIN buffs : buffs[i].attr = a /\ buffs[i].source = s}) <= 1
    /\ attr[a].state = "pending" =>
         \A s \in {"invite_host", "invite_joiner"} : LeftOf(a, s) + used[a][s] = 0
    /\ attr[a].state = "earned" =>
         /\ LeftOf(a, "invite_host") + used[a]["invite_host"] = HostMatches
         /\ LeftOf(a, "invite_joiner") + used[a]["invite_joiner"] = JoinerMatches

\* An invitation pays both sides exactly once, through kicks, replays and
\* players who come back, and is earned by guessing in enough rounds of the
\* inviter's room as one player, and by nothing else.
PlayingPaysOnce ==
  /\ PaidOnce
  /\ \A a \in Attributions : Alive(a) =>
       (attr[a].state = "earned" <=> real[a] >= TriggerRounds)

\* Two friends cannot farm each other: of the invitations the database knows,
\* those of one inviter that the same joiner took are a window apart, also when
\* they name different rooms, and when the player was kicked and came back.
PairsAreApart ==
  \A a, b \in Attributions :
    (/\ a # b /\ Alive(a) /\ Alive(b)
     /\ VisitorOf[Inviter(a)] = VisitorOf[Inviter(b)]
     /\ Key(attr[a].joiner) = Key(attr[b].joiner)) =>
       \/ attr[a].created >= attr[b].created + PairDedup
       \/ attr[b].created >= attr[a].created + PairDedup

\* The bonus of a public lobby does not pile up for an account or a browser,
\* though the same person shows up as either.
OnePublicBonus ==
  \A i, j \in DOMAIN buffs :
    (/\ i # j /\ buffs[i].source = "public_game" /\ buffs[j].source = "public_game"
     /\ Active(buffs[i]) /\ Active(buffs[j])) => ~Reaches(buffs[i], buffs[j].who)

\* The bonus of a public lobby is for the next match: whoever finishes one has
\* an active bonus afterwards, one only, even having used the previous in this
\* match.
PublicBonusRemains ==
  [][/\ OnePublicBonus'
     /\ \A r \in Public :
          status[r] = "playing" /\ status'[r] = "finished" =>
            \A p \in players[r] : \E i \in DOMAIN buffs' :
              /\ buffs'[i].source = "public_game" /\ Reaches(buffs'[i], p)
              /\ buffs'[i].left > 0 /\ buffs'[i].expires > now]_vars

(***************************************************************************)
(* What a comment of the code says, and the code does not do.              *)
(***************************************************************************)

\* The checks run in one transaction so that joiners cannot slip past a cap.
CapHolds ==
  \A i \in People :
    Cardinality({a \in EarnedSince(Day) : VisitorOf[Inviter(a)] = VisitorOf[i]}) <= HostCap
=============================================================================
