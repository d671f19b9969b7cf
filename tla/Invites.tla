------------------------------- MODULE Invites ------------------------------
(***************************************************************************)
(* The score bonuses of multiplayer: inviteRewards.ts, with the join that  *)
(* attributes a player to an inviter (roomHandlers.ts), the end of a round *)
(* that pays and consumes bonuses (mpRoundEnd.ts) and the deletion of a    *)
(* room, which cascades (db.ts).  Who is host and when a round ends are    *)
(* MPRoom's business: here any player mints and rounds end at any time.    *)
(***************************************************************************)
EXTENDS Integers, FiniteSets, SequencesExt

CONSTANTS
  People, UserOf, VisitorOf, IpOf,   \* a person: a browser, perhaps logged in
  Hosts,                             \* people who create rooms and invite
  NewAccounts,                       \* people whose account is minutes old
  Rooms, Public,                     \* rooms, those that are listed
  Attributions,                      \* ids of mp_invite_attributions, 1 .. n
  TriggerRounds, HostMatches, JoinerMatches,
  HostCap, IpCap,                    \* earned attributions per window
  Day, Week, BuffTTL, PairDedup,     \* windows, in units of the clock
  MaxTime, MaxGames, MaxJoins,       \* bounds on the clock, the games and the joins
  None

ASSUME InvitesConstantsOK ==
  /\ None \notin People \cup {"pending", "earned", "deleted"} /\ None \notin Attributions
  /\ Public \subseteq Rooms /\ Hosts \cup NewAccounts \subseteq People
  /\ IsFiniteSet(Attributions) /\ Attributions = 1 .. Cardinality(Attributions)
  /\ {TriggerRounds, HostMatches, JoinerMatches, HostCap, IpCap} \subseteq Nat \ {0}
  /\ {MaxTime, MaxGames, MaxJoins} \subseteq Nat
  /\ {Day, Week, BuffTTL, PairDedup} \subseteq Nat \ {0}
  /\ Day <= Week /\ Week <= BuffTTL /\ BuffTTL <= PairDedup

VARIABLES
  status,     \* mp_rooms.status: "open" (lobby or between rounds), "playing",
              \* "finished", "deleted", or None: not created yet
  players,    \* mp_players of a room, the kicked ones left out
  minter,     \* the inviter of the token of a room, None: not minted or revoked
  attr,       \* mp_invite_attributions; the rejected ones count for nothing
  buffs,      \* mp_pending_buffs, in the order of their ids
  now, games, joins,
  real, used  \* history: rounds guessed in, matches a bonus was used for

vars == <<status, players, minter, attr, buffs, now, games, joins, real, used>>

NoAttribution == [state |-> None]
Deleted       == [state |-> "deleted"]
Alive(a)   == attr[a].state \in {"pending", "earned"}
Inviter(a) == attr[a].inviter
Key(p)     == IF UserOf[p] # None THEN <<"u", UserOf[p]>> ELSE <<"v", VisitorOf[p]>>

Grant(source)      == IF source = "invite_host" THEN HostMatches ELSE JoinerMatches
Multiplier(source) == IF source = "invite_host" THEN 125 ELSE 110
Buff(p, source, a, matches) ==
  [who |-> p, source |-> source, attr |-> a, left |-> matches, expires |-> now + BuffTTL]
Reaches(row, p) ==
  \/ VisitorOf[row.who] = VisitorOf[p]
  \/ UserOf[p] # None /\ UserOf[row.who] = UserOf[p]
Active(row) == row.left > 0 /\ row.expires > now

Init ==
  /\ status = [r \in Rooms |-> None] /\ players = [r \in Rooms |-> {}]
  /\ minter = [r \in Rooms |-> None]
  /\ attr = [a \in Attributions |-> NoAttribution] /\ buffs = <<>> /\ now = 0 /\ games = 0 /\ joins = 0
  /\ real = [a \in Attributions |-> 0]
  /\ used = [a \in Attributions |-> [s \in {"invite_host", "invite_joiner"} |-> 0]]

(***************************************************************************)
(* Tokens.                                                                 *)
(***************************************************************************)
MintInviteToken(r, p) ==
  /\ p \in players[r] \cap Hosts /\ minter[r] = None
  /\ minter' = [minter EXCEPT ![r] = p]
  /\ UNCHANGED <<status, players, attr, buffs, now, games, joins, real, used>>

RevokeInviteToken(r, p) ==
  /\ minter[r] # None /\ VisitorOf[p] = VisitorOf[minter[r]]
  /\ minter' = [minter EXCEPT ![r] = None]
  /\ UNCHANGED <<status, players, attr, buffs, now, games, joins, real, used>>

(***************************************************************************)
(* Joining, with the token of room t in a cookie or with none.             *)
(***************************************************************************)
MayJoin(r, p) ==
  /\ status[r] = "open"
  /\ \A q \in players[r] :
       IF UserOf[p] # None THEN UserOf[q] # UserOf[p] ELSE VisitorOf[q] # VisitorOf[p]

\* The pair counts once per window, whatever rooms and tokens it used.
EarnedOnly(i, p) == \E a \in Attributions :                           \* mutant
  /\ attr[a].state = "earned" /\ VisitorOf[Inviter(a)] = VisitorOf[i]
  /\ Key(attr[a].joiner) = Key(p) /\ attr[a].created > now - PairDedup
PairSeen(i, p) == \E a \in Attributions :
  /\ Alive(a) /\ VisitorOf[Inviter(a)] = VisitorOf[i]
  /\ Key(attr[a].joiner) = Key(p) /\ attr[a].created > now - PairDedup

\* The daily cap of a host, as high as the weekly one, refuses nothing more.
EarnedSince(window) ==
  {a \in Attributions : attr[a].state = "earned" /\ attr[a].earned > now - window}
CapReached(i, p) ==
  \/ Cardinality({a \in EarnedSince(Week) : VisitorOf[Inviter(a)] = VisitorOf[i]}) >= HostCap
  \/ Cardinality({a \in EarnedSince(Day) : IpOf[attr[a].joiner] = IpOf[p]}) >= IpCap

Accepted(t, p) ==
  /\ minter[t] # None
  /\ VisitorOf[p] # VisitorOf[minter[t]] /\ IpOf[p] # IpOf[minter[t]]
  /\ p \notin NewAccounts
  /\ ~PairSeen(minter[t], p)
  /\ ~CapReached(minter[t], p)

\* The row names the room of the token, which need not be the one joined.
AttributeJoin(a, r, t, p) ==
  /\ attr[a] = NoAttribution /\ \A b \in Attributions : b < a => attr[b] # NoAttribution
  /\ attr' = [attr EXCEPT ![a] =
       [state |-> "pending", room |-> t, seat |-> r, inviter |-> minter[t], joiner |-> p,
        rounds |-> 0, created |-> now, earned |-> now]]

JoinRoom(r, p) ==
  /\ MayJoin(r, p) /\ joins < MaxJoins /\ joins' = joins + 1
  /\ players' = [players EXCEPT ![r] = @ \cup {p}]
  /\ \/ UNCHANGED attr                     \* no token, or one that is refused
     \/ \E t \in Rooms, a \in Attributions : Accepted(t, p) /\ AttributeJoin(a, r, t, p)
  /\ UNCHANGED <<status, minter, buffs, now, games, real, used>>

CreateRoom(r, p) ==
  /\ status[r] = None /\ p \in Hosts
  /\ status' = [status EXCEPT ![r] = "open"]
  /\ players' = [players EXCEPT ![r] = {p}]
  /\ UNCHANGED <<minter, attr, buffs, now, games, joins, real, used>>

\* The host kicks others, who may come back as other players.  A guess of the
\* running round outlives the kick: its attribution keeps the seat until the
\* round ends.
Unseated(r, gone) ==
  [a \in Attributions |->
     IF attr[a].state = "pending" /\ attr[a].seat = r /\ attr[a].joiner \in gone
       THEN [attr[a] EXCEPT !.seat = None] ELSE attr[a]]
KickPlayer(r, p) ==
  /\ p \in players[r] \ Hosts
  /\ players' = [players EXCEPT ![r] = @ \ {p}]
  /\ \/ attr' = Unseated(r, {p})
     \/ status[r] = "playing" /\ UNCHANGED attr
  /\ UNCHANGED <<status, minter, buffs, now, games, joins, real, used>>

StartRound(r) ==
  /\ status[r] = "open" /\ players[r] # {} /\ games < MaxGames
  /\ status' = [status EXCEPT ![r] = "playing"]
  /\ UNCHANGED <<players, minter, attr, buffs, now, games, joins, real, used>>

(***************************************************************************)
(* The end of a round: guessers are the players whose guess is their own,  *)
(* not the one inserted when the time is up.                               *)
(***************************************************************************)
Everybody(r, guessers) == People                                      \* mutant
RealGuessers(r, guessers) == guessers \cup (People \ players[r])

\* The attributions of this room whose player, kicked since or not, guessed.
Counted(r, guessers) ==
  {a \in Attributions : attr[a].state = "pending" /\ attr[a].room = r /\ attr[a].seat = r
                        /\ attr[a].joiner \in RealGuessers(r, guessers)}

\* The guesses of other players are not looked at.
Awaited(r) ==
  {p \in players[r] : \E a \in Attributions :
     attr[a].state = "pending" /\ attr[a].seat = r /\ attr[a].joiner = p}
OneMore(a)   == attr[a].rounds >= TriggerRounds                       \* mutant
Completes(a) == attr[a].rounds + 1 >= TriggerRounds

RecordRoundCompleted(a) ==
  IF Completes(a)
    THEN [attr[a] EXCEPT !.rounds = @ + 1, !.state = "earned", !.earned = now, !.seat = None]
    ELSE [attr[a] EXCEPT !.rounds = @ + 1]

Pay(rows, a) ==
  rows \o << Buff(Inviter(a), "invite_host", a, HostMatches),
             Buff(attr[a].joiner, "invite_joiner", a, JoinerMatches) >>
WithEarned(rows, as) == FoldLeft(Pay, rows, SetToSeq({a \in as : Completes(a)}))

Recorded(r, guessers) ==
  /\ attr' = [a \in Attributions |->
       LET row == IF a \in Counted(r, guessers) THEN RecordRoundCompleted(a) ELSE attr[a] IN
       IF attr[a].state = "pending" /\ attr[a].seat = r /\ attr[a].joiner \notin players[r]
         THEN [row EXCEPT !.seat = None] ELSE row]
  /\ real' = [a \in Attributions |->
       IF /\ attr[a].state = "pending" /\ attr[a].seat = r /\ attr[a].room = r
          /\ attr[a].joiner \in guessers \/ attr[a].joiner \notin players[r]
         THEN real[a] + 1 ELSE real[a]]

EndRound(r, guessers) ==
  /\ status[r] = "playing" /\ guessers \subseteq Awaited(r)
  /\ status' = [status EXCEPT ![r] = "open"]
  /\ Recorded(r, guessers)
  /\ buffs' = WithEarned(buffs, Counted(r, guessers))
  /\ UNCHANGED <<players, minter, now, games, joins, used>>

\* applyBuffs: the bonus with the highest multiplier, the oldest first.
Candidates(rows, p) == {i \in DOMAIN rows : Reaches(rows[i], p) /\ Active(rows[i])}
Better(rows, i, j) ==
  \/ Multiplier(rows[i].source) > Multiplier(rows[j].source)
  \/ Multiplier(rows[i].source) = Multiplier(rows[j].source) /\ i <= j
Best(rows, p) == CHOOSE i \in Candidates(rows, p) : \A j \in Candidates(rows, p) : Better(rows, i, j)
UsedOnce(rows, i) ==
  IF rows[i].left = 1 THEN RemoveAt(rows, i) ELSE [rows EXCEPT ![i].left = @ - 1]

\* The ledger of a match: the rows, and which bonuses were used.
ApplyBuffs(ledger, p) ==
  IF Candidates(ledger.rows, p) = {} THEN ledger
  ELSE LET i == Best(ledger.rows, p) IN
       [rows |-> UsedOnce(ledger.rows, i), taken |-> Append(ledger.taken, ledger.rows[i])]
SaveToLeaderboard(rows, standings) ==
  FoldLeft(ApplyBuffs, [rows |-> rows, taken |-> <<>>], standings)

HasPublic(row, p) == row.source = "public_game" /\ Active(row) /\ Reaches(row, p)
GrantPublicGameBuff(rows, p) ==
  IF \E i \in DOMAIN rows : HasPublic(rows[i], p) THEN rows
  ELSE Append(rows, Buff(p, "public_game", None, 1))
Granted(r, rows, standings) ==
  IF r \in Public THEN FoldLeft(GrantPublicGameBuff, rows, standings) ELSE rows

GrantFirst(r, rows, standings) ==                                     \* mutant
  SaveToLeaderboard(Granted(r, rows, standings), standings)
LastWrites(r, rows, standings) ==
  LET saved == SaveToLeaderboard(rows, standings)
  IN  [saved EXCEPT !.rows = Granted(r, saved.rows, standings)]

TimesUsed(taken, a, s) == Cardinality({i \in DOMAIN taken : taken[i].attr = a /\ taken[i].source = s})

\* The last round: paying, then consuming, then the bonus of a public lobby.
FinishGame(r, guessers, standings) ==
  /\ status[r] = "playing" /\ guessers \subseteq Awaited(r)
  /\ games < MaxGames /\ games' = games + 1
  /\ standings \in SetToSeqs(players[r])
  /\ status' = [status EXCEPT ![r] = "finished"]
  /\ Recorded(r, guessers)
  /\ LET written == LastWrites(r, WithEarned(buffs, Counted(r, guessers)), standings) IN
     /\ buffs' = written.rows
     /\ used' = [a \in Attributions |->
          [s \in DOMAIN used[a] |-> used[a][s] + TimesUsed(written.taken, a, s)]]
  /\ UNCHANGED <<players, minter, now, joins>>

PlayAgain(r) ==
  /\ status[r] = "finished" /\ games < MaxGames
  /\ status' = [status EXCEPT ![r] = "open"]
  /\ UNCHANGED <<players, minter, attr, buffs, now, games, joins, real, used>>

(***************************************************************************)
(* Deletion of a room that is deserted or stale; finished rooms are kept.  *)
(* Its token, its attributions and their bonuses go with it.               *)
(***************************************************************************)
Surviving(rows, gone) ==
  FoldLeft(LAMBDA kept, row : IF row.attr \in gone THEN kept ELSE Append(kept, row), <<>>, rows)
Cascaded(r) == {a \in Attributions : Alive(a) /\ attr[a].room = r}
DeleteRoom(r) ==
  /\ status[r] \in {"open", "playing"}
  /\ status' = [status EXCEPT ![r] = "deleted"]
  /\ players' = [players EXCEPT ![r] = {}]
  /\ minter' = [minter EXCEPT ![r] = None]
  /\ attr' = [a \in Attributions |->
       IF a \in Cascaded(r) THEN Deleted ELSE attr[a]]
  /\ buffs' = Surviving(buffs, Cascaded(r))
  /\ real' = [a \in Attributions |-> IF a \in Cascaded(r) THEN 0 ELSE real[a]]
  /\ used' = [a \in Attributions |-> IF a \in Cascaded(r) THEN [s \in DOMAIN used[a] |-> 0] ELSE used[a]]
  /\ UNCHANGED <<now, games, joins>>

\* While nothing is recorded, nobody can tell the time.
Tick ==
  /\ buffs # <<>> \/ \E a \in Attributions : Alive(a)
  /\ now < MaxTime /\ now' = now + 1
  /\ UNCHANGED <<status, players, minter, attr, buffs, games, joins, real, used>>

Next ==
  \/ \E r \in Rooms, p \in People :
       \/ MintInviteToken(r, p) \/ RevokeInviteToken(r, p)
       \/ CreateRoom(r, p) \/ JoinRoom(r, p) \/ KickPlayer(r, p)
  \/ \E r \in Rooms :
       \/ StartRound(r) \/ PlayAgain(r) \/ DeleteRoom(r)
       \/ \E guessers \in SUBSET Awaited(r) :
            \/ EndRound(r, guessers)
            \/ \E standings \in SetToSeqs(players[r]) : FinishGame(r, guessers, standings)
  \/ Tick

Spec == Init /\ [][Next]_vars

Sources  == {"invite_host", "invite_joiner", "public_game"}
AttrType == {NoAttribution, Deleted} \cup
  [state : {"pending", "earned"}, room : Rooms, seat : Rooms \cup {None}, inviter : People,
   joiner : People, rounds : 0 .. TriggerRounds, created : 0 .. MaxTime, earned : 0 .. MaxTime]
RowType  ==
  {row \in [who : People, source : Sources, attr : Attributions \cup {None}, left : Nat, expires : Nat] :
     row.left \in 1 .. Grant(row.source)}

TypeOK ==
  /\ status \in [Rooms -> {None, "open", "playing", "finished", "deleted"}]
  /\ players \in [Rooms -> SUBSET People] /\ minter \in [Rooms -> People \cup {None}]
  /\ now \in 0 .. MaxTime /\ games \in 0 .. MaxGames /\ joins \in 0 .. MaxJoins
  /\ attr \in [Attributions -> AttrType] /\ buffs \in Seq(RowType)
  /\ real \in [Attributions -> 0 .. TriggerRounds]
  /\ used \in [Attributions -> [{"invite_host", "invite_joiner"} -> Nat]]
  /\ \A a \in Attributions : \A s \in DOMAIN used[a] : used[a][s] <= Grant(s)
=============================================================================
