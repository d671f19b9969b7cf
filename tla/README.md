# Price Games: formal model

TLA+ modules, TLC configurations and TLAPS proofs for the server of Price Games
(`src/`, a TypeScript monorepo). The core of the system is its multiplayer server:
rooms whose state is spread over SQLite rows, in-memory maps, timers and sockets,
written by socket handlers, timer callbacks and periodic jobs. Around it are modelled
the single-player games, the giveaway, the invite bonuses, the accounts, the push
notifications and the learner of the streamer bot. Paths below are relative to `src/apps/server/src/` unless
they start with `docs/` or `packages/`.

## 1. The system

| Component | State it keeps | Operations | Hard parts |
|---|---|---|---|
| Multiplayer rooms (`services/roomManager.ts`, `mpReconnect.ts`) | rows of `mp_rooms`, `mp_players`, `mp_guesses` | create, join, rejoin, leave, kick, settings, bots, Play Again, reaping, stale-room cleanup | a join awaits bcrypt between check and insert; the host role is kept in two places; jobs run beside handlers |
| Round engine (`mpRoundStart.ts`, `mpGuess.ts`, `mpRoundEnd.ts`, `mpTimerState.ts`) | room status and round, guess rows; in-memory round timer, round-ended flag, continue and ready votes | start, guess, end, vote | timer, last guess and departure race to end a round; a crash loses the memory half of the state |
| Game and room handlers (`socket/gameHandlers.ts`, `roomHandlers.ts`, `handlers.ts`, `disconnectHandler.ts`) | none of their own | one handler per event; they string the services together | the order of the calls, what is done before authorization, which paths forget to cancel timers |
| Socket presence (`socket/socketState.ts`) | socket -> player maps, disconnect-grace timers, a TTL sweep | connect, disconnect, rejoin, evict | grace timer against rejoin; evictions the database never hears of |
| Bots (`services/botScheduler.ts`, `botGuess.ts`) | pending guess and vote timers | schedule, cancel | timers outliving their round; bot rows replaced under them |
| Bidding mode (`mpBidding.ts`, `mpBiddingState.ts`, second half of `gameHandlers.ts`) | order, turn, bids, turn timer | bid, time out, open, close | no round timer: every turn must arm the next; two timers nobody can cancel |
| Auto-lobbies (`services/autoLobby/`) | public rooms of bots, a countdown column | spawn, churn, countdown | population band, countdown against starts by hand |
| Periodic jobs (`index.ts`) | none | reap and clean up (60 s), countdowns (2 s), lobbies (30 s) | they see any intermediate state |
| Single-player games (`gameSession.ts`, `gameGuess.ts`, `gameHints.ts`, `routes/game.ts`) | `game_sessions`, `game_rounds`; hints and fetch times in memory | start, guess, hint, finish | a guess is six writes without a transaction; double submits |
| Daily challenge (`dailyPuzzle.ts`, `dailyClaim.ts`, `dailyStreak.ts`, `routes/daily.ts`) | one puzzle per day, `daily_plays`, streak columns of `users` | play, claim on login, decay | once a day over accounts, browsers and daily rooms; sessions that cross midnight or a login |
| Histories and credit (`userGameHistory.ts`, `gameHistoryClaim.ts`) | `user_game_history`, `users.lifetime_score` | record a game, claim on login | the same game recorded by its last guess, retries and claims |
| Giveaway (`rewards.ts`, `adminUsers.ts`) | `reward_pool`, `reward_awards`; a batch of e-mails in memory | add, draw, confirm, discard, claim, sweep | status and award rows in separate writes; e-mails after the commit; accounts erased underneath |
| Invite bonuses (`inviteRewards.ts`, `mpRoundEnd.ts`) | attributions, pending bonuses | mint, attribute on join, count rounds, pay, use up | pay once; caps compared with what is earned, not with what is pending; rooms deleted underneath |
| Accounts (`userAuth.ts`, `authHelpers.ts`, `oauth.ts`, `adminAuth.ts`, `adminTotp.ts`, `referrals.ts`) | users, administrators, sessions, lockouts, links, used codes | register, log in, verify, reset, second step | lockout counted from a row read before; several commits per handler; old links and codes |
| Ghost users (`services/ghostUsers/`) | simulated users and shifts | shift, credit, retire | caps |
| Push notifications (`notificationScheduler.ts`, `pushNotification.ts`, `leaderboardPlacementNotifications.ts`) | `scheduled_notifications`, `notification_log`, placement slots | queue, drain, daily batch, placements | the scheduler waits for the push service while everything else goes on |
| Learner of the streamer bot (`packages/bot-streamer/src/learning/`) | network weights in memory; snapshots in its own database | train, snapshot, reset, restart, warm start | which snapshot survives crashes, resets and restarts of the worker |
| E-mail, analytics, administration, universe, pipeline | queues, event log, content | SQL reports, external services | otherwise plain I/O |
| Rest of the streamer bot, web client, extension | own process or browser | clients of the server | speech queue, reconnect |

How they interact: a socket event reaches a handler, which finds player and room
through the presence maps, calls the services (which read and write SQLite
synchronously) and broadcasts. Services arm timers whose callbacks are handlers
again. Jobs call the same services. All of it runs on one Node event loop, so the
unit of interleaving is one callback, or the stretch between two `await`s. The
database survives a restart; maps, timers and sockets do not.

What makes it correct: a round is settled exactly once and in order, with one row
per player; answers are final; scores equal the recorded answers; one host, the same
in both places; never more players than seats; everybody with a socket counts as
present and everybody gone for good eventually does not; a round always has
something that will end it; an abandoned room is archived or deleted. Outside rooms: one
daily play per date, account and browser; streaks backed by plays; completed sessions
played in full; lifetime scores equal to the history they summarise; a gift code goes to
one account and an e-mail never says what is not so; an invitation is earned by playing
and paid once; wrong passwords lock in time, links verify only the address they were sent
to, one-time codes work once (within a window); a reminder comes in time and once; what was learnt survives.

## 2. Modules

| Module | What it is |
|---|---|
| `RoomContract` | What a room promises whatever happens: rounds are played and settled one by one, settings change only between them, a finished game is never thrown away. |
| `MPRoom` | The detailed model of one room in the modes with a round timer: rows, memory, sockets, every handler, timer and job. |
| `MPRoomProps` | Its properties, and what the documentation claims of it. |
| `MCMPRoom` | TLC view and symmetry for it. |
| `MPRoomProofs` | TLAPS: type correctness, seven safety theorems, two action properties, and that `MPRoom` implements `RoomContract`. |
| `BiddingRound` | Rounds of the bidding mode, with the room around them as environment. |
| `MCBiddingRound` | TLC symmetry for it. |
| `BiddingProofs` | TLAPS: type correctness, three safety theorems and `RoomContract` for `BiddingRound`. |
| `SoloPlay` | Single-player sessions, the daily challenge, streaks, claims and credits, over accounts and browsers. |
| `SoloPlayProps` | Its properties, and what the documentation claims of it. |
| `MCSoloPlay` | TLC symmetry for it. |
| `SoloPlayProofs` | TLAPS: type correctness and five safety theorems about `SoloPlay`. |
| `Giveaway`, `GiveawayProps`, `MCGiveaway` | Gift codes from the pool to their winners. |
| `GiveawayProofs` | TLAPS: type correctness and five safety theorems. |
| `Invites`, `InvitesProps`, `MCInvites` | Invite and public-lobby bonuses, over several rooms. |
| `InvitesProofs` | TLAPS: type correctness and three safety theorems. |
| `Accounts`, `AccountsProps`, `MCAccounts` | The life of one account of a player or an administrator. |
| `AccountsProofs` | TLAPS: type correctness and four safety theorems. |
| `PushChannel`, `PushChannelProps`, `MCPushChannel` | Web push: reminders, the daily batch, placements. |
| `PushChannelProofs` | TLAPS: type correctness and four safety theorems. |
| `BotLearner`, `BotLearnerProps`, `MCBotLearner` | The streamer bot's learner and its snapshots. |
| `BotLearnerProofs` | TLAPS: type correctness and three safety theorems. |

### MPRoom

One action is one uninterrupted turn of the event loop. `joinRoom` is the only
handler that awaits (bcrypt) between reading and writing room state and so is two
actions, `JoinChecked` and `JoinSeats` or `JoinRejected`.

* `status, round, total, host, botCount, countdown` are columns of `mp_rooms`
  (`gone`: no row). `seated, kicked, online, hostRows, score` are `mp_players`: the
  rows, `is_kicked`, `connected`, `is_host`, `total_score`. `answered` and `missed` are
  the rows of `mp_guesses`, submitted ones and the zero rows `endRound` inserts.
* `timer, ended, cont, ready` are the maps of `mpTimerState.ts`; `botGuess` and
  `botCont` the pending timers of `botScheduler.ts` (a guess timer remembers the
  round it was scheduled in).
* `live` are the players with a socket entry, `grace` those with a pending
  disconnect timer, `joining` the joins waiting for bcrypt.
* `game, settled, wiped, faults` are history: games started, rounds settled in this
  game, whether the running round lost its timer to a restart or a refused Play
  Again, failures so far. `countdown` holds the number of games started when it was
  set instead of a time.
* Abstracted: a guess scores one point (so that sums can be told from counts of
  rows), products, names, tokens, passwords and the wording of errors are left out,
  times are untimed (a timer may fire at any moment after it was armed), the idle
  times of `cleanupStaleRooms` become `Quiet`: nothing else of the room is pending.
  A human keeps one player id; a person who comes back as a new player is another
  human.

Failures: `Restart` loses everything in memory, `CrashInRoundEnd` stops between
`endRound`'s claim and its transaction, `EvictSocket` is the TTL sweep. Lost or
repeated client messages are covered, since every request may come at any time, any
number of times, or never.

### BiddingRound

`open, order, turn, turnTimer` are the `BiddingRoundState` of a room. The turn timer
records whom it was armed for. The 3 s timer of `triggerPostRoundStart` and the 1.5 s
timer of `scheduleBiddingRoundEnd`, which the code keeps no handle of, are members of
`opening` and `closing`, named by the game and round they were armed in. Starting, joining,
kicking, bot removal, Play Again, deletion and restart are environment steps with the
guards `MPRoom` gives them. Amounts are left out: the properties are about who bids
when, not what. A join is two steps, as `joinRoom` checks the status before it awaits the
password's comparison and not again in its transaction: `joining` are the players in
between, `late` (history) those seated since the current round started, who are not in its
order. Not modelled: `game:submit_guess` sent in a bidding room. The web client
sends `game:submit_bid` there, but `submitGuess` (`mpGuess.ts:39`) does not look at the
mode: its row makes the insert of the closing fail, as a removed bot does.

### SoloPlay

One action is one request, which runs without interruption, or a prefix of its writes when
the server stops in the middle: nothing wraps the writes of a guess in a transaction.

* `owner, device, day, round, total, done` are the columns of `game_sessions` (`user_id`,
  `visitor_id`, `daily_date`, `current_round`, `total_score`, `completed_at`), `guessed` the
  rows of `game_rounds`. `plays, playUser, finished` are `daily_plays`: the rows, `user_id`,
  `completed_at`; a play has the id of its session. `streak` are the three streak columns of
  `users`, `history` and `lifetime` the history rows and `lifetime_score`. `login` is who is
  logged in on each browser, `today` the UTC date.
* `GuessWrites(v, s, n)` are the first `n` of the six writes of a guess, in the code's order:
  the play (first guess of a daily), the round, the session, the streak, the end of the play,
  the credit by the route. `Guess` does all, `CrashInGuess` stops earlier, `GuessRejected`
  is a malformed first guess, refused after its play was inserted.
* A daily room is seen from its seats: an id with `round = 0` is the seat of a player, whose
  `owner` is the login it was taken with. `DailyRoomEnds` is `recordDailyPlaysForRoom` for
  one seat, with or without (a crash) the streak.
* `Login` is the pair of claims that login, registration and the OAuth callback all run;
  `CrashInLogin` stops between them. `DecayStaleStreaks` runs at any time; the scheduler owes
  no promptness that a property depends on.
* Abstracted: a guess scores one point; game modes, products, hints, the server-side time-out
  (it changes a score, never control), win records, rank snapshots and reminders are left
  out. A session id is known to the browser that started it, and every browser has its
  `visitor_id` cookie (without one, `daily_plays` has no device to be unique about, as
  `gameGuess.ts:244` says). Not modelled: administrators deleting plays or accounts
  (`adminDaily.ts:511`, `adminUsers.ts:277`; what the latter does to awards is in
  `Giveaway`).

### Giveaway

* `pool` is the status column of `reward_pool`; `rows, of, to, entrants, pending, claimed,
  voided, left, reminded` are `reward_awards`: the rows and their columns. `users` are the
  accounts there are; `consoling` is the batch of consolation e-mails, which lives in memory.
  `age, mails, consoled, revealed, faults` are history.
* `left` counts periods of the 30-day window, cut where reminders are due (15, 7 and 1 days
  before its end), so `Window = 4`. `TimePasses` needs the sweep to have nothing to do: it
  runs on boot and every hour, a period lasts days. `Outage` is a server that is down for a
  whole period.
* A handler is one step when it commits before it awaits anything: `PreviewRandomRoll` (any
  qualifying account may win; how the tickets weigh is left out), `ClaimReward` (by the id,
  which also looks at the status) and `ClaimRewardByToken` (which does not).
  `ConfirmPendingAward` commits, mails the winner and starts the batch; `CrashInConfirm`
  stops after the commit. `SweepWrites(stamped, told)` is the sweep up to some e-mail;
  `RewardSweepTick` is all of it and `CrashInSweep` a prefix.
* `DeleteUser` erases the account with its awards and leaves the pool alone.

### Invites

* `status, players` are the rooms, as far as bonuses depend on them: `MPRoom` says who may do
  what when; here any host mints, any round may end at any time, and `EndRound` and
  `FinishGame` take the players who guessed themselves as a parameter.
* `minter` is the token of a room (a token stands in the guest's cookie, so a join of room
  `r` may bring that of another room `t`), `attr` the rows of `mp_invite_attributions`,
  `buffs` those of `mp_pending_buffs` in the order of their ids. `real` and `used` are
  history: rounds guessed in, matches a bonus was used for.
* `FinishGame` keeps the order of `mpRoundEnd.ts`: count and pay the round's invitations, use
  up one bonus per player on the leaderboard, grant the bonus of a public lobby.
* `DeleteRoom` is the cascade: token, attributions and their bonuses go with the room.
* Abstracted: a person is a browser (`VisitorOf`), an address (`IpOf`) and perhaps an account;
  scores, the multipliers' effect and the rejected rows kept for statistics are left out.
  Windows are counted in units of the clock `now`.

### Accounts

* One account, of `users` or of `admin_users`: accounts meet only where names must be unique,
  and a refusal for that leaves no trace. `account, fails, lock, sessions, email, verified,
  hasPassword, provider, unnamed, links, resetLink, referral` are its columns and the rows
  that refer to it; `totp, lastUsed, recovery, pending` those of the second step. `wrong,
  proved, edited, uses` are history.
* Handlers are synchronous and so one step; `Register`, `ChangeEmail`, `VerifyAndEnableTotp`
  and `DisableTotp` take how many of their commits were made. Expiry of locks, links,
  sessions and pending tokens may come at any time. Only the windows of one-time codes are
  counted (`now`), since a code is valid in three of them. The code reads the clock twice, to
  validate the code and to compute the counter it compares and stores (`adminTotp.ts:346`,
  `350`): any number of windows may begin in between (`WindowsBegin`). The clock is assumed
  not to be set back.
* `edited` excepts what the code leaves open: an administrator's `updateUser` keeps the
  verified flag and the links, and a crash in `changeEmail` keeps the old links.

### PushChannel

* `last, alive, plays, on, sub` are columns of the user, the plays, the preferences and the
  subscription; `queue` the pending streak reminders of `scheduled_notifications`, `logged`
  the log row that keeps the daily batch from running twice, `best` the placement slot.
* `stage, todo, flight, yesterday` are the local variables of the scheduler's tick. It
  yields only while it waits for the push service (`flight`), so the actions of users are
  enabled when it is idle or waiting (`Yielded`), and see whatever it has read become stale.
* A day has `DayLength` slots; the scheduler ticks many times in a slot, hence `TimePasses`
  needs it idle with nothing due. `Stall` lets a slot pass while the push service hangs,
  `Crash` loses the tick.
* A play and the streak move together only as far as the code moves them together. A session
  of one's own (`PlayDaily`) moves the streak, replaces the reminder and completes the play in
  separate commits, a room (`PlayInRoom`) completes the play and then moves the streak, letting
  a failure pass; `CrashInGame` cuts either off. `ClaimPlays` takes over several days of a guest
  and moves the streak only forwards; a play claimed while its session is open is finished
  without the streak (`FinishClaimed`). A session may be of any earlier day.
* `warned, greeted, told, troubled, belated` are history, all but `told` of the present day.
  `troubled` are the users whom a push failed to reach or was refused to (quiet hours, no
  subscription), or who changed preferences or subscription, and everybody when the scheduler
  hung; `belated` those whose streak was set to an earlier day.
* Abstracted: one subscription and one leaderboard per user, texts, the limit of 50 rows per
  drain, ticks that find nothing to do.

### BotLearner

* The bridge of the bot's process (`proc`, `restarting`), the worker's core in one record
  (`stage`, `db`, number of rounds, the gate's window `ring`, ...), and the tables
  `nn_snapshots` (`rows`) and `nn_snapshots_archived` (`archived`, of which only the newest
  row is ever read, and of it what `Filed` keeps). `main.ts` passes no worker script, so the worker runs in the bot's own
  process and event loop: that transport is the one modelled.
* Weights are abstracted to the error on the golden set (a number of `Errors`, or `Broken`: some
  price is predicted as NaN) and to `stale`, whether they descend from a model that a reset
  discarded. Numbers are compared as the gate compares them, with the median, the factor of 1.2
  and the floor of a cent. Whether the worker found its golden set (`golden`, `ReadGoldenSet`) is
  open at every start; without it the gate lets every snapshot pass and remembers nothing. Whether a step trains, diverges or begins a storm, whether the model was idle,
  and whether the disk was full at the last check are nondeterministic.
* `saved` and `misfiled` are history. `misfiled` excepts a reset whose archiving failed (the
  bridge swallows it) and snapshots of a core that had loaded nothing.
* Abstracted: a snapshot is saved and the old ones pruned in one step, and `archiveAll` moves the
  rows in one, though the code commits the `INSERT` and the `DELETE` one by one: a crash between
  them is not modelled. Also left out: a save that throws, and the optimizer, buffers and
  normalizer that go with the weights.

## 3. Runs

| Run | Bounds | What it shows |
|---|---|---|
| `room_game` | 2 humans, 1 bot, 2 seats, 1 to 2 rounds (settings may change it), 2 games | Without failures: scores match the answers, seats are respected, a played round has what will end it, settled rounds are complete, and the room keeps `RoomContract`. Three players for two seats make joins, bot configuration and Play Again compete for seats; two games let what the first leaves behind reach the second. |
| `room_faults` | 2 humans, 1 bot, 3 seats, 2 rounds, 1 game, 1 failure | With a restart, a crash inside `endRound` or an eviction anywhere: one host in both places, sockets belong to connected players, rounds settle in order, answers are final. |
| `room_live` | 2 humans, 1 to 2 rounds (settings may change it), 1 game (Play Again only before the first start), 1 failure, fair | A timed round ends, abandoned rooms settle, also those stuck between rounds because `total_rounds` was lowered, and without failures the host role recovers. |
| `bidding` | 2 humans, 1 bot, 2 rounds, 2 games, 1 restart, fair | Turn, opening and closing timers never get crossed, a round is always driven, its own closing times out nobody but players whose join straddled its start, and it ends though nobody bids. |
| `solo` | 2 accounts, 2 browsers, 2 sessions or seats, 3 days, 2 daily rounds, 1 free round, 1 crash | Once a day, streaks backed by plays, lifetime equal to history, plays final: under logins, logouts, claims, midnight and a crash anywhere. |
| `giveaway` | 2 accounts, 1 code, 2 awards, 1 crash, restart or outage, fair | The status of a code matches its awards, it is revealed to one account, e-mails are true and not repeated, nothing is taken back before its window is over, an announced award is claimed or its code returns to the pool, unless the winner's account is deleted. |
| `invites` | a host, a guest and the same browser logged in, 2 rooms, 2 attributions, 2 rounds to earn, caps of 1, windows of 1 period, 2 joins, 2 games | Every invitation is earned by playing and pays each side once, pairs stay a window apart, the bonus of a public lobby neither piles up nor is used up by the match that granted it. |
| `accounts` | 3 addresses (1 throw-away), limit of 3 wrong passwords, 3 sessions, 2 recovery codes, 2 pending tokens, 5 windows | The lock comes in time, verified addresses were proved, one-time codes work once except across a window boundary, referrals settle. |
| `push` | 1 user, 2 days of 6 slots and the first slot after, reminder after 5, 2 attempts, 2 places, 1 crash or stall, 2 changes of rank or preferences | One reminder pending, in time for whoever came into the day with a streak, has not played and could be reached, a puzzle announced once, slots kept only by announcements. |
| `learner` | snapshot every 2 rounds, 2 kept, window of 3, 3 rounds, 1 reset, 2 faults | A start resumes from the last snapshot, a reset is final from the next snapshot on, and where the golden set is there the gate keeps a working model from being replaced by a broken one, or by one that errs by over a fifth more than the worst working one kept. |
| `viol_timer` | 2 humans, 1 round | A refused Play Again takes the round's timer. |
| `viol_cap` | as `invites` | Two invitations pending together earn more than the cap. |

`MaxGames` bounds Play Again, `MaxFaults` the failures together. Two rounds are enough for
what one round leaves to the next (votes, flags, bot timers, rows), two games for what Play
Again leaves; a third adds no new kind of leftover because both starts reset the same
variables. In `solo`, two plays are what a uniqueness or a conflict takes, and three days let
a streak grow, be left and be decayed; two daily rounds tell the first guess from the last,
one free round makes them coincide. In `giveaway` the second award is the same code drawn
again after it came back. In `invites` one person is two players (a guest, and logged in), so
that two attributions can be of one pair, of two, and of one player who came back; windows of
one period are the smallest that pass. In `accounts` the limits are 3 instead of the
configured 5: the count has a start, a middle and an end; five windows let codes of three
neighbouring windows be accepted, skipped and repeated. In `push` reminders of different users
never touch each other's rows, so one user is enough; a retry may fall into the quiet slot or
the next day. In `learner` three rounds give a snapshot, a pruned one and one that overtakes;
the interval, the window and the number of kept rows are 100, 5 and 3 in the code, here 2, 3
and 2, which also keeps `Interval > 1` and `2 * Keep > Window`. The errors are 10 and 13 in
tenths of a cent: 13 is refused after 10, but not with a median of 11.5, so that the run has both
a refusal and the drift that the gate allows; the errors 5, 12 and 14 pass too.

All runs set `CHECK_DEADLOCK FALSE`: a deleted room is the end of the story, and so are the
last day, the last round and a claimed code.

`MCMPRoom!View` drops the ready votes outside the lobby and the continue votes before the
first round and after the last, where no action reads them before clearing them. The rooms of
`invites` are symmetric; `MCInvites!View` drops the tokens once no join is left, and public
bonuses that ran out. Runs with a liveness property use neither view nor symmetry.

Fairness: the server's timers, scheduled bots and periodic jobs run (they are Node
timers and intervals, and an interval keeps firing), a join that is past its password check
completes, and in `giveaway` the hourly sweep runs, a batch of e-mails once begun goes on, and
time passes. Players, winners and administrators owe nothing: no fairness on any request.

`AbandonedRoomSettles` assumes that nobody with a socket or a pending join remains, as
the cleanup's idle times do. `HostRoleRecovers` is limited to behaviours without
failures. With one it does not hold: `reapDisconnectedPlayers` (`roomManager.ts:875`)
takes a host offline whose socket was evicted or lost in a restart without handing the
role on, so the players present have no host until the creator returns or somebody
new joins.

Some properties except states a history variable names. `spoiled` (`BiddingRound`): a refused
Play Again, bots removed in mid-round, or a restart. `edited` (`Accounts`): an administrator
changed the address, or a crash kept old links. `belated`, `troubled` and `Stranded`
(`PushChannel`): the streak got yesterday's date only today, a push failed or was refused,
preferences changed or the server hung today, or a crash stranded a row; each is needed, without
it TLC finds a streak that ends unwarned. `misfiled` (`BotLearner`): the archiving of a reset failed, or a core that loaded nothing saved.

## 4. What the runs say about the documentation

The two violation runs check one statement of a document or comment each against the code;
`PROJECT.json` quotes them under `findings`. Other deviations met while modelling, which have
no run of their own:

Rooms and bidding

* `playerContinue` and `playerReady` (`mpTimerState.ts:39`, `97`) compare the number of marks
  with the number of connected players; marks of players who left or were kicked stand in for
  players who are there. `docs/WEBSOCKET_EVENTS.md:223`: "game:continue (each player)".
* `removeBots` (`roomManager.ts:1071`) deletes rows that `mp_guesses` refers to (`db.ts:106`,
  `foreign_keys` is on): between rounds it always fails. `roomManager.ts:757-758`: "The host
  can still remove bots manually between rounds via `removeBots`".
* Neither `startRound` nor `resetRoom` clears `countdown_target_at` (`roomManager.ts:784`): the
  countdown overtaken by ready marks starts the next game after Play Again, although
  `countdown.ts:107-109` looks for rooms that "haven't started a round yet".
* `scheduleBiddingRoundEnd` (`gameHandlers.ts:156`) keeps no handle of its timer: after Play
  Again it ends a round of the next game before everybody bid.
  `docs/WEBSOCKET_EVENTS.md:238`: "[repeat until all players have bid]".
* `joinRoom` (`roomManager.ts:432`) checks the status before the password's comparison only: a
  player may be seated in a running bidding round, is not in its order, never gets a turn, and
  is given a timed-out zero row at its end, against the same line and
  `roomManager.ts:433`: "Game is already in progress".
* `submitGuess` (`mpGuess.ts:56`) counts the rows of kicked players: the round may end
  before a connected player has answered (who then gets a zero row).
* `updateSettings` also works between rounds although `docs/WEBSOCKET_EVENTS.md:36` says
  "lobby only"; with fewer rounds than were played the room is stuck between rounds
  until Play Again. `removeBots` looks at no status at all.
* `startRound` forgets the continue votes before it checks who asks (`mpRoundStart.ts:53`).
* The reaper marks players offline inside the 15 s grace window, which
  `docs/ARCHITECTURE.md:370` says defers that.
* A round ended by a departure schedules no bot votes (`disconnectHandler.ts:76-88`): the
  present humans' votes are then too few until the reaper takes the bots offline.
* In a bidding round, removing the bots makes `finalizeBiddingScores` fail on a foreign
  key and the round never ends.
* `pickChurnTarget` ignores humans who are offline, `closeIdleAutoLobby` refuses their rooms:
  such a lobby is picked again and again.

Single-player games

* `updateStreakOnCompletion` (`dailyStreak.ts:106`): yesterday's daily finished after today's
  takes the last date back and the streak is lost, though no day was missed.
  `dailyStreak.ts:105`: "Either a missed day (gap >= 2) or same-date replay"; `docs/DAILY_MODE.md:66`:
  "Miss one UTC day".
* The guess route (`routes/game.ts:212`) credits `req.user` but leaves the session's `user_id`
  NULL: the next account that logs in on the browser is credited too.
  `docs/ARCHITECTURE.md:712-713`: "stamps the session's `user_id` so repeat logins don't re-claim".
* A malformed first guess of a daily uses up the day's attempt (`gameGuess.ts:247`, `275`):
  the play is inserted before the guess is looked at, and the retry collides with it.
* A daily play that is claimed while its session is still open belongs to the account, but
  its session has no `user_id`: finishing it moves no streak. On that day the user is not
  reminded either: `hasPlayedTodaysDaily` (`notificationScheduler.ts:228`) looks at plays only,
  and the streak breaks. So it does when a room's streak update fails (`mpRoundEnd.ts:776`).
* A session of an account that is finished while logged out is in no history: the route
  credits only `req.user`, and the claim only sessions without a `user_id`.
* `game_rounds.score` is written before a time-out sets the score to 0 (`gameGuess.ts:305`,
  `512`), so `per_round_scores` need not add up to `score`.

Giveaway and invites

* `deleteUser` (`adminUsers.ts:275`) erases the winner's awards and leaves the pool's status
  "awarded": the code is lost. `docs/ADMIN_GUIDE.md:139`: "Rewards not claimed by the deadline
  auto-revert to `available` and re-enter the pool." `OpenAwardSettles` excepts it (`Erased`).
* `deleteReward` fails on a foreign key once a reward was ever awarded, even if the award was
  voided; `docs/ADMIN_GUIDE.md:138`: "Remove unclaimed rewards".
* A crash after a confirmation or in the sweep loses the e-mails not yet sent.
* Deleting a room takes earned bonuses with it (`ON DELETE CASCADE`);
  `docs/MULTIPLAYER_INVITES.md:28`: "buffs only disappear when consumed (or 14 days after
  issue, the hard TTL)". A bonus earned in the last round may be used in the same match,
  though line 44 speaks of "a future match".
* An invitation taken with the token of one room into another never earns, and blocks the
  pair for its window.

Accounts

* After a lock ran out one wrong password locks again (`authHelpers.ts:89`: the count read
  before the reset); `docs/USER_ACCOUNTS.md:48`: "5 failed attempts triggers 15-minute lock".
* `PUT /password` on a locked account changes the password, ends all sessions and then refuses
  the new one; line 55 says it "invalidates all other sessions".
* Line 33 says disposable domains are blocked at registration; `createUser` does not look,
  only the crediting of a referral does.
* A one-time code can be accepted twice: if a 30-second window begins between `totp.validate`
  and the counter's own `Date.now()` (`adminTotp.ts:346`, `350`), the counter is one above the
  code's and passes the check. `adminTotp.ts:316`: "rejects codes with a counter <= the last
  used counter"; `docs/ARCHITECTURE.md:800`: "replay protection via counter". `CodesWorkOnce`
  says how far the protection goes.
* `updateUser` leaves `email_verified`, open links and sessions as they were.
* A crash in the registration loses the referral or the link; expired sessions count when the
  oldest are evicted.

Push and e-mail

* A crash after the last attempt leaves a row that is pending and never due: it keeps the user
  without reminders until the next single-player daily. Quiet hours use up the attempts.
* Releasing a placement slot deletes an earlier announced rank with it, so a lower place is
  announced afterwards; `leaderboardPlacementNotifications.ts:10-13`: only "strictly better".
* Daily games in rooms, and games claimed at a login, neither cancel nor replace the reminder.
  `yesterday` is computed once per drain, and stale across midnight.
* Yesterday's daily finished or claimed after midnight keeps a streak that ends the same day,
  but its reminder comes 20 hours later (`gameGuess.ts:573`, `notificationScheduler.ts:372`), the
  next day if it is after 4 a.m.: nobody is warned. `gameGuess.ts:577`: "Play today's puzzle to
  keep it alive!"
* One row in the log keeps the whole batch from running: after a crash in the middle the rest
  of the users hear nothing that day.
* E-mail, which is not modelled: two overlapping batches, or a crash between send and log,
  break the 24 hours between e-mails (`docs/EMAIL_NOTIFICATIONS.md`, cadence safeguards); the
  marketing batch always takes the same first 50 users; a streak e-mail is not checked again
  when it is sent.

Learner

* `main.ts:709-713`: "Boot failure (e.g. SQLite open error) is non-fatal: log, drop to
  heuristic-only operation". `bridge.start` posts the init without waiting and only logs the
  error: the core goes on predicting and training untrained, and, if its database had opened,
  saves snapshots that may outrank good ones.
* The gate holds models to 1.2 times the median of the last five accepted errors, not to a fixed
  limit: a model that gets worse slowly passes every time. Without `golden-eval.json`, or when it
  cannot be parsed, the gate is skipped and broken weights are saved too: `workerCore.ts:3030-3032`
  ("after a divergence, restarting the worker reloads a working model") holds only where the
  golden set is found, and `WorkingModelSurvives` says what it is worth there.
* A reset followed by a restart before the next snapshot starts from the archived weights it
  discarded: the warm start runs whenever no snapshot is found. `bridge.ts`: "start fresh
  from random init". `ResetIsKept` says from when on a reset holds.
* If archiving fails in a reset, the old rows outrank the new ones, which are pruned.
* A worker that fails to respawn is never tried again; rounds trained between the last
  snapshot of the old worker and the start of the new one are lost.

## 5. Proofs

Every safety invariant and every action property that a passing run checks is also a theorem,
for all values of the constants that the module's assumption admits; TLC evaluates each
assumption in the runs of its module. The modules prove in this order: an inductive invariant,
one lemma per handler (or group of handlers) that it is kept, the theorems.

`MPRoomProofs`, from `ConstantsOK` (disjoint finite sets of humans and bots, a human creator, at
least one seat, `1 <= MinRounds <= MaxRounds`):

* `TypeCorrect`: `TypeOK` always. It needs `round <= MaxRounds`, which holds since
  `startRound` claims a round only below `total`.
* `RoundsSettleInOrder` (`SettledInOrder`) and `PlayedRoundsHaveADriver`
  (`PlayingHasDriver`) follow from the inductive invariant `Lifecycle`, which ties
  status, round, settled, timer and flag together: the two properties alone are not
  inductive, since `endRound` looks at the flag first and the status second, and only
  both together tell which of its callers settles the round.
* `OneHost` (`HostRoleConsistent`) and `SocketsBelongToConnectedPlayers`
  (`LivePlayersAreConnected`) follow from `SeatsConsistent`: who is host depends on who is
  connected, that on who has a socket or a grace timer.
* `RoomIsNeverOverfull` (`CapacityRespected`) is inductive with the types: each way of taking a
  seat (a join after its await, bots replaced in the lobby, humans brought back by Play Again)
  looks at the seats in the same turn in which it takes them.
* `ScoresAreBacked` (`ScoresMatchAnswers`) and `NobodyHasTwoRows` follow from `RowsConsistent`. A
  seat is taken with the score 0, so sums stay sums only if nobody outside the room has rows; that
  a score is added once takes that a player has one row per round.
* `AnswersStayFinal` and `SettledRoundsAreComplete` are the action properties of `mp_guesses`:
  `StepKeepsRows` shows both for every action, whichever of the last guess, a vote, the timer
  and a departure settles the round.
* `RoomKeepsPromise`: every behaviour of `Spec` satisfies `RoomContract` under the mapping
  that takes `ending` to `playing` and `settled` to `done`.

`BiddingProofs`, from `BiddingConstantsOK` (disjoint finite sets, a human host, at least
one round and one game):

* `BiddingTypeCorrect`, `TurnTimersNeverCross` and `BiddingRoundsAreDriven` follow from the
  inductive invariant `IInv`. Its parts say which phases the room and the bidding state
  can be in together (`Phases`), that the order holds everybody in the room who was there at its start, and only
  seated players while nobody spoiled the round (`OrderHoldsRoom`), that no pending closing
  belongs to a round still to come (`TimersBelongToRounds`) and what drives a round in each
  phase (`Driven`). `RoundIsDriven` alone is not inductive: the closing timers have no handle,
  so it takes `TimersBelongToRounds` to know that a new round does not find one of its own
  name pending, and `Phases` that no bidding state is left over when it starts.
* `OnlyLatecomersAreTimedOut` is an action property proved from the same invariant: the closing
  of a round that was not spoiled is armed only after the last turn of the order, which holds
  everybody but the latecomers.
* `BiddingKeepsPromise`: the bidding mode implements the same `RoomContract` as the
  timed modes.

`SoloPlayProofs`, from `SoloConstantsOK` (at least one day and round, null values that are no
account, browser or date). `Users`, `Visitors` and `Sessions` may be infinite:

* `PlayedOncePerDay`, `CompletedGamesAreFull` and `PlaysStayFinal` follow from
  the inductive invariant `IInv`. `CompletedInFull` is not inductive: completing a session
  only says that its last round is reached, and it takes `RoundsRecorded` (every earlier
  round has its guess) to know the rest. `PlaysAreFinal` needs `FinishedIsDone`, since no
  guard looks at `finished`, and `finished \subseteq plays` needs `PlayIsCommitted`, since
  `submitGuess` finishes the play of a session without looking whether it was inserted.
* `LifetimeIsTheHistory` needs that finitely many sessions are complete (a sum over an infinite set
  would have no value) and that only those are in the history, since the score of another may
  still change (`CreditsAddUp`). A retry or a claim then finds its row there, or adds it together
  with its points.
* `StreaksAreBacked`: the replay of claimed days takes a streak to one that the days played back
  (`ReplayedBacked`); that days once backed stay so (`DaysDoneGrow`) needs `finished` to lose
  nothing and a play to keep its user. With these two, `SoloTypeCorrect`.

`GiveawayProofs`, from `GiveawayConstantsOK` (a null value that is no user, reward or status).
Users, codes and awards may be infinite:

* `GiveawayTypeCorrect`, `StatusMatchesAwards`, `CodesGoToOneAccount`, `OnlyLosersAreConsoled`
  and `NothingTakenBackEarly`. That a code goes to
  one account is not inductive by itself: `claimRewardByToken` does not look at the status, so it
  takes `PoolMatchesAwards` to know that the reward of an award still open is "awarded", while
  a code that was revealed is "claimed". `FullWindow` needs the time left and the age of a live
  award to add up to the window (`WindowAddsUp`).
* `MailsStayTrue` (`MailsAreTrue`) is inductive once a mailbox fits its award (`MailboxOK`): a
  reminder that was sent is stamped, "expired" is sent only when the award is taken back, an
  award under review has sent nothing, and without a crash the announcement comes first.

`InvitesProofs`, from `InvitesConstantsOK` (null values apart; attributions numbered from 1;
positive grants and caps; a day, a week, the life of a bonus and the window of a pair, in this
order):

* `InvitesTypeCorrect`, `InvitationsPayOnce`, `FriendsCannotFarm` and `PublicBonusIsKept`. The
  heart of `IInv` is a ledger (`BooksBalance`): for each side of an invitation, what matches have
  used and what its one row still owes add up to the grant, once it is earned, and to nothing
  before. Each handler that writes bonuses is a fold over rows, players or attributions, so each
  has a lemma of what the fold leaves of one side. `PlayingPaysOnce` needs `RoundsAreReal` besides,
  which counts the rounds really guessed in. `PairsAreApart` is kept since a join looks at every
  living row of the pair. A finished match leaves one public bonus to each of its players, since it
  uses bonuses up before it grants one, and nobody has two (`OnePublicBonus`).

`AccountsProofs`, from `ConstantsOK` of `Accounts` (limits of at least one):

* `WrongPasswordsLock` needs that the history `wrong` is never ahead of the count in the row,
  also when that was read before a lock that ran out was reset (`CountInStep`);
  `VerifiedMeansProved` that every open link names the present address (`LinksArePresent`);
  `OneTimeCodesWorkOnce` that the counters stored for accepted codes rise strictly
  (`CodesRise`), so that a code repeated has crossed more windows; `ReferralsSettle` that no
  referral waits for a verified account (`NoneWaits`). With them, `AccountsTypeCorrect`.

`PushChannelProofs`, from `PushConstantsOK` (a delay shorter than a day, a null value that is
nothing sent):

* `OneReminderEach` is inductive with the types; that attempts stay within their limit needs that
  the drain knows the attempts of every row it holds, unless the row was replaced meanwhile
  (`DrainKnowsRows`). `PuzzlesAnnouncedOnce` follows from `GreetingsAreLogged` (who was greeted today is not to be
  greeted any more, or the log says so), `SlotsWereAnnounced` from `SlotsAreAnnounced`, which
  adds the slot that is claimed while its push is out. With them, `PushTypeCorrect`.
* `StreaksBreakWarned` (`StreakHolderIsWarned`) is about the end of a day, its invariant
  `StreaksAreCovered` about every moment of it: whoever came into the day with a streak, has not
  played and could be reached all day (`Awaits`) was warned, has a reminder due today, or the first
  tick of the day has not yet scheduled the reminders. It takes that no reminder is due later than
  one scheduled now (`DueSoon`), so that one left from yesterday is due today, and that a drain
  never takes today for yesterday (`DrainIsLate`), so that it cancels no reminder that is needed.
  A crash on the day needs no exception: it reopens the tick.

`BotLearnerProofs`, from `LearnerConstantsOK` (any natural numbers as errors, an
interval of more than one round, more rows kept than half of the window: 100, and 3 of 5, in the
code):

* `LastSnapshotKept` and `ResetsAreKept`, with `LearnerTypeCorrect`. The last snapshot stays the
  newest since a loaded core is ahead of it (`CoreIsAhead`) and no two snapshots share a round
  (`RoundsDiffer`); that there is a newest at all is a descent on the rounds left, since what
  is pruned is counted by `Cardinality`. A reset is kept since what is stale after it is only
  in the archive, which a core reads only without a loadable row.
* `WorkingModelsSurvive`: the gate compares a model with the median of its window, the property
  with the rows of the table, so the window must remember what the table holds. Apart from its
  oldest entry, what it remembers of the last `Keep` snapshots is the error of a working row at
  least as recent as the entry (`Recent`, kept by `GateStep`). More than half of the window is thus
  at most the worst working row (`HalfIsLow`), so is its median (`SortedIsLow`, `MedianIsLow`), and
  what the gate lets pass is at most a fifth above it (`GateRefuses`), whatever the errors are.
  Both assumptions on the constants are needed, and so is the exception of the worker that is
  being replaced: with an interval of one round, with a window of twice the rows kept, or without
  the exception (a worker that saves on its way out while it still loads keeps a stray entry in
  its window, which then misjudges), TLC refutes the property. So this is what the configured
  numbers are worth: a change of them may lose it.

Sums and other folds are `CHOOSE`s of the community modules, and the replay is a recursive
function: `TLAPS` has no induction principle for them that its provers can instantiate. `SoloPlayProofs`
and `InvitesProofs` therefore begin with an induction of their own: the set of numbers at which a
claim fails has a least element (`LeastNumber`, from the well-foundedness of finite sets in
the library), so it is empty. From that a fold exists, is unique and is followed element by
element (`SumOfOneMore`, `FoldValue`, `ReplayExists`).

Only model-checked: liveness (`TimedRoundEnds`, `AbandonedRoomSettles`, `HostRoleRecovers`,
`BiddingRoundEnds`, `OpenAwardSettles`), since liveness under fairness and `ENABLED` are out of
the prover's reach; and the two statements that the violation runs refute.

## 6. Plan

Done: the room and its contract, bidding, single-player games, the giveaway, invite bonuses,
accounts, push notifications and the learner; every safety and action property of theirs is
proved (section 5). Next:

1. An abstract specification of the ledger of bonuses, and one of the snapshots, for `Invites`
   and `BotLearner` to implement.
2. `game:submit_guess` in a bidding room, with the turn timers that a round ended that way
   leaves behind.
3. `AutoLobby`: the population of lobbies, churn against joins, countdown on join, composed with
   what `MPRoom` says of one room.
4. `SocketPresence`: the id maps of `socketState.ts` with two tabs of one player and stale
   disconnects, to refine the `live` and `grace` of `MPRoom`.
5. Hints and time-outs of single-player games, whose maps a restart loses.
6. E-mail: a queue like that of `PushChannel`, with cool-downs over all types.
7. The worker thread transport of the learner: messages in flight while it is replaced.

Not modelled, and why: scoring (pure functions of one guess, which unit tests reach; most are
curves with real exponents), ghost users (one job that draws random numbers), analytics,
administration apart from accounts and rewards, content pipeline and universe (row-by-row
editing, SQL reports, external services), the rest of the streamer bot, the extension and the
web client (browsers, voices and views; towards the server any request at any time, which the
models allow).
