---------------------------- MODULE InvitesProofs ----------------------------
(***************************************************************************)
(* Proofs about Invites, for any people, rooms, attributions, grants and   *)
(* windows.  The heart is a ledger: what an attribution was granted is     *)
(* what its one row still owes and what matches have used, through the     *)
(* folds that pay, use, give and remove rows.  An induction over the       *)
(* elements of a fold is one over a set of numbers, by its least one.      *)
(***************************************************************************)
EXTENDS InvitesProps, FiniteSetTheorems, FunctionTheorems, SequenceTheorems, TLAPS

(***************************************************************************)
(* The inductive invariant.                                                *)
(***************************************************************************)
Grants == {"invite_host", "invite_joiner"}

Is(row, a, s) == row.attr = a /\ row.source = s

\* The rows owe the side s of the attribution a exactly n matches, in one row.
Owed(rows, a, s, n) ==
  /\ \A i, j \in DOMAIN rows : Is(rows[i], a, s) /\ Is(rows[j], a, s) => i = j
  /\ \A i \in DOMAIN rows : Is(rows[i], a, s) => rows[i].left = n
  /\ n > 0 => \E i \in DOMAIN rows : Is(rows[i], a, s)

\* What is owed and what was used is the grant of an earned attribution; to
\* one that is not earned nothing is owed.
Due(a, s) == IF attr[a].state = "earned" THEN Grant(s) - used[a][s] ELSE 0
BooksBalance ==
  \A a \in Attributions : \A s \in Grants :
    /\ Owed(buffs, a, s, Due(a, s)) /\ used[a][s] <= Grant(s)
    /\ attr[a].state # "earned" => used[a][s] = 0

\* The rounds of an attribution are those its player guessed in.
RoundsAreReal ==
  \A a \in Attributions :
    /\ real[a] = IF Alive(a) THEN attr[a].rounds ELSE 0
    /\ attr[a].state = "pending" => attr[a].rounds < TriggerRounds
    /\ attr[a].state = "earned" => attr[a].rounds = TriggerRounds

\* TypeOK, but for the bound of `used`, which BooksBalance gives.
Tables ==
  /\ status \in [Rooms -> {None, "open", "playing", "finished", "deleted"}]
  /\ players \in [Rooms -> SUBSET People] /\ minter \in [Rooms -> People \cup {None}]
  /\ now \in 0 .. MaxTime /\ games \in 0 .. MaxGames /\ joins \in 0 .. MaxJoins
  /\ attr \in [Attributions -> AttrType] /\ buffs \in Seq(RowType)
  /\ real \in [Attributions -> 0 .. TriggerRounds]
  /\ used \in [Attributions -> [Grants -> Nat]]

RoomsAreFinite == \A r \in Rooms : IsFiniteSet(players[r])

IInv ==
  /\ Tables /\ RoomsAreFinite /\ RoundsAreReal /\ PairsAreApart
  /\ BooksBalance /\ OnePublicBonus

(***************************************************************************)
(* Induction on numbers, from the well-foundedness of finite sets.         *)
(***************************************************************************)
LEMMA LeastNumber ==
  ASSUME NEW T \in SUBSET Nat, T # {}
  PROVE  \E m \in T : \A n \in T : m <= n
<1> DEFINE R == StrictSubsetOrdering(Nat)
           F == {0 .. n : n \in T}
<1>1. IsWellFoundedOn(R, FiniteSubsetsOf(Nat))
  BY FS_StrictSubsetOrderingWellFounded
<1>2. F \subseteq FiniteSubsetsOf(Nat) /\ F # {}
  <2>1. \A n \in T : 0 .. n \in FiniteSubsetsOf(Nat)
    BY FS_Interval DEF FiniteSubsetsOf
  <2> QED BY <2>1
<1>3. PICK I \in F : \A J \in F : <<J, I>> \notin R
  <2> HIDE DEF R, F
  <2> QED BY <1>1, <1>2, WFMin
<1>4. PICK m \in T : I = 0 .. m
  OBVIOUS
<1>5. ASSUME NEW n \in T, n < m PROVE FALSE
  <2>1. 0 .. n \subseteq 0 .. m /\ m \in 0 .. m /\ m \notin 0 .. n
    BY <1>5
  <2>2. <<0 .. n, 0 .. m>> \in R
    BY <2>1 DEF StrictSubsetOrdering
  <2> QED BY <1>3, <1>4, <2>2
<1> QED BY <1>5

LEMMA Induction ==
  ASSUME NEW G, 0 \in G, \A n \in Nat : n \in G => n + 1 \in G
  PROVE  Nat \subseteq G
<1> SUFFICES ASSUME ~(Nat \subseteq G) PROVE FALSE
  OBVIOUS
<1>1. PICK m \in Nat \ G : \A n \in Nat \ G : m <= n
  BY LeastNumber
<1>2. m # 0 /\ m - 1 \in Nat
  BY <1>1
<1>3. m - 1 \in G
  BY <1>1, <1>2
<1> QED BY <1>1, <1>2, <1>3

(***************************************************************************)
(* Folds over a sequence.  FoldLeft takes the last element of a set of     *)
(* indices; over 1 .. n it goes through the elements in their order.       *)
(***************************************************************************)

\* The last of the indices up to n + 1 is n + 1.
LEMMA LastIndex ==
  ASSUME NEW n \in Nat, NEW I \in SUBSET (1 .. (n + 1)), n + 1 \in I PROVE Max(I) = n + 1
<1>1. \A y \in I : n + 1 >= y
  OBVIOUS
<1>2. \A x \in I : (\A y \in I : x >= y) => x = n + 1
  OBVIOUS
<1> QED BY <1>1, <1>2 DEF Max

\* f is the value of the fold of the steps F, from b, on each set of indices.
Folds(f, F, b, n, S) ==
  /\ f \in [SUBSET (1 .. n) -> S] /\ f[{}] = b
  /\ \A I \in SUBSET (1 .. n) : I # {} =>
       Max(I) \in I /\ f[I] = F[<<Max(I), f[I \ {Max(I)}]>>]

LEMMA FoldExists ==
  ASSUME NEW N \in Nat, NEW S, NEW b \in S, NEW F \in [(1 .. N) \X S -> S]
  PROVE  \E f : Folds(f, F, b, N, S)
<1> DEFINE G == {n \in Nat : n <= N => \E f : Folds(f, F, b, n, S)}
<1>1. 0 \in G
  <2> DEFINE f == [I \in SUBSET (1 .. 0) |-> b]
  <2>1. 1 .. 0 = {}
    OBVIOUS
  <2>2. Folds(f, F, b, 0, S)
    BY <2>1 DEF Folds
  <2> HIDE DEF f
  <2> QED BY <2>2
<1>2. ASSUME NEW n \in Nat, n \in G PROVE n + 1 \in G
  <2> SUFFICES ASSUME n + 1 <= N PROVE \E f : Folds(f, F, b, n + 1, S)
    OBVIOUS
  <2>1. PICK g : Folds(g, F, b, n, S)
    BY <1>2
  <2> DEFINE f == [I \in SUBSET (1 .. (n + 1)) |->
                     IF n + 1 \in I THEN F[<<n + 1, g[I \ {n + 1}]>>] ELSE g[I]]
  <2>2. ASSUME NEW I \in SUBSET (1 .. (n + 1))
        PROVE  /\ f[I] \in S
               /\ I # {} => Max(I) \in I /\ f[I] = F[<<Max(I), f[I \ {Max(I)}]>>]
    <3>1. I \ {n + 1} \in SUBSET (1 .. n) /\ I \ {n + 1} \in SUBSET (1 .. (n + 1))
      OBVIOUS
    <3>2. CASE n + 1 \in I
      <4>1. Max(I) = n + 1
        BY <3>2, LastIndex
      <4>2. f[I] = F[<<n + 1, g[I \ {n + 1}]>>] /\ f[I \ {n + 1}] = g[I \ {n + 1}]
        BY <3>1, <3>2
      <4>3. g[I \ {n + 1}] \in S /\ n + 1 \in 1 .. N
        BY <2>1, <3>1 DEF Folds
      <4> HIDE DEF f
      <4> QED BY <3>2, <4>1, <4>2, <4>3
    <3>3. CASE n + 1 \notin I
      <4>1. I \in SUBSET (1 .. n) /\ I \ {Max(I)} \in SUBSET (1 .. n)
        BY <3>1, <3>3
      <4>2. f[I] = g[I] /\ f[I \ {Max(I)}] = g[I \ {Max(I)}]
        BY <3>3, <4>1
      <4> HIDE DEF f
      <4> QED BY <2>1, <4>1, <4>2 DEF Folds
    <3> QED BY <3>2, <3>3
  <2>3. f[{}] = b
    BY <2>1 DEF Folds
  <2>4. f \in [SUBSET (1 .. (n + 1)) -> S]
    <3>1. f = [I \in SUBSET (1 .. (n + 1)) |-> f[I]]
      OBVIOUS
    <3> HIDE DEF f
    <3> QED BY <2>2, <3>1
  <2> HIDE DEF f
  <2>5. Folds(f, F, b, n + 1, S)
    BY <2>2, <2>3, <2>4 DEF Folds
  <2> QED BY <2>5
<1> HIDE DEF G
<1>3. N \in G
  BY <1>1, <1>2, Induction
<1> QED BY <1>3 DEF G

\* What the fold has computed after k elements.
LEMMA LastOfPrefix ==
  ASSUME NEW k \in Nat \ {0} PROVE Max(1 .. k) = k /\ (1 .. k) \ {k} = 1 .. (k - 1)
<1> DEFINE n == k - 1
<1>1. n \in Nat /\ n + 1 = k /\ 1 .. k \in SUBSET (1 .. (n + 1)) /\ n + 1 \in 1 .. k
  OBVIOUS
<1>2. Max(1 .. k) = n + 1
  <2> HIDE DEF n
  <2> QED BY <1>1, LastIndex
<1>3. (1 .. k) \ {k} = 1 .. (k - 1)
  OBVIOUS
<1> QED BY <1>1, <1>2, <1>3

\* A fold of the model runs through the elements in their order: f is what it
\* has computed after each number of them.
Runs(f, F, b, n, S) ==
  /\ f \in [0 .. n -> S] /\ f[0] = b
  /\ \A k \in 1 .. n : f[k] = F[<<k, f[k - 1]>>]

LEMMA FoldRuns ==
  ASSUME NEW N \in Nat, NEW S, NEW F, NEW b, NEW g, Folds(g, F, b, N, S)
  PROVE  \E f : Runs(f, F, b, N, S) /\ f[N] = g[1 .. N]
<1> DEFINE f == [k \in 0 .. N |-> g[1 .. k]]
<1>1. \A k \in 0 .. N : 1 .. k \in SUBSET (1 .. N)
  OBVIOUS
<1>2. f \in [0 .. N -> S]
  BY <1>1 DEF Folds
<1>3. f[0] = b
  <2>1. 1 .. 0 = {}
    OBVIOUS
  <2> QED BY <2>1 DEF Folds
<1>4. ASSUME NEW k \in 1 .. N PROVE f[k] = F[<<k, f[k - 1]>>]
  <2>1. Max(1 .. k) = k /\ (1 .. k) \ {k} = 1 .. (k - 1)
    BY LastOfPrefix
  <2>2. k \in 0 .. N /\ k - 1 \in 0 .. N /\ 1 .. k # {} /\ 1 .. k \in SUBSET (1 .. N)
    BY <1>1
  <2>3. g[1 .. k] = F[<<Max(1 .. k), g[(1 .. k) \ {Max(1 .. k)}]>>]
    BY <2>2 DEF Folds
  <2> QED BY <2>1, <2>2, <2>3
<1>5. f[N] = g[1 .. N]
  OBVIOUS
<1> HIDE DEF f
<1> QED BY <1>2, <1>3, <1>4, <1>5 DEF Runs

\* The value CHOOSEn by a recursive definition is that of the fold.
FitsFold(h, F, b, n, S) ==
  /\ h[{}] = b
  /\ \A I \in SUBSET (1 .. n) :
       I # {} /\ h[I \ {Max(I)}] \in S => h[I] = F[<<Max(I), h[I \ {Max(I)}]>>]

LEMMA FoldIsUnique ==
  ASSUME NEW N \in Nat, NEW S, NEW F, NEW b, NEW g, Folds(g, F, b, N, S),
         NEW h, FitsFold(h, F, b, N, S)
  PROVE  h[1 .. N] = g[1 .. N]
<1> DEFINE G == {n \in Nat : n <= N => h[1 .. n] = g[1 .. n]}
<1>1. 0 \in G
  <2>1. 1 .. 0 = {}
    OBVIOUS
  <2> QED BY <2>1 DEF Folds, FitsFold
<1>2. ASSUME NEW n \in Nat, n \in G PROVE n + 1 \in G
  <2> SUFFICES ASSUME n + 1 <= N PROVE h[1 .. (n + 1)] = g[1 .. (n + 1)]
    OBVIOUS
  <2>1. /\ Max(1 .. (n + 1)) = n + 1 /\ (1 .. (n + 1)) \ {n + 1} = 1 .. n
    <3>1. n + 1 \in Nat \ {0} /\ (n + 1) - 1 = n
      OBVIOUS
    <3> QED BY <3>1, LastOfPrefix
  <2>2. /\ 1 .. (n + 1) \in SUBSET (1 .. N) /\ 1 .. n \in SUBSET (1 .. N) /\ 1 .. (n + 1) # {}
    OBVIOUS
  <2>3. h[1 .. n] = g[1 .. n] /\ g[1 .. n] \in S
    BY <1>2, <2>2 DEF Folds
  <2>4. g[1 .. (n + 1)] = F[<<n + 1, g[1 .. n]>>]
    BY <2>1, <2>2 DEF Folds
  <2>5. h[1 .. (n + 1)] = F[<<n + 1, h[1 .. n]>>]
    BY <2>1, <2>2, <2>3 DEF FitsFold
  <2> QED BY <2>3, <2>4, <2>5
<1> HIDE DEF G
<1>3. N \in G
  BY <1>1, <1>2, Induction
<1> QED BY <1>3 DEF G

\* So the elements can be followed one by one, whatever a CHOOSE has picked.
LEMMA FoldValue ==
  ASSUME NEW N \in Nat, NEW S, NEW b \in S, NEW F \in [(1 .. N) \X S -> S]
  PROVE  \E f, g : /\ Runs(f, F, b, N, S) /\ Folds(g, F, b, N, S)
                   /\ \A h : FitsFold(h, F, b, N, S) => h[1 .. N] = f[N]
<1>1. PICK g : Folds(g, F, b, N, S)
  BY FoldExists
<1>2. PICK f : Runs(f, F, b, N, S) /\ f[N] = g[1 .. N]
  BY <1>1, FoldRuns
<1> QED BY <1>1, <1>2, FoldIsUnique

(***************************************************************************)
(* The folds of the model.                                                 *)
(***************************************************************************)
Rows    == Seq(RowType)
Ledgers == [rows : Rows, taken : Rows]

\* The bonuses after a game in a public lobby.
LEMMA GrantsRun ==
  ASSUME NEW N \in Nat, NEW st, DOMAIN st = 1 .. N, NEW base \in Rows,
         \A k \in 1 .. N : \A x \in Rows : GrantPublicGameBuff(x, st[k]) \in Rows
  PROVE  \E f : /\ f \in [0 .. N -> Rows] /\ f[0] = base
                /\ \A k \in 1 .. N : f[k] = GrantPublicGameBuff(f[k - 1], st[k])
                /\ FoldLeft(GrantPublicGameBuff, base, st) = f[N]
<1> DEFINE F == [t \in (1 .. N) \X Rows |-> GrantPublicGameBuff(t[2], st[t[1]])]
           B(g) == [I \in SUBSET DOMAIN st |->
                      IF I = {} THEN base ELSE GrantPublicGameBuff(g[I \ {Max(I)}], st[Max(I)])]
           it == CHOOSE g : g = B(g)
<1>1. /\ F \in [(1 .. N) \X Rows -> Rows]
      /\ \A k \in 1 .. N, x \in Rows : F[<<k, x>>] = GrantPublicGameBuff(x, st[k])
  OBVIOUS
<1>2. FoldLeft(GrantPublicGameBuff, base, st) = it[1 .. N]
  BY DEF FoldLeft, MapThenFoldSet
<1> HIDE DEF F
<1>3. PICK f, g : /\ Runs(f, F, base, N, Rows) /\ Folds(g, F, base, N, Rows)
                  /\ \A h : FitsFold(h, F, base, N, Rows) => h[1 .. N] = f[N]
  BY ZenonT(60), <1>1, FoldValue
<1>4. \A I \in SUBSET (1 .. N) : I # {} => Max(I) \in 1 .. N /\ g[I \ {Max(I)}] \in Rows
  BY <1>3 DEF Folds
<1>5. g = B(g)
  BY <1>1, <1>3, <1>4 DEF Folds
<1>6. it = B(it)
  BY <1>5
<1>7. FitsFold(it, F, base, N, Rows)
  <2> HIDE DEF it
  <2> QED BY <1>1, <1>4, <1>6 DEF FitsFold
<1>8. ASSUME NEW k \in 1 .. N PROVE f[k] = GrantPublicGameBuff(f[k - 1], st[k])
  <2>1. f[k - 1] \in Rows /\ f[k] = F[<<k, f[k - 1]>>]
    BY <1>3 DEF Runs
  <2> QED BY <1>1, <2>1
<1> HIDE DEF it
<1> QED BY <1>2, <1>3, <1>7, <1>8 DEF Runs

\* The bonuses of the invitations a round completes.
LEMMA PaymentsRun ==
  ASSUME NEW N \in Nat, NEW st, DOMAIN st = 1 .. N, NEW base \in Rows,
         \A k \in 1 .. N : \A x \in Rows : Pay(x, st[k]) \in Rows
  PROVE  \E f : /\ f \in [0 .. N -> Rows] /\ f[0] = base
                /\ \A k \in 1 .. N : f[k] = Pay(f[k - 1], st[k])
                /\ FoldLeft(Pay, base, st) = f[N]
<1> DEFINE F == [t \in (1 .. N) \X Rows |-> Pay(t[2], st[t[1]])]
           B(g) == [I \in SUBSET DOMAIN st |->
                      IF I = {} THEN base ELSE Pay(g[I \ {Max(I)}], st[Max(I)])]
           it == CHOOSE g : g = B(g)
<1>1. /\ F \in [(1 .. N) \X Rows -> Rows]
      /\ \A k \in 1 .. N, x \in Rows : F[<<k, x>>] = Pay(x, st[k])
  OBVIOUS
<1>2. FoldLeft(Pay, base, st) = it[1 .. N]
  BY DEF FoldLeft, MapThenFoldSet
<1> HIDE DEF F
<1>3. PICK f, g : /\ Runs(f, F, base, N, Rows) /\ Folds(g, F, base, N, Rows)
                  /\ \A h : FitsFold(h, F, base, N, Rows) => h[1 .. N] = f[N]
  BY ZenonT(60), <1>1, FoldValue
<1>4. \A I \in SUBSET (1 .. N) : I # {} => Max(I) \in 1 .. N /\ g[I \ {Max(I)}] \in Rows
  BY <1>3 DEF Folds
<1>5. g = B(g)
  BY <1>1, <1>3, <1>4 DEF Folds
<1>6. it = B(it)
  BY <1>5
<1>7. FitsFold(it, F, base, N, Rows)
  <2> HIDE DEF it
  <2> QED BY <1>1, <1>4, <1>6 DEF FitsFold
<1>8. ASSUME NEW k \in 1 .. N PROVE f[k] = Pay(f[k - 1], st[k])
  <2>1. f[k - 1] \in Rows /\ f[k] = F[<<k, f[k - 1]>>]
    BY <1>3 DEF Runs
  <2> QED BY <1>1, <2>1
<1> HIDE DEF it
<1> QED BY <1>2, <1>3, <1>7, <1>8 DEF Runs

\* The bonuses a match uses.
LEMMA BonusesRun ==
  ASSUME NEW N \in Nat, NEW st, DOMAIN st = 1 .. N, NEW base \in Ledgers,
         \A k \in 1 .. N : \A x \in Ledgers : ApplyBuffs(x, st[k]) \in Ledgers
  PROVE  \E f : /\ f \in [0 .. N -> Ledgers] /\ f[0] = base
                /\ \A k \in 1 .. N : f[k] = ApplyBuffs(f[k - 1], st[k])
                /\ FoldLeft(ApplyBuffs, base, st) = f[N]
<1> DEFINE F == [t \in (1 .. N) \X Ledgers |-> ApplyBuffs(t[2], st[t[1]])]
           B(g) == [I \in SUBSET DOMAIN st |->
                      IF I = {} THEN base ELSE ApplyBuffs(g[I \ {Max(I)}], st[Max(I)])]
           it == CHOOSE g : g = B(g)
<1>1. /\ F \in [(1 .. N) \X Ledgers -> Ledgers]
      /\ \A k \in 1 .. N, x \in Ledgers : F[<<k, x>>] = ApplyBuffs(x, st[k])
  OBVIOUS
<1>2. FoldLeft(ApplyBuffs, base, st) = it[1 .. N]
  BY DEF FoldLeft, MapThenFoldSet
<1> HIDE DEF F
<1>3. PICK f, g : /\ Runs(f, F, base, N, Ledgers) /\ Folds(g, F, base, N, Ledgers)
                  /\ \A h : FitsFold(h, F, base, N, Ledgers) => h[1 .. N] = f[N]
  BY ZenonT(60), <1>1, FoldValue
<1>4. \A I \in SUBSET (1 .. N) : I # {} => Max(I) \in 1 .. N /\ g[I \ {Max(I)}] \in Ledgers
  BY <1>3 DEF Folds
<1>5. g = B(g)
  BY <1>1, <1>3, <1>4 DEF Folds
<1>6. it = B(it)
  BY <1>5
<1>7. FitsFold(it, F, base, N, Ledgers)
  <2> HIDE DEF it
  <2> QED BY <1>1, <1>4, <1>6 DEF FitsFold
<1>8. ASSUME NEW k \in 1 .. N PROVE f[k] = ApplyBuffs(f[k - 1], st[k])
  <2>1. f[k - 1] \in Ledgers /\ f[k] = F[<<k, f[k - 1]>>]
    BY <1>3 DEF Runs
  <2> QED BY <1>1, <2>1
<1> HIDE DEF it
<1> QED BY <1>2, <1>3, <1>7, <1>8 DEF Runs

\* The rows a deleted room leaves.
KeptUnless(gone, kept, row) == IF row.attr \in gone THEN kept ELSE Append(kept, row)
RunsThrough(f, rows, N, gone) ==
  /\ f \in [0 .. N -> Rows] /\ f[0] = <<>>
  /\ \A k \in 1 .. N : f[k] = KeptUnless(gone, f[k - 1], rows[k])
LEMMA SurvivorsRun ==
  ASSUME NEW N \in Nat, NEW st, DOMAIN st = 1 .. N, NEW gone,
         \A k \in 1 .. N : \A x \in Rows : KeptUnless(gone, x, st[k]) \in Rows
  PROVE  \E f : RunsThrough(f, st, N, gone) /\ Surviving(st, gone) = f[N]
<1>0. PICK base : base \in Rows /\ base = <<>>
  <2>1. <<>> \in Rows
    BY DEF Rows
  <2> QED BY <2>1
<1> DEFINE F == [t \in (1 .. N) \X Rows |-> KeptUnless(gone, t[2], st[t[1]])]
           B(g) == [I \in SUBSET DOMAIN st |->
                      IF I = {} THEN base ELSE KeptUnless(gone, g[I \ {Max(I)}], st[Max(I)])]
           it == CHOOSE g : g = B(g)
<1>1. /\ F \in [(1 .. N) \X Rows -> Rows]
      /\ \A k \in 1 .. N, x \in Rows : F[<<k, x>>] = KeptUnless(gone, x, st[k])
  OBVIOUS
<1>2. Surviving(st, gone) = it[1 .. N]
  BY <1>0 DEF Surviving, KeptUnless, FoldLeft, MapThenFoldSet
<1> HIDE DEF F
<1>3. PICK f, g : /\ Runs(f, F, base, N, Rows) /\ Folds(g, F, base, N, Rows)
                  /\ \A h : FitsFold(h, F, base, N, Rows) => h[1 .. N] = f[N]
  BY ZenonT(60), <1>0, <1>1, FoldValue
<1>4. \A I \in SUBSET (1 .. N) : I # {} => Max(I) \in 1 .. N /\ g[I \ {Max(I)}] \in Rows
  BY <1>3 DEF Folds
<1>5. g = B(g)
  BY <1>1, <1>3, <1>4 DEF Folds
<1>6. it = B(it)
  BY <1>5
<1>7. FitsFold(it, F, base, N, Rows)
  <2> HIDE DEF it
  <2> QED BY <1>0, <1>1, <1>4, <1>6 DEF FitsFold
<1>8. ASSUME NEW k \in 1 .. N PROVE f[k] = KeptUnless(gone, f[k - 1], st[k])
  <2>1. f[k - 1] \in Rows /\ f[k] = F[<<k, f[k - 1]>>]
    BY <1>3 DEF Runs
  <2> QED BY <1>1, <2>1
<1> HIDE DEF it
<1>9. RunsThrough(f, st, N, gone)
  BY <1>0, <1>3, <1>8 DEF Runs, RunsThrough
<1> QED BY <1>2, <1>3, <1>7, <1>9

(***************************************************************************)
(* Rows.  A row is added, used once or removed; what an attribution is     *)
(* owed, and that public bonuses do not pile up, follows.                  *)
(***************************************************************************)
OnePublicIn(rows) ==
  \A i, j \in DOMAIN rows :
    (/\ i # j /\ rows[i].source = "public_game" /\ rows[j].source = "public_game"
     /\ Active(rows[i]) /\ Active(rows[j])) => ~Reaches(rows[i], rows[j].who)

LEMMA RowFields ==
  ASSUME NEW row \in RowType
  PROVE  /\ row.who \in People /\ row.source \in Sources /\ row.attr \in Attributions \cup {None}
         /\ row.left \in Nat /\ row.left >= 1 /\ row.expires \in Nat
         /\ row.left <= Grant(row.source)
BY InvitesConstantsOK DEF RowType, Grant, InvitesConstantsOK

\* One more row, at the end.
LEMMA OneMoreRow ==
  ASSUME NEW rows \in Rows, NEW row \in RowType
  PROVE  LET more == Append(rows, row) IN
         /\ more \in Rows /\ DOMAIN more = 1 .. (Len(rows) + 1) /\ DOMAIN rows = 1 .. Len(rows)
         /\ Len(rows) \in Nat
         /\ \A i \in DOMAIN rows : i \in DOMAIN more /\ i # Len(rows) + 1 /\ more[i] = rows[i]
         /\ Len(rows) + 1 \in DOMAIN more /\ more[Len(rows) + 1] = row
         /\ \A i \in DOMAIN more : i \in DOMAIN rows \/ i = Len(rows) + 1
BY AppendProperties DEF Rows

LEMMA OwedToOthers ==
  ASSUME NEW rows \in Rows, NEW row \in RowType, NEW a, NEW s, NEW n, ~Is(row, a, s),
         Owed(rows, a, s, n)
  PROVE  Owed(Append(rows, row), a, s, n)
<1> DEFINE more == Append(rows, row)
<1>1. /\ \A i \in DOMAIN rows : i \in DOMAIN more /\ more[i] = rows[i]
      /\ \A i \in DOMAIN more : Is(more[i], a, s) => i \in DOMAIN rows
  BY OneMoreRow
<1> HIDE DEF more
<1>2. Owed(more, a, s, n)
  BY <1>1 DEF Owed
<1> QED BY <1>2 DEF more

LEMMA OwedAnew ==
  ASSUME NEW rows \in Rows, NEW row \in RowType, NEW a, NEW s, Is(row, a, s),
         Owed(rows, a, s, 0)
  PROVE  Owed(Append(rows, row), a, s, row.left)
<1> DEFINE more == Append(rows, row)
<1>1. \A i \in DOMAIN rows : ~Is(rows[i], a, s)
  <2>1. \A i \in DOMAIN rows : rows[i] \in RowType
    BY DEF Rows
  <2> QED BY <2>1, RowFields DEF Owed
<1>2. /\ \A i \in DOMAIN more : Is(more[i], a, s) => i = Len(rows) + 1
      /\ Len(rows) + 1 \in DOMAIN more /\ more[Len(rows) + 1] = row
  BY <1>1, OneMoreRow
<1> HIDE DEF more
<1>3. Owed(more, a, s, row.left)
  BY <1>2 DEF Owed
<1> QED BY <1>3 DEF more

\* A bonus of an invitation is not a public one, and a public one is only
\* added for whom none reaches.
LEMMA PublicWithOther ==
  ASSUME NEW rows \in Rows, NEW row \in RowType, OnePublicIn(rows),
         row.source # "public_game" \/ \A i \in DOMAIN rows : ~HasPublic(rows[i], row.who)
  PROVE  OnePublicIn(Append(rows, row))
<1> DEFINE more == Append(rows, row)
<1>1. /\ \A i \in DOMAIN more : i \in DOMAIN rows \/ i = Len(rows) + 1
      /\ \A i \in DOMAIN rows : more[i] = rows[i]
      /\ more[Len(rows) + 1] = row
  BY OneMoreRow
<1>2. \A x, y : Reaches(x, y.who) <=> Reaches(y, x.who)
  BY DEF Reaches
<1> HIDE DEF more
<1>3. ASSUME NEW i \in DOMAIN more, NEW j \in DOMAIN more, i # j,
             more[i].source = "public_game", more[j].source = "public_game",
             Active(more[i]), Active(more[j])
      PROVE  ~Reaches(more[i], more[j].who)
  <2>1. CASE i \in DOMAIN rows /\ j \in DOMAIN rows
    BY <1>1, <1>3, <2>1 DEF OnePublicIn
  <2>2. CASE i \in DOMAIN rows /\ j = Len(rows) + 1
    BY <1>1, <1>3, <2>2 DEF HasPublic
  <2>3. CASE i = Len(rows) + 1 /\ j \in DOMAIN rows
    BY <1>1, <1>2, <1>3, <2>3 DEF HasPublic
  <2> QED BY <1>1, <1>3, <2>1, <2>2, <2>3
<1>4. OnePublicIn(more)
  BY <1>3 DEF OnePublicIn
<1> QED BY <1>4 DEF more

\* Rows that are others, or what is left of them: e says which.
Thinned(new, old, e) ==
  /\ new \in Rows /\ e \in [DOMAIN new -> DOMAIN old]
  /\ \A i, j \in DOMAIN new : e[i] = e[j] => i = j
  /\ \A i \in DOMAIN new :
       /\ new[i].who = old[e[i]].who /\ new[i].source = old[e[i]].source
       /\ new[i].attr = old[e[i]].attr /\ new[i].expires = old[e[i]].expires
       /\ new[i].left <= old[e[i]].left

LEMMA ThinnedOwed ==
  ASSUME NEW new, NEW old, NEW e, Thinned(new, old, e), NEW a, NEW s, NEW n,
         Owed(old, a, s, n), NEW m,
         \A i \in DOMAIN new : Is(new[i], a, s) => new[i].left = m,
         m > 0 => \E i \in DOMAIN new : Is(new[i], a, s)
  PROVE  Owed(new, a, s, m)
<1>1. \A i \in DOMAIN new : e[i] \in DOMAIN old /\ (Is(new[i], a, s) <=> Is(old[e[i]], a, s))
  BY DEF Thinned, Is
<1> QED BY <1>1 DEF Owed, Thinned

LEMMA ThinnedPublic ==
  ASSUME NEW new, NEW old \in Rows, NEW e, Thinned(new, old, e), OnePublicIn(old)
  PROVE  OnePublicIn(new)
<1>1. \A i \in DOMAIN new : /\ e[i] \in DOMAIN old /\ new[i] \in RowType /\ old[e[i]] \in RowType
  BY DEF Thinned, Rows
<1>2. \A i \in DOMAIN new : Active(new[i]) => Active(old[e[i]])
  BY <1>1, RowFields DEF Thinned, Active
<1>3. \A i, j \in DOMAIN new : Reaches(new[i], new[j].who) <=> Reaches(old[e[i]], old[e[j]].who)
  BY <1>1 DEF Thinned, Reaches
<1> QED BY <1>1, <1>2, <1>3 DEF OnePublicIn, Thinned

\* RemoveAt.
LEMMA RowRemoved ==
  ASSUME NEW rows \in Rows, NEW i \in DOMAIN rows
  PROVE  LET less == RemoveAt(rows, i) IN
         /\ less \in Rows /\ DOMAIN less = 1 .. (Len(rows) - 1)
         /\ \A j \in DOMAIN less : less[j] = IF j < i THEN rows[j] ELSE rows[j + 1]
<1> DEFINE x == SubSeq(rows, 1, i - 1)
           y == SubSeq(rows, i + 1, Len(rows))
           n == Len(rows)
<1>1. n \in Nat /\ DOMAIN rows = 1 .. n /\ i \in 1 .. n /\ \A j \in 1 .. n : rows[j] \in RowType
  BY DEF Rows
<1>2. x \in Rows /\ Len(x) = i - 1 /\ \A j \in 1 .. (i - 1) : x[j] = rows[j]
  <2>1. \A j \in 1 .. (i - 1) : rows[j] \in RowType
    BY <1>1
  <2>2. /\ x \in Seq(RowType) /\ Len(x) = IF 1 <= i - 1 THEN (i - 1) - 1 + 1 ELSE 0
        /\ \A j \in 1 .. ((i - 1) - 1 + 1) : x[j] = rows[1 + j - 1]
    BY <1>1, <2>1, SubSeqProperties
  <2> QED BY <1>1, <2>2 DEF Rows
<1>3. y \in Rows /\ Len(y) = n - i /\ \A j \in 1 .. (n - i) : y[j] = rows[i + j]
  <2>1. \A j \in (i + 1) .. n : rows[j] \in RowType
    BY <1>1
  <2>2. /\ y \in Seq(RowType) /\ Len(y) = IF i + 1 <= n THEN n - (i + 1) + 1 ELSE 0
        /\ \A j \in 1 .. (n - (i + 1) + 1) : y[j] = rows[(i + 1) + j - 1]
    BY <1>1, <2>1, SubSeqProperties
  <2>3. /\ n - (i + 1) + 1 = n - i /\ (IF i + 1 <= n THEN n - (i + 1) + 1 ELSE 0) = n - i
        /\ \A j \in 1 .. (n - i) : (i + 1) + j - 1 = i + j
    BY <1>1
  <2> HIDE DEF y, n
  <2> QED BY <2>2, <2>3 DEF Rows
<1>4. RemoveAt(rows, i) = x \o y
  BY DEF RemoveAt
<1> HIDE DEF x, y
<1>5. /\ x \o y \in Seq(RowType) /\ Len(x \o y) = Len(x) + Len(y)
      /\ \A j \in 1 .. (Len(x) + Len(y)) : (x \o y)[j] = IF j <= Len(x) THEN x[j] ELSE y[j - Len(x)]
  BY <1>2, <1>3, ConcatProperties DEF Rows
<1> DEFINE z == x \o y
<1> HIDE DEF n, z
<1>6. Len(x) + Len(y) = n - 1
  BY <1>1, <1>2, <1>3
<1>7. z \in Rows /\ DOMAIN z = 1 .. (n - 1)
  BY <1>5, <1>6 DEF Rows, z
<1>8. ASSUME NEW j \in 1 .. (n - 1) PROVE z[j] = IF j < i THEN rows[j] ELSE rows[j + 1]
  <2>1. z[j] = IF j <= i - 1 THEN x[j] ELSE y[j - (i - 1)]
    BY <1>2, <1>5, <1>6 DEF z
  <2>2. CASE j < i
    BY <1>1, <1>2, <2>1, <2>2
  <2>3. CASE ~(j < i)
    <3>1. j - (i - 1) \in 1 .. (n - i) /\ i + (j - (i - 1)) = j + 1 /\ ~(j <= i - 1)
      BY <1>1, <2>3
    <3> QED BY <1>3, <2>1, <2>3, <3>1
  <2> QED BY <2>2, <2>3
<1> QED BY <1>4, <1>7, <1>8 DEF n, z

\* A use of a bonus takes a match from what its row owes, from no other.
LEMMA LastUse ==
  ASSUME NEW rows \in Rows, NEW i \in DOMAIN rows, rows[i].left = 1,
         NEW a, NEW s, NEW n \in Nat, Owed(rows, a, s, n)
  PROVE  LET less == RemoveAt(rows, i) IN
         /\ \E e : Thinned(less, rows, e)
         /\ Owed(less, a, s, IF Is(rows[i], a, s) THEN n - 1 ELSE n)
<1> DEFINE less == RemoveAt(rows, i)
           e == [j \in DOMAIN less |-> IF j < i THEN j ELSE j + 1]
           N == Len(rows)
<1>1. N \in Nat /\ DOMAIN rows = 1 .. N /\ i \in 1 .. N /\ \A j \in 1 .. N : rows[j] \in RowType
  BY DEF Rows
<1>2. /\ less \in Rows /\ DOMAIN less = 1 .. (N - 1)
      /\ \A j \in DOMAIN less : less[j] = IF j < i THEN rows[j] ELSE rows[j + 1]
  BY RowRemoved
<1> HIDE DEF less, N
<1>3. /\ \A j \in DOMAIN less : e[j] \in DOMAIN rows /\ e[j] # i /\ less[j] = rows[e[j]]
      /\ \A j, k \in DOMAIN less : e[j] = e[k] => j = k
      /\ e \in [DOMAIN less -> DOMAIN rows]
  BY <1>1, <1>2
<1>4. ASSUME NEW k \in DOMAIN rows, k # i PROVE \E j \in DOMAIN less : less[j] = rows[k]
  <2>1. CASE k < i
    <3>1. k \in DOMAIN less
      BY <1>1, <1>2, <2>1
    <3> QED BY <1>2, <2>1, <3>1
  <2>2. CASE k > i
    <3>1. k - 1 \in DOMAIN less /\ ~(k - 1 < i) /\ (k - 1) + 1 = k
      BY <1>1, <1>2, <2>2
    <3> QED BY <1>2, <3>1
  <2> QED BY <1>1, <1>4, <2>1, <2>2
<1> HIDE DEF e
<1>5. Thinned(less, rows, e)
  <2>1. \A j \in DOMAIN less : rows[e[j]].left <= rows[e[j]].left
    BY <1>1, <1>3, RowFields
  <2> QED BY <1>2, <1>3, <2>1 DEF Thinned
<1>6. CASE Is(rows[i], a, s)
  <2>1. n = 1
    BY <1>6 DEF Owed
  <2>2. \A j \in DOMAIN less : ~Is(less[j], a, s)
    BY <1>3, <1>6 DEF Owed
  <2>3. Owed(less, a, s, 0)
    BY <2>2 DEF Owed
  <2> QED BY <1>5, <1>6, <2>1, <2>3 DEF less
<1>7. CASE ~Is(rows[i], a, s)
  <2>1. \A j \in DOMAIN less : Is(less[j], a, s) => less[j].left = n
    BY <1>3 DEF Owed
  <2>2. n > 0 => \E j \in DOMAIN less : Is(less[j], a, s)
    BY <1>4, <1>7 DEF Owed
  <2>3. Owed(less, a, s, n)
    BY <1>5, <2>1, <2>2, ThinnedOwed
  <2> QED BY <1>5, <1>7, <2>3 DEF less
<1> QED BY <1>6, <1>7

LEMMA OneUse ==
  ASSUME NEW rows \in Rows, NEW i \in DOMAIN rows, rows[i].left # 1,
         NEW a, NEW s, NEW n \in Nat, Owed(rows, a, s, n)
  PROVE  LET less == [rows EXCEPT ![i].left = @ - 1] IN
         /\ \E e : Thinned(less, rows, e)
         /\ Owed(less, a, s, IF Is(rows[i], a, s) THEN n - 1 ELSE n)
<1> DEFINE less == [rows EXCEPT ![i].left = @ - 1]
           e == [j \in DOMAIN rows |-> j]
           N == Len(rows)
<1>1. N \in Nat /\ DOMAIN rows = 1 .. N /\ i \in 1 .. N /\ \A j \in 1 .. N : rows[j] \in RowType
  BY DEF Rows
<1>2. /\ DOMAIN less = DOMAIN rows /\ less[i] = [rows[i] EXCEPT !.left = @ - 1]
      /\ \A j \in DOMAIN rows : j # i => less[j] = rows[j]
  OBVIOUS
<1>3. [rows[i] EXCEPT !.left = @ - 1] \in RowType
  <2>1. rows[i].left \in Nat /\ rows[i].left >= 1 /\ rows[i].left <= Grant(rows[i].source)
    BY <1>1, RowFields
  <2>2. Grant(rows[i].source) \in Nat
    BY InvitesConstantsOK DEF InvitesConstantsOK, Grant
  <2>3. rows[i].left - 1 \in 1 .. Grant(rows[i].source)
    BY <2>1, <2>2
  <2>4. rows[i] \in RowType
    BY <1>1
  <2> QED BY <2>3, <2>4 DEF RowType
<1>4. /\ less[i].who = rows[i].who /\ less[i].source = rows[i].source /\ less[i].attr = rows[i].attr
      /\ less[i].expires = rows[i].expires /\ less[i].left = rows[i].left - 1
  <2>1. rows[i] \in RowType
    BY <1>1
  <2>2. DOMAIN rows[i] = {"who", "source", "attr", "left", "expires"}
    BY <2>1 DEF RowType
  <2> QED BY <1>2, <2>2
<1>5. less \in Rows
  <2>1. \A j \in 1 .. N : less[j] \in RowType
    BY <1>1, <1>2, <1>3
  <2>2. less = [j \in 1 .. N |-> less[j]]
    BY <1>1
  <2> HIDE DEF less
  <2> QED BY <1>1, <2>1, <2>2 DEF Rows
<1> HIDE DEF less, N
<1>6. ASSUME NEW j \in DOMAIN less
      PROVE  (Is(less[j], a, s) <=> Is(rows[j], a, s)) /\ less[j].left <= rows[j].left
  <2>1. rows[j] \in RowType
    BY <1>1, <1>2
  <2>2. rows[j].left \in Nat
    BY <2>1, RowFields
  <2>3. CASE j = i
    BY <1>4, <2>2, <2>3 DEF Is
  <2>4. CASE j # i
    BY <1>2, <2>2, <2>4 DEF Is
  <2> QED BY <2>3, <2>4
<1>7. Thinned(less, rows, e)
  BY <1>2, <1>4, <1>5, <1>6 DEF Thinned
<1> HIDE DEF e
<1>8. CASE Is(rows[i], a, s)
  <2>1. n = rows[i].left /\ \A j \in DOMAIN rows : Is(rows[j], a, s) => j = i
    BY <1>8 DEF Owed
  <2>2. \A j \in DOMAIN less : Is(less[j], a, s) => less[j].left = n - 1
    BY <1>2, <1>4, <1>6, <2>1
  <2>3. \E j \in DOMAIN less : Is(less[j], a, s)
    BY <1>2, <1>6, <1>8
  <2>4. Owed(less, a, s, n - 1)
    BY <1>7, <2>2, <2>3, ThinnedOwed
  <2> QED BY <1>7, <1>8, <2>4 DEF less
<1>9. CASE ~Is(rows[i], a, s)
  <2>1. \A j \in DOMAIN less : Is(less[j], a, s) => less[j].left = n
    BY <1>2, <1>6, <1>9 DEF Owed
  <2>2. n > 0 => \E j \in DOMAIN less : Is(less[j], a, s)
    BY <1>2, <1>6 DEF Owed
  <2>3. Owed(less, a, s, n)
    BY <1>7, <2>1, <2>2, ThinnedOwed
  <2> QED BY <1>7, <1>9, <2>3 DEF less
<1> QED BY <1>8, <1>9

LEMMA RowUsed ==
  ASSUME NEW rows \in Rows, NEW i \in DOMAIN rows
  PROVE  /\ UsedOnce(rows, i) \in Rows
         /\ OnePublicIn(rows) => OnePublicIn(UsedOnce(rows, i))
         /\ \A a, s, n : n \in Nat /\ Owed(rows, a, s, n) =>
              /\ Owed(UsedOnce(rows, i), a, s, IF Is(rows[i], a, s) THEN n - 1 ELSE n)
              /\ Is(rows[i], a, s) => n > 0
<1>1. ASSUME NEW a, NEW s, NEW n \in Nat, Owed(rows, a, s, n)
      PROVE  /\ \E e : Thinned(UsedOnce(rows, i), rows, e)
             /\ Owed(UsedOnce(rows, i), a, s, IF Is(rows[i], a, s) THEN n - 1 ELSE n)
  <2>1. CASE rows[i].left = 1
    BY <1>1, <2>1, LastUse DEF UsedOnce
  <2>2. CASE rows[i].left # 1
    BY <1>1, <2>2, OneUse DEF UsedOnce
  <2> QED BY <2>1, <2>2
<1>2. ASSUME NEW a, NEW s, NEW n \in Nat, Owed(rows, a, s, n), Is(rows[i], a, s) PROVE n > 0
  <2>1. rows[i] \in RowType
    BY DEF Rows
  <2>2. rows[i].left = n
    BY <1>2 DEF Owed
  <2> QED BY <2>1, <2>2, RowFields
<1>3. \E a, s : Owed(rows, a, s, 0)
  <2> DEFINE a == CHOOSE x : x \notin {rows[j].attr : j \in DOMAIN rows}
  <2>1. a \notin {rows[j].attr : j \in DOMAIN rows}
    <3>1. \E x : x \notin {rows[j].attr : j \in DOMAIN rows}
      BY NoSetContainsEverything
    <3> QED BY <3>1
  <2> HIDE DEF a
  <2>2. Owed(rows, a, "none", 0)
    BY <2>1 DEF Owed, Is
  <2> QED BY <2>2
<1>4. \E e : Thinned(UsedOnce(rows, i), rows, e)
  BY <1>1, <1>3
<1> QED BY <1>1, <1>2, <1>4, ThinnedPublic DEF Thinned

LEMMA UpToN ==
  ASSUME NEW n \in Nat
  PROVE  IsFiniteSet(1 .. n) /\ Cardinality(1 .. n) = n
<1>1. 1 \in Int /\ n \in Int
  OBVIOUS
<1>2. /\ IsFiniteSet(1 .. n)
      /\ Cardinality(1 .. n) = IF 1 > n THEN 0 ELSE n - 1 + 1
  BY <1>1, FS_Interval
<1>3. (IF 1 > n THEN 0 ELSE n - 1 + 1) = n
  OBVIOUS
<1> QED BY <1>2, <1>3

\* The players, or the invitations a round completes, in some order: all of
\* them, each once.
Lists(f, n, T) ==
  /\ n = Cardinality(T) /\ f \in [1 .. n -> T] /\ \A i, j \in 1 .. n : f[i] = f[j] => i = j
LEMMA Listing ==
  ASSUME NEW T, IsFiniteSet(T), NEW n, NEW f, Lists(f, n, T)
  PROVE  n \in Nat /\ \A t \in T : \E i \in 1 .. n : f[i] = t
<1> USE DEF Lists
<1>1. n \in Nat
  BY FS_CardinalityType
<1>2. IsFiniteSet(1 .. n) /\ Cardinality(1 .. n) = n
  BY <1>1, UpToN
<1>3. f \in Injection(1 .. n, T)
  BY Fun_IsInj
<1>4. f \in Surjection(1 .. n, T)
  BY <1>2, <1>3, FS_Injection
<1>5. \A t \in T : \E i \in 1 .. n : f[i] = t
  BY <1>4 DEF Surjection
<1> QED BY <1>1, <1>5

LEMMA SetListed ==
  ASSUME NEW T, IsFiniteSet(T)
  PROVE  LET n == Cardinality(T)
             f == SetToSeq(T)
         IN  /\ n \in Nat /\ f \in [1 .. n -> T] /\ DOMAIN f = 1 .. n
             /\ \A i, j \in 1 .. n : f[i] = f[j] => i = j
             /\ \A t \in T : \E i \in 1 .. n : f[i] = t
<1> DEFINE n == Cardinality(T)
           f == SetToSeq(T)
<1>1. ExistsBijection(1 .. n, T)
  BY FS_CardinalityType
<1>2. PICK g \in Bijection(1 .. n, T) : TRUE
  BY <1>1 DEF ExistsBijection
<1>3. g \in [1 .. n -> T] /\ \A i, j \in 1 .. n : g[i] = g[j] => i = j
  BY <1>2, Fun_BijectionProperties
<1>4. f \in [1 .. n -> T] /\ IsInjective(f)
  <2>1. IsInjective(g)
    BY <1>3 DEF IsInjective
  <2>2. \E h \in [1 .. n -> T] : IsInjective(h)
    BY <1>3, <2>1
  <2> QED BY <2>2 DEF SetToSeq
<1>5. \A i, j \in 1 .. n : f[i] = f[j] => i = j
  BY <1>4 DEF IsInjective
<1>6. n \in Nat /\ \A t \in T : \E i \in 1 .. n : f[i] = t
  <2>1. Lists(f, n, T)
    BY <1>4, <1>5 DEF Lists
  <2> HIDE DEF f, n
  <2> QED BY <2>1, Listing
<1> HIDE DEF f
<1> QED BY <1>4, <1>5, <1>6 DEF f

(***************************************************************************)
(* A match: a player's best bonus is one of theirs, and what it pays is    *)
(* taken from what is owed.                                                *)
(***************************************************************************)
LEMMA BestIsTheirs ==
  ASSUME NEW rows \in Rows, NEW p, Candidates(rows, p) # {}
  PROVE  Best(rows, p) \in DOMAIN rows
<1> DEFINE C == Candidates(rows, p)
           H == {i \in C : rows[i].source = "invite_host"}
<1>1. C \in SUBSET Nat /\ C \subseteq DOMAIN rows
  BY DEF Candidates, Rows
<1>2. \E i \in C : \A j \in C : Better(rows, i, j)
  <2>1. CASE H # {}
    <3>1. PICK i \in H : \A j \in H : i <= j
      BY <1>1, <2>1, LeastNumber
    <3>2. \A j \in C : Better(rows, i, j)
      BY <3>1 DEF Better, Multiplier
    <3> QED BY <3>1, <3>2
  <2>2. CASE H = {}
    <3>1. PICK i \in C : \A j \in C : i <= j
      BY <1>1, LeastNumber
    <3>2. \A j \in C : Better(rows, i, j)
      BY <2>2, <3>1 DEF Better, Multiplier
    <3> QED BY <3>1, <3>2
  <2> QED BY <2>1, <2>2
<1> QED BY <1>1, <1>2 DEF Best

LEMMA OneMoreTaken ==
  ASSUME NEW taken \in Rows, NEW row \in RowType, NEW a, NEW s
  PROVE  /\ TimesUsed(taken, a, s) \in Nat
         /\ TimesUsed(Append(taken, row), a, s)
              = TimesUsed(taken, a, s) + IF Is(row, a, s) THEN 1 ELSE 0
<1> DEFINE more == Append(taken, row)
           N == Len(taken)
           T == {i \in DOMAIN taken : taken[i].attr = a /\ taken[i].source = s}
           U == {i \in DOMAIN more : more[i].attr = a /\ more[i].source = s}
<1>1. /\ DOMAIN taken = 1 .. N /\ N \in Nat
      /\ \A i \in DOMAIN taken : i \in DOMAIN more /\ i # N + 1 /\ more[i] = taken[i]
      /\ N + 1 \in DOMAIN more /\ more[N + 1] = row
      /\ \A i \in DOMAIN more : i \in DOMAIN taken \/ i = N + 1
  BY OneMoreRow
<1>2. IsFiniteSet(T)
  <2>1. IsFiniteSet(DOMAIN taken)
    BY <1>1, FS_Interval
  <2> QED BY <2>1, FS_Subset
<1>3. Cardinality(T) \in Nat
  BY <1>2, FS_CardinalityType
<1> HIDE DEF more, N
<1>4. U = IF Is(row, a, s) THEN T \cup {N + 1} ELSE T
  BY <1>1 DEF Is
<1>5. N + 1 \notin T
  BY <1>1
<1> HIDE DEF T, U
<1>6. Cardinality(T \cup {N + 1}) = Cardinality(T) + 1
  BY <1>2, <1>5, FS_AddElement
<1>7. Cardinality(U) = Cardinality(T) + IF Is(row, a, s) THEN 1 ELSE 0
  BY <1>3, <1>4, <1>6
<1> QED BY <1>3, <1>7 DEF T, U, more, TimesUsed

\* In a ledger that began with n matches owed, those taken are owed no more.
Balances(ledger, a, s, n) ==
  LET m == TimesUsed(ledger.taken, a, s) IN
  m \in Nat /\ n - m \in Nat /\ Owed(ledger.rows, a, s, n - m)

LEMMA LedgerStep ==
  ASSUME NEW ledger \in Ledgers, NEW p
  PROVE  LET next == ApplyBuffs(ledger, p) IN
         /\ next \in Ledgers
         /\ OnePublicIn(ledger.rows) => OnePublicIn(next.rows)
         /\ \A a, s, n : n \in Nat /\ Balances(ledger, a, s, n) => Balances(next, a, s, n)
<1>1. CASE Candidates(ledger.rows, p) = {}
  BY <1>1 DEF ApplyBuffs
<1>2. CASE Candidates(ledger.rows, p) # {}
  <2> DEFINE rows == ledger.rows
             i == Best(rows, p)
             next == [rows |-> UsedOnce(rows, i), taken |-> Append(ledger.taken, rows[i])]
  <2>1. rows \in Rows /\ ledger.taken \in Rows
    BY DEF Ledgers
  <2>2. i \in DOMAIN rows /\ rows[i] \in RowType
    <3>1. i \in DOMAIN rows
      BY <1>2, <2>1, BestIsTheirs
    <3> QED BY <2>1, <3>1 DEF Rows
  <2>3. ApplyBuffs(ledger, p) = next
    BY <1>2 DEF ApplyBuffs
  <2> HIDE DEF rows, i
  <2>4. next \in Ledgers
    <3>1. UsedOnce(rows, i) \in Rows
      BY <2>1, <2>2, RowUsed
    <3>2. Append(ledger.taken, rows[i]) \in Rows
      BY <2>1, <2>2 DEF Rows
    <3> QED BY <3>1, <3>2 DEF Ledgers
  <2>5. OnePublicIn(rows) => OnePublicIn(UsedOnce(rows, i))
    BY <2>1, <2>2, RowUsed
  <2>6. ASSUME NEW a, NEW s, NEW n \in Nat, Balances(ledger, a, s, n)
        PROVE  Balances(next, a, s, n)
    <3> DEFINE m == TimesUsed(ledger.taken, a, s)
    <3>1. m \in Nat /\ n - m \in Nat /\ Owed(rows, a, s, n - m)
      BY <2>6 DEF Balances, rows
    <3>2. /\ Owed(UsedOnce(rows, i), a, s, IF Is(rows[i], a, s) THEN (n - m) - 1 ELSE n - m)
          /\ Is(rows[i], a, s) => n - m > 0
      <4> HIDE DEF m
      <4> QED BY <2>1, <2>2, <3>1, RowUsed
    <3>3. TimesUsed(next.taken, a, s) = m + IF Is(rows[i], a, s) THEN 1 ELSE 0
      BY <2>1, <2>2, OneMoreTaken
    <3>4. next.rows = UsedOnce(rows, i)
      OBVIOUS
    <3> HIDE DEF m, next
    <3>5. CASE Is(rows[i], a, s)
      <4>1. m + 1 \in Nat /\ n - (m + 1) \in Nat /\ n - (m + 1) = (n - m) - 1
        BY <3>1, <3>2, <3>5
      <4>2. TimesUsed(next.taken, a, s) = m + 1
        BY <3>3, <3>5
      <4> QED BY <3>2, <3>4, <3>5, <4>1, <4>2 DEF Balances
    <3>6. CASE ~Is(rows[i], a, s)
      <4>1. TimesUsed(next.taken, a, s) = m
        BY <3>1, <3>3, <3>6
      <4> QED BY <3>1, <3>2, <3>4, <3>6, <4>1 DEF Balances
    <3> QED BY <3>5, <3>6
  <2>7. next.rows = UsedOnce(rows, i)
    OBVIOUS
  <2> HIDE DEF next
  <2> QED BY <2>3, <2>4, <2>5, <2>6, <2>7 DEF rows
<1> QED BY <1>1, <1>2

LEMMA Match ==
  ASSUME NEW rows \in Rows, NEW N \in Nat, NEW st, DOMAIN st = 1 .. N
  PROVE  LET saved == SaveToLeaderboard(rows, st) IN
         /\ saved \in Ledgers
         /\ OnePublicIn(rows) => OnePublicIn(saved.rows)
         /\ \A a, s, n : n \in Nat /\ Owed(rows, a, s, n) => Balances(saved, a, s, n)
<1> DEFINE base == [rows |-> rows, taken |-> <<>>]
<1>1. base \in Ledgers
  BY DEF Ledgers, Rows
<1>2. \A a, s : TimesUsed(<<>>, a, s) = 0
  <2>1. \A a, s : {i \in DOMAIN <<>> : <<>>[i].attr = a /\ <<>>[i].source = s} = {}
    OBVIOUS
  <2> QED BY <2>1, FS_EmptySet DEF TimesUsed
<1>3. \A a, s, n : n \in Nat /\ Owed(rows, a, s, n) => Balances(base, a, s, n)
  BY <1>2 DEF Balances
<1>4. base.rows = rows
  OBVIOUS
<1>5. SaveToLeaderboard(rows, st) = FoldLeft(ApplyBuffs, base, st)
  BY DEF SaveToLeaderboard
<1> HIDE DEF base
<1>6. PICK f : /\ f \in [0 .. N -> Ledgers] /\ f[0] = base
               /\ \A k \in 1 .. N : f[k] = ApplyBuffs(f[k - 1], st[k])
               /\ FoldLeft(ApplyBuffs, base, st) = f[N]
  <2>1. \A k \in 1 .. N : \A x \in Ledgers : ApplyBuffs(x, st[k]) \in Ledgers
    BY LedgerStep
  <2> QED BY ZenonT(60), <1>1, <2>1, BonusesRun
<1> DEFINE G == {k \in Nat : k <= N =>
                   /\ OnePublicIn(rows) => OnePublicIn(f[k].rows)
                   /\ \A a, s, n : n \in Nat /\ Owed(rows, a, s, n) => Balances(f[k], a, s, n)}
<1>7. 0 \in G
  BY <1>3, <1>4, <1>6
<1>8. ASSUME NEW k \in Nat, k \in G PROVE k + 1 \in G
  <2> SUFFICES ASSUME k + 1 <= N
               PROVE  /\ OnePublicIn(rows) => OnePublicIn(f[k + 1].rows)
                      /\ \A a, s, n : n \in Nat /\ Owed(rows, a, s, n) => Balances(f[k + 1], a, s, n)
    OBVIOUS
  <2>1. k \in 0 .. N /\ k + 1 \in 1 .. N /\ (k + 1) - 1 = k
    OBVIOUS
  <2>2. f[k] \in Ledgers /\ f[k + 1] = ApplyBuffs(f[k], st[k + 1])
    BY <1>6, <2>1
  <2>3. /\ OnePublicIn(rows) => OnePublicIn(f[k].rows)
        /\ \A a, s, n : n \in Nat /\ Owed(rows, a, s, n) => Balances(f[k], a, s, n)
    BY <1>8, <2>1
  <2> HIDE DEF G
  <2> QED BY <2>2, <2>3, LedgerStep
<1> HIDE DEF G
<1>9. N \in G
  BY <1>7, <1>8, Induction
<1> QED BY <1>5, <1>6, <1>9 DEF G

(***************************************************************************)
(* Bonuses that are given: those of a public lobby and of an invitation.   *)
(***************************************************************************)
AliveType ==
  [state : {"pending", "earned"}, room : Rooms, seat : Rooms \cup {None}, inviter : People,
   joiner : People, rounds : 0 .. TriggerRounds, created : 0 .. MaxTime, earned : 0 .. MaxTime]

LEMMA AttrRows ==
  /\ None \notin {"pending", "earned", "deleted"} /\ None \notin People /\ None \notin Attributions
  /\ AttrType = {NoAttribution, Deleted} \cup AliveType
  /\ \A row \in AttrType : row.state \in {"pending", "earned"} <=> row \in AliveType
<1>1. None \notin {"pending", "earned", "deleted"} /\ None \notin People /\ None \notin Attributions
  BY InvitesConstantsOK DEF InvitesConstantsOK
<1>2. AttrType = {NoAttribution, Deleted} \cup AliveType
  BY DEF AttrType, AliveType
<1>3. NoAttribution.state = None /\ Deleted.state = "deleted"
  BY DEF NoAttribution, Deleted
<1>4. \A row \in AliveType : row.state \in {"pending", "earned"}
  BY DEF AliveType
<1> QED BY <1>1, <1>2, <1>3, <1>4

LEMMA BuffIsRow ==
  ASSUME Tables, NEW p \in People, NEW source \in Sources, NEW a \in Attributions \cup {None},
         NEW m \in 1 .. Grant(source)
  PROVE  Buff(p, source, a, m) \in RowType /\ Active(Buff(p, source, a, m))
<1>1. now \in Nat /\ BuffTTL \in Nat /\ BuffTTL > 0 /\ Grant(source) \in Nat
  BY SMTT(30), InvitesConstantsOK DEF InvitesConstantsOK, Tables, Grant
<1>2. now + BuffTTL \in Nat /\ now + BuffTTL > now /\ m \in Nat /\ m > 0
  BY <1>1
<1> QED BY <1>2 DEF Buff, RowType, Active

HasBonus(rows, p) == \E i \in DOMAIN rows : HasPublic(rows[i], p)

LEMMA GrantStep ==
  ASSUME Tables, NEW rows \in Rows, NEW p \in People
  PROVE  LET next == GrantPublicGameBuff(rows, p) IN
         /\ next \in Rows
         /\ OnePublicIn(rows) => OnePublicIn(next)
         /\ \A a, n : \A s \in Grants : Owed(rows, a, s, n) => Owed(next, a, s, n)
         /\ HasBonus(next, p)
         /\ \A q : HasBonus(rows, q) => HasBonus(next, q)
<1>1. CASE HasBonus(rows, p)
  BY <1>1 DEF GrantPublicGameBuff, HasBonus
<1>2. CASE ~HasBonus(rows, p)
  <2> DEFINE row == Buff(p, "public_game", None, 1)
             next == Append(rows, row)
  <2>1. GrantPublicGameBuff(rows, p) = next
    BY <1>2 DEF GrantPublicGameBuff, HasBonus
  <2>2. row \in RowType /\ Active(row)
    <3>1. 1 \in 1 .. Grant("public_game") /\ "public_game" \in Sources
      BY InvitesConstantsOK DEF InvitesConstantsOK, Grant, Sources
    <3> QED BY <3>1, BuffIsRow
  <2>3. row.who = p /\ row.source = "public_game"
    BY DEF Buff
  <2>4. /\ next \in Rows /\ Len(rows) + 1 \in DOMAIN next /\ next[Len(rows) + 1] = row
        /\ \A i \in DOMAIN rows : i \in DOMAIN next /\ next[i] = rows[i]
    BY <2>2, OneMoreRow
  <2>5. OnePublicIn(rows) => OnePublicIn(next)
    BY <1>2, <2>2, <2>3, PublicWithOther DEF HasBonus
  <2>6. \A a, n : \A s \in Grants : Owed(rows, a, s, n) => Owed(next, a, s, n)
    <3>1. \A a : \A s \in Grants : ~Is(row, a, s)
      BY <2>3 DEF Is, Grants
    <3> HIDE DEF row
    <3> QED BY <2>2, <3>1, OwedToOthers
  <2>7. HasBonus(next, p)
    <3>1. HasPublic(row, p)
      BY <2>2, <2>3 DEF HasPublic, Reaches
    <3> HIDE DEF next, row
    <3> QED BY <2>4, <3>1 DEF HasBonus
  <2>8. \A q : HasBonus(rows, q) => HasBonus(next, q)
    <3> HIDE DEF next
    <3> QED BY <2>4 DEF HasBonus
  <2> HIDE DEF next
  <2> QED BY <2>1, <2>4, <2>5, <2>6, <2>7, <2>8
<1> QED BY <1>1, <1>2

LEMMA LobbyBonus ==
  ASSUME Tables, NEW rows \in Rows, NEW N \in Nat, NEW st \in [1 .. N -> People]
  PROVE  LET next == FoldLeft(GrantPublicGameBuff, rows, st) IN
         /\ next \in Rows
         /\ OnePublicIn(rows) => OnePublicIn(next)
         /\ \A a, n : \A s \in Grants : Owed(rows, a, s, n) => Owed(next, a, s, n)
         /\ \A i \in 1 .. N : HasBonus(next, st[i])
<1>1. PICK f : /\ f \in [0 .. N -> Rows] /\ f[0] = rows
               /\ \A k \in 1 .. N : f[k] = GrantPublicGameBuff(f[k - 1], st[k])
               /\ FoldLeft(GrantPublicGameBuff, rows, st) = f[N]
  <2>1. \A k \in 1 .. N : \A x \in Rows : GrantPublicGameBuff(x, st[k]) \in Rows
    BY GrantStep
  <2> QED BY ZenonT(60), <2>1, GrantsRun
<1> DEFINE P(k) == /\ OnePublicIn(rows) => OnePublicIn(f[k])
                   /\ \A a, n : \A s \in Grants : Owed(rows, a, s, n) => Owed(f[k], a, s, n)
                   /\ \A i \in 1 .. k : HasBonus(f[k], st[i])
           G == {k \in Nat : k <= N => P(k)}
<1>2. 0 \in G
  BY <1>1
<1>3. ASSUME NEW k \in Nat, k \in G PROVE k + 1 \in G
  <2> SUFFICES ASSUME k + 1 <= N PROVE P(k + 1)
    OBVIOUS
  <2>1. k \in 0 .. N /\ k + 1 \in 1 .. N /\ (k + 1) - 1 = k /\ st[k + 1] \in People
    OBVIOUS
  <2>2. f[k] \in Rows /\ f[k + 1] = GrantPublicGameBuff(f[k], st[k + 1])
    BY <1>1, <2>1
  <2>3. P(k)
    BY <1>3, <2>1
  <2>4. /\ OnePublicIn(f[k]) => OnePublicIn(f[k + 1])
        /\ \A a, n : \A s \in Grants : Owed(f[k], a, s, n) => Owed(f[k + 1], a, s, n)
        /\ HasBonus(f[k + 1], st[k + 1])
        /\ \A q : HasBonus(f[k], q) => HasBonus(f[k + 1], q)
    BY <2>1, <2>2, GrantStep
  <2>5. \A i \in 1 .. (k + 1) : i \in 1 .. k \/ i = k + 1
    OBVIOUS
  <2> HIDE DEF G
  <2> QED BY <2>3, <2>4, <2>5
<1> HIDE DEF G
<1>4. N \in G
  BY <1>2, <1>3, Induction
<1>5. P(N)
  BY <1>4 DEF G
<1>6. f[N] \in Rows
  BY <1>1
<1> QED BY <1>1, <1>5, <1>6

\* An invitation that is completed owes each side its grant.
LEMMA PayStep ==
  ASSUME Tables, NEW rows \in Rows, NEW a \in Attributions, attr[a].state = "pending"
  PROVE  LET next == Pay(rows, a) IN
         /\ next \in Rows
         /\ OnePublicIn(rows) => OnePublicIn(next)
         /\ \A s \in Grants : Owed(rows, a, s, 0) => Owed(next, a, s, Grant(s))
         /\ \A b, s, n : b # a /\ Owed(rows, b, s, n) => Owed(next, b, s, n)
<1> DEFINE x == Buff(Inviter(a), "invite_host", a, HostMatches)
           y == Buff(attr[a].joiner, "invite_joiner", a, JoinerMatches)
           mid == Append(rows, x)
           next == Append(mid, y)
<1>1. Inviter(a) \in People /\ attr[a].joiner \in People
  <2>1. attr[a] \in AliveType
    BY AttrRows DEF Tables
  <2> QED BY <2>1 DEF AliveType, Inviter
<1>2. x \in RowType /\ y \in RowType
  <2>1. /\ HostMatches \in 1 .. Grant("invite_host") /\ JoinerMatches \in 1 .. Grant("invite_joiner")
        /\ "invite_host" \in Sources /\ "invite_joiner" \in Sources
    BY InvitesConstantsOK DEF InvitesConstantsOK, Grant, Sources
  <2> QED BY <1>1, <2>1, BuffIsRow
<1>3. /\ x.source = "invite_host" /\ x.attr = a /\ x.left = HostMatches
      /\ y.source = "invite_joiner" /\ y.attr = a /\ y.left = JoinerMatches
  BY DEF Buff
<1>4. Pay(rows, a) = next
  <2>1. \A u, v : rows \o <<u, v>> = Append(Append(rows, u), v)
    BY DEF Rows
  <2> HIDE DEF x, y
  <2> QED BY <2>1 DEF Pay, x, y
<1> HIDE DEF x, y
<1>5. mid \in Rows
  BY <1>2, OneMoreRow
<1> HIDE DEF mid
<1>6. next \in Rows
  BY <1>2, <1>5, OneMoreRow
<1>7. OnePublicIn(rows) => OnePublicIn(next)
  <2>1. OnePublicIn(rows) => OnePublicIn(mid)
    BY <1>2, <1>3, PublicWithOther DEF mid
  <2>2. OnePublicIn(mid) => OnePublicIn(next)
    BY <1>2, <1>3, <1>5, PublicWithOther
  <2> QED BY <2>1, <2>2
<1>8. ASSUME NEW s \in Grants, Owed(rows, a, s, 0) PROVE Owed(next, a, s, Grant(s))
  <2>1. CASE s = "invite_host"
    <3>1. Is(x, a, s) /\ ~Is(y, a, s) /\ x.left = Grant(s)
      BY <1>3, <2>1 DEF Is, Grant
    <3>2. Owed(mid, a, s, Grant(s))
      BY <1>2, <1>8, <3>1, OwedAnew DEF mid
    <3> QED BY <1>2, <1>5, <3>1, <3>2, OwedToOthers
  <2>2. CASE s = "invite_joiner"
    <3>1. Is(y, a, s) /\ ~Is(x, a, s) /\ y.left = Grant(s)
      BY <1>3, <2>2 DEF Is, Grant
    <3>2. Owed(mid, a, s, 0)
      BY <1>2, <1>8, <3>1, OwedToOthers DEF mid
    <3> QED BY <1>2, <1>5, <3>1, <3>2, OwedAnew
  <2> QED BY <2>1, <2>2 DEF Grants
<1>9. ASSUME NEW b, NEW s, NEW n, b # a, Owed(rows, b, s, n) PROVE Owed(next, b, s, n)
  <2>1. ~Is(x, b, s) /\ ~Is(y, b, s)
    BY <1>3, <1>9 DEF Is
  <2>2. Owed(mid, b, s, n)
    BY <1>2, <1>9, <2>1, OwedToOthers DEF mid
  <2> QED BY <1>2, <1>5, <2>1, <2>2, OwedToOthers
<1> HIDE DEF next
<1> QED BY <1>4, <1>6, <1>7, <1>8, <1>9

\* Pending attributions, each once.
InOrder(st, N) ==
  /\ \A i, j \in 1 .. N : st[i] = st[j] => i = j
  /\ \A k \in 1 .. N : st[k] \in Attributions /\ attr[st[k]].state = "pending"

LEMMA EarningsInOrder ==
  ASSUME Tables, NEW rows \in Rows, NEW N \in Nat, NEW st, DOMAIN st = 1 .. N, InOrder(st, N)
  PROVE  LET next == FoldLeft(Pay, rows, st) IN
         /\ next \in Rows
         /\ OnePublicIn(rows) => OnePublicIn(next)
         /\ \A i \in 1 .. N : \A s \in Grants : Owed(rows, st[i], s, 0) => Owed(next, st[i], s, Grant(s))
         /\ \A b, s, n : (\A i \in 1 .. N : st[i] # b) /\ Owed(rows, b, s, n) => Owed(next, b, s, n)
<1>1. PICK f : /\ f \in [0 .. N -> Rows] /\ f[0] = rows
               /\ \A k \in 1 .. N : f[k] = Pay(f[k - 1], st[k])
               /\ FoldLeft(Pay, rows, st) = f[N]
  <2>1. \A k \in 1 .. N : \A x \in Rows : Pay(x, st[k]) \in Rows
    BY PayStep DEF InOrder
  <2> QED BY ZenonT(60), <2>1, PaymentsRun
<1> DEFINE P(k) == /\ OnePublicIn(rows) => OnePublicIn(f[k])
                   /\ \A i \in 1 .. k : \A s \in Grants :
                        Owed(rows, st[i], s, 0) => Owed(f[k], st[i], s, Grant(s))
                   /\ \A b, s, n : (\A i \in 1 .. k : st[i] # b) /\ Owed(rows, b, s, n) => Owed(f[k], b, s, n)
           G == {k \in Nat : k <= N => P(k)}
<1>2. 0 \in G
  BY <1>1
<1>3. ASSUME NEW k \in Nat, k \in G PROVE k + 1 \in G
  <2> SUFFICES ASSUME k + 1 <= N PROVE P(k + 1)
    OBVIOUS
  <2> DEFINE a == st[k + 1]
  <2>1. /\ k \in 0 .. N /\ k + 1 \in 1 .. N /\ (k + 1) - 1 = k
        /\ \A i \in 1 .. k : i \in 1 .. N /\ i \in 1 .. (k + 1) /\ i # k + 1
        /\ \A i \in 1 .. (k + 1) : i \in 1 .. k \/ i = k + 1
    BY DEF InOrder
  <2>2. f[k] \in Rows /\ f[k + 1] = Pay(f[k], a)
    BY <1>1, <2>1
  <2>3. P(k)
    BY <1>3, <2>1
  <2>4. a \in Attributions /\ attr[a].state = "pending" /\ \A i \in 1 .. k : st[i] # a
    BY <2>1 DEF InOrder
  <2> HIDE DEF G, a
  <2>5. /\ OnePublicIn(f[k]) => OnePublicIn(f[k + 1])
        /\ \A s \in Grants : Owed(f[k], a, s, 0) => Owed(f[k + 1], a, s, Grant(s))
        /\ \A b, s, n : b # a /\ Owed(f[k], b, s, n) => Owed(f[k + 1], b, s, n)
    BY <2>2, <2>4, PayStep
  <2>6. ASSUME NEW i \in 1 .. (k + 1), NEW s \in Grants, Owed(rows, st[i], s, 0)
        PROVE  Owed(f[k + 1], st[i], s, Grant(s))
    <3>1. CASE i = k + 1
      <4>1. Owed(f[k], a, s, 0)
        BY <2>3, <2>4, <2>6, <3>1 DEF a
      <4> QED BY <2>5, <3>1, <4>1 DEF a
    <3>2. CASE i \in 1 .. k
      <4>1. Owed(f[k], st[i], s, Grant(s)) /\ st[i] # a
        BY <2>3, <2>4, <2>6, <3>2
      <4> QED BY <2>5, <4>1
    <3> QED BY <2>1, <3>1, <3>2
  <2>7. ASSUME NEW b, NEW s, NEW n, \A i \in 1 .. (k + 1) : st[i] # b, Owed(rows, b, s, n)
        PROVE  Owed(f[k + 1], b, s, n)
    <3>1. b # a /\ \A i \in 1 .. k : st[i] # b
      BY <2>1, <2>7 DEF a
    <3>2. Owed(f[k], b, s, n)
      BY <2>3, <2>7, <3>1
    <3> QED BY <2>5, <3>1, <3>2
  <2> QED BY <2>3, <2>5, <2>6, <2>7
<1> HIDE DEF G
<1>4. N \in G
  BY <1>2, <1>3, Induction
<1>5. P(N) /\ f[N] \in Rows
  BY <1>1, <1>4 DEF G
<1> QED BY <1>1, <1>5

LEMMA Earnings ==
  ASSUME Tables, NEW rows \in Rows, NEW as \in SUBSET Attributions,
         \A a \in as : attr[a].state = "pending"
  PROVE  LET next == WithEarned(rows, as) IN
         /\ next \in Rows
         /\ OnePublicIn(rows) => OnePublicIn(next)
         /\ \A a \in as : \A s \in Grants :
              Completes(a) /\ Owed(rows, a, s, 0) => Owed(next, a, s, Grant(s))
         /\ \A b, s, n : ~(b \in as /\ Completes(b)) /\ Owed(rows, b, s, n) => Owed(next, b, s, n)
<1> DEFINE T == {a \in as : Completes(a)}
           st == SetToSeq(T)
           N == Cardinality(T)
<1>1. IsFiniteSet(T)
  <2>1. IsFiniteSet(Attributions) /\ T \in SUBSET Attributions
    BY InvitesConstantsOK DEF InvitesConstantsOK
  <2> HIDE DEF T
  <2> QED BY <2>1, FS_Subset
<1>2. WithEarned(rows, as) = FoldLeft(Pay, rows, st)
  BY DEF WithEarned
<1>3. T \subseteq as
  OBVIOUS
<1>4. /\ N \in Nat /\ st \in [1 .. N -> T] /\ DOMAIN st = 1 .. N
      /\ \A i, j \in 1 .. N : st[i] = st[j] => i = j
      /\ \A t \in T : \E i \in 1 .. N : st[i] = t
  <2> HIDE DEF T
  <2> QED BY <1>1, SetListed
<1> HIDE DEF st, N
<1>5. \A k \in 1 .. N : st[k] \in T /\ st[k] \in Attributions /\ attr[st[k]].state = "pending"
  BY <1>4
<1>6. \A b : (b \in as /\ Completes(b)) <=> \E i \in 1 .. N : st[i] = b
  BY ZenonT(60), <1>4, <1>5
<1> DEFINE next == FoldLeft(Pay, rows, st)
<1>7. /\ next \in Rows
      /\ OnePublicIn(rows) => OnePublicIn(next)
      /\ \A i \in 1 .. N : \A s \in Grants : Owed(rows, st[i], s, 0) => Owed(next, st[i], s, Grant(s))
      /\ \A b, s, n : (\A i \in 1 .. N : st[i] # b) /\ Owed(rows, b, s, n) => Owed(next, b, s, n)
  <2>1. InOrder(st, N)
    BY <1>4, <1>5 DEF InOrder
  <2> HIDE DEF T
  <2> QED BY <1>4, <2>1, EarningsInOrder
<1> HIDE DEF next
<1>8. \A a \in as : \A s \in Grants :
        Completes(a) /\ Owed(rows, a, s, 0) => Owed(next, a, s, Grant(s))
  BY <1>6, <1>7
<1>9. \A b, s, n : ~(b \in as /\ Completes(b)) /\ Owed(rows, b, s, n) => Owed(next, b, s, n)
  BY <1>6, <1>7
<1> QED BY <1>2, <1>7, <1>8, <1>9 DEF next

\* The rows of the first k that are not gone, in their order: e says which.
Keeps(new, rows, k, gone, e) ==
  /\ new \in Rows /\ e \in [DOMAIN new -> 1 .. k]
  /\ \A i, j \in DOMAIN new : e[i] = e[j] => i = j
  /\ \A i \in DOMAIN new : new[i] = rows[e[i]] /\ rows[e[i]].attr \notin gone
  /\ \A j \in 1 .. k : rows[j].attr \notin gone => \E i \in DOMAIN new : e[i] = j

LEMMA KeepStep ==
  ASSUME NEW rows \in Rows, NEW k \in Nat, k + 1 \in DOMAIN rows, NEW gone,
         NEW new, NEW e, Keeps(new, rows, k, gone, e)
  PROVE  \E d : Keeps(KeptUnless(gone, new, rows[k + 1]), rows, k + 1, gone, d)
<1>0. \A j \in 1 .. (k + 1) : j \in 1 .. k \/ j = k + 1
  OBVIOUS
<1>1. CASE rows[k + 1].attr \in gone
  <2>1. e \in [DOMAIN new -> 1 .. (k + 1)]
    BY DEF Keeps
  <2>2. Keeps(new, rows, k + 1, gone, e)
    BY <1>0, <1>1, <2>1 DEF Keeps
  <2> QED BY <1>1, <2>2 DEF KeptUnless
<1>2. CASE rows[k + 1].attr \notin gone
  <2> DEFINE more == Append(new, rows[k + 1])
             n == Len(new) + 1
             d == [i \in DOMAIN more |-> IF i = n THEN k + 1 ELSE e[i]]
  <2>1. rows[k + 1] \in RowType /\ new \in Rows
    BY DEF Rows, Keeps
  <2>2. /\ more \in Rows /\ n \in DOMAIN more /\ more[n] = rows[k + 1]
        /\ \A i \in DOMAIN new : i \in DOMAIN more /\ i # n /\ more[i] = new[i]
        /\ \A i \in DOMAIN more : i \in DOMAIN new \/ i = n
    BY <2>1, OneMoreRow
  <2> HIDE DEF more, n
  <2>3. \A i \in DOMAIN new : e[i] \in 1 .. k /\ e[i] # k + 1 /\ e[i] \in 1 .. (k + 1)
    BY DEF Keeps
  <2>4. d \in [DOMAIN more -> 1 .. (k + 1)]
    BY <2>2, <2>3
  <2>5. d[n] = k + 1 /\ \A i \in DOMAIN new : d[i] = e[i]
    BY <2>2
  <2> HIDE DEF d
  <2>6. \A i, j \in DOMAIN more : d[i] = d[j] => i = j
    BY <2>2, <2>3, <2>5 DEF Keeps
  <2>7. \A i \in DOMAIN more : more[i] = rows[d[i]] /\ rows[d[i]].attr \notin gone
    BY <1>2, <2>2, <2>5 DEF Keeps
  <2>8. \A j \in 1 .. (k + 1) : rows[j].attr \notin gone => \E i \in DOMAIN more : d[i] = j
    BY <1>0, <2>2, <2>5 DEF Keeps
  <2>9. Keeps(more, rows, k + 1, gone, d)
    BY <2>2, <2>4, <2>6, <2>7, <2>8 DEF Keeps
  <2> QED BY <1>2, <2>9 DEF KeptUnless, more
<1> QED BY <1>1, <1>2

LEMMA Survivors ==
  ASSUME NEW rows \in Rows, NEW gone
  PROVE  LET next == Surviving(rows, gone) IN
         /\ next \in Rows
         /\ OnePublicIn(rows) => OnePublicIn(next)
         /\ \A a, s, n : Owed(rows, a, s, n) => Owed(next, a, s, IF a \in gone THEN 0 ELSE n)
<1>0. PICK N : N = Len(rows)
  OBVIOUS
<1>1. N \in Nat /\ DOMAIN rows = 1 .. N /\ \A i \in 1 .. N : rows[i] \in RowType
  BY <1>0 DEF Rows
<1>2. PICK f : RunsThrough(f, rows, N, gone) /\ Surviving(rows, gone) = f[N]
  <2>1. \A k \in 1 .. N : \A x \in Rows : KeptUnless(gone, x, rows[k]) \in Rows
    BY <1>1, OneMoreRow DEF KeptUnless
  <2>2. N \in Nat /\ DOMAIN rows = 1 .. N
    BY <1>1
  <2> QED BY <2>1, <2>2, SurvivorsRun
<1> DEFINE G == {k \in Nat : k <= N => \E e : Keeps(f[k], rows, k, gone, e)}
<1>3. 0 \in G
  <2>1. Keeps(<<>>, rows, 0, gone, <<>>)
    BY DEF Keeps, Rows
  <2> QED BY <1>2, <2>1 DEF RunsThrough
<1>4. ASSUME NEW k \in Nat, k \in G PROVE k + 1 \in G
  <2> SUFFICES ASSUME k + 1 <= N PROVE \E e : Keeps(f[k + 1], rows, k + 1, gone, e)
    OBVIOUS
  <2>1. k \in 0 .. N /\ k + 1 \in 1 .. N /\ (k + 1) - 1 = k
    BY <1>1
  <2>2. f[k + 1] = KeptUnless(gone, f[k], rows[k + 1])
    BY <1>2, <2>1 DEF RunsThrough
  <2>3. PICK e : Keeps(f[k], rows, k, gone, e)
    BY <1>4, <2>1, <1>1
  <2> HIDE DEF G
  <2> QED BY <1>1, <2>1, <2>2, <2>3, KeepStep
<1> HIDE DEF G
<1>5. N \in G
  BY <1>1, <1>3, <1>4, Induction
<1> DEFINE next == f[N]
<1>6. PICK e : Keeps(next, rows, N, gone, e)
  BY <1>1, <1>5 DEF G
<1> HIDE DEF next
<1>7. Thinned(next, rows, e)
  <2>1. \A i \in DOMAIN next : rows[e[i]].left <= rows[e[i]].left
    BY <1>1, <1>6, RowFields DEF Keeps
  <2> QED BY <1>1, <1>6, <2>1 DEF Thinned, Keeps
<1>8. OnePublicIn(rows) => OnePublicIn(next)
  BY <1>7, ThinnedPublic
<1>9. ASSUME NEW a, NEW s, NEW n, Owed(rows, a, s, n)
      PROVE  Owed(next, a, s, IF a \in gone THEN 0 ELSE n)
  <2>1. CASE a \in gone
    <3>1. \A i \in DOMAIN next : ~Is(next[i], a, s)
      BY <1>6, <2>1 DEF Keeps, Is
    <3>2. Owed(next, a, s, 0)
      BY <3>1 DEF Owed
    <3> QED BY <2>1, <3>2
  <2>2. CASE a \notin gone
    <3>1. \A i \in DOMAIN next : Is(next[i], a, s) => next[i].left = n
      BY <1>1, <1>6, <1>9 DEF Keeps, Owed
    <3>2. n > 0 => \E i \in DOMAIN next : Is(next[i], a, s)
      <4>1. \A j \in DOMAIN rows : Is(rows[j], a, s) => \E i \in DOMAIN next : Is(next[i], a, s)
        BY <1>1, <1>6, <2>2 DEF Keeps, Is
      <4> QED BY <1>9, <4>1 DEF Owed
    <3>3. Owed(next, a, s, n)
      BY <1>7, <1>9, <3>1, <3>2, ThinnedOwed
    <3> QED BY <2>2, <3>3
  <2> QED BY <2>1, <2>2
<1>10. next \in Rows
  BY <1>6 DEF Keeps
<1> QED BY <1>2, <1>8, <1>9, <1>10 DEF next

(***************************************************************************)
(* The steps.                                                              *)
(***************************************************************************)
LEMMA ConstantNumbers ==
  /\ TriggerRounds \in Nat /\ TriggerRounds > 0 /\ PairDedup \in Nat /\ PairDedup > 0
  /\ \A s : Grant(s) \in Nat /\ Grant(s) > 0
  /\ MaxTime \in Nat /\ MaxGames \in Nat /\ MaxJoins \in Nat
BY InvitesConstantsOK DEF InvitesConstantsOK, Grant

LEMMA Begins == Init => IInv
<1> SUFFICES ASSUME Init PROVE IInv
  OBVIOUS
<1> USE DEF Init
<1>1. \A a \in Attributions : attr[a] = NoAttribution /\ attr[a].state = None /\ ~Alive(a)
  BY AttrRows DEF NoAttribution, Alive
<1>2. Tables
  <2>1. NoAttribution \in AttrType
    BY DEF AttrType
  <2>2. buffs \in Seq(RowType)
    OBVIOUS
  <2>3. 0 \in 0 .. MaxTime /\ 0 \in 0 .. MaxGames /\ 0 \in 0 .. MaxJoins /\ 0 \in 0 .. TriggerRounds
    BY ConstantNumbers
  <2>4. used \in [Attributions -> [Grants -> Nat]]
    BY DEF Grants
  <2> QED BY <2>1, <2>2, <2>3, <2>4 DEF Tables
<1>3. RoomsAreFinite
  BY FS_EmptySet DEF RoomsAreFinite
<1>4. RoundsAreReal
  BY <1>1, AttrRows DEF RoundsAreReal
<1>5. PairsAreApart
  BY <1>1 DEF PairsAreApart
<1>6. BooksBalance
  <2> SUFFICES ASSUME NEW a \in Attributions, NEW s \in Grants
               PROVE  /\ Owed(buffs, a, s, Due(a, s)) /\ used[a][s] <= Grant(s)
                      /\ attr[a].state # "earned" => used[a][s] = 0
    BY DEF BooksBalance
  <2>1. Due(a, s) = 0
    BY <1>1, AttrRows DEF Due
  <2>2. Owed(<<>>, a, s, 0)
    BY DEF Owed
  <2>3. used[a][s] = 0
    BY DEF Grants
  <2> QED BY <2>1, <2>2, <2>3, ConstantNumbers
<1>7. OnePublicBonus
  BY DEF OnePublicBonus
<1> QED BY <1>2, <1>3, <1>4, <1>5, <1>6, <1>7 DEF IInv

\* Steps that change no invitation, but for the seat of its player.
SameInvitations ==
  \A a \in Attributions :
    /\ attr'[a].state = attr[a].state
    /\ Alive(a) => /\ attr'[a].inviter = attr[a].inviter /\ attr'[a].joiner = attr[a].joiner
                   /\ attr'[a].created = attr[a].created /\ attr'[a].rounds = attr[a].rounds

LEMMA BooksUntouched ==
  ASSUME IInv, SameInvitations, UNCHANGED <<buffs, real, used>>, now' \in Nat, now <= now'
  PROVE  RoundsAreReal' /\ PairsAreApart' /\ BooksBalance' /\ OnePublicBonus'
<1>1. \A a \in Attributions : (Alive(a))' <=> Alive(a)
  BY DEF SameInvitations, Alive
<1>2. RoundsAreReal'
  <2>1. \A a \in Attributions : attr[a].state \in {"pending", "earned"} => Alive(a)
    BY DEF Alive
  <2> QED BY <1>1, <2>1 DEF IInv, RoundsAreReal, SameInvitations
<1>3. PairsAreApart'
  BY <1>1 DEF IInv, PairsAreApart, SameInvitations, Inviter
<1>4. BooksBalance'
  BY DEF IInv, BooksBalance, Due, SameInvitations
<1>5. OnePublicBonus'
  <2>1. \A i \in DOMAIN buffs : buffs[i].expires \in Nat
    <3>1. \A i \in DOMAIN buffs : buffs[i] \in RowType
      BY DEF IInv, Tables
    <3> QED BY <3>1, RowFields
  <2>2. now \in Nat
    BY DEF IInv, Tables
  <2>3. \A i \in DOMAIN buffs : (Active(buffs[i]))' => Active(buffs[i])
    BY <2>1, <2>2 DEF Active
  <2>4. \A i, j \in DOMAIN buffs : (Reaches(buffs[i], buffs[j].who))' <=> Reaches(buffs[i], buffs[j].who)
    BY DEF Reaches
  <2> QED BY <2>3, <2>4 DEF IInv, OnePublicBonus
<1> QED BY <1>2, <1>3, <1>4, <1>5

LEMMA StillInvited ==
  ASSUME UNCHANGED attr PROVE SameInvitations
BY DEF SameInvitations

\* The steps that leave the tables of bonuses alone.
LEMMA RoomSteps ==
  ASSUME IInv, NEW r \in Rooms, NEW p,
         \/ p \in People /\ (MintInviteToken(r, p) \/ RevokeInviteToken(r, p) \/ CreateRoom(r, p))
         \/ StartRound(r) \/ PlayAgain(r)
  PROVE  IInv'
<1> USE DEF IInv
<1>1. UNCHANGED <<attr, buffs, now, real, used, games, joins>>
  BY DEF MintInviteToken, RevokeInviteToken, CreateRoom, StartRound, PlayAgain
<1>2. Tables' /\ RoomsAreFinite'
  <2>1. CASE p \in People /\ MintInviteToken(r, p)
    BY <1>1, <2>1 DEF MintInviteToken, Tables, RoomsAreFinite
  <2>2. CASE p \in People /\ RevokeInviteToken(r, p)
    BY <1>1, <2>2 DEF RevokeInviteToken, Tables, RoomsAreFinite
  <2>3. CASE p \in People /\ CreateRoom(r, p)
    <3>1. IsFiniteSet({p})
      BY FS_Singleton
    <3>2. RoomsAreFinite'
      BY <2>3, <3>1 DEF CreateRoom, RoomsAreFinite, Tables
    <3> QED BY <1>1, <2>3, <3>2 DEF CreateRoom, Tables
  <2>4. CASE StartRound(r)
    BY <1>1, <2>4 DEF StartRound, Tables, RoomsAreFinite
  <2>5. CASE PlayAgain(r)
    BY <1>1, <2>5 DEF PlayAgain, Tables, RoomsAreFinite
  <2> QED BY <2>1, <2>2, <2>3, <2>4, <2>5
<1>3. now \in Nat
  BY DEF Tables
<1>4. RoundsAreReal' /\ PairsAreApart' /\ BooksBalance' /\ OnePublicBonus'
  BY <1>1, <1>3, StillInvited, BooksUntouched
<1> QED BY <1>2, <1>4

LEMMA TickStep ==
  ASSUME IInv, Tick PROVE IInv'
<1>1. now \in Nat /\ now' \in 0 .. MaxTime /\ now' \in Nat /\ now <= now'
  BY ConstantNumbers DEF IInv, Tables, Tick
<1>2. UNCHANGED <<status, players, minter, attr, buffs, games, joins, real, used>>
  BY DEF Tick
<1>3. RoundsAreReal' /\ PairsAreApart' /\ BooksBalance' /\ OnePublicBonus'
  BY <1>1, <1>2, StillInvited, BooksUntouched
<1>4. Tables' /\ RoomsAreFinite'
  BY <1>1, <1>2 DEF IInv, Tables, RoomsAreFinite
<1> QED BY <1>3, <1>4 DEF IInv

LEMMA KickStep ==
  ASSUME IInv, NEW r \in Rooms, NEW p \in People, KickPlayer(r, p) PROVE IInv'
<1>1. UNCHANGED <<status, minter, buffs, now, games, joins, real, used>>
  BY DEF KickPlayer
<1>2. attr' \in [Attributions -> AttrType] /\ SameInvitations
  <2>1. CASE UNCHANGED attr
    BY <2>1, StillInvited DEF IInv, Tables
  <2>2. CASE attr' = Unseated(r, {p})
    <3>1. ASSUME NEW a \in Attributions
          PROVE  /\ attr'[a] \in AttrType /\ attr'[a].state = attr[a].state
                 /\ Alive(a) => /\ attr'[a].inviter = attr[a].inviter /\ attr'[a].joiner = attr[a].joiner
                                /\ attr'[a].created = attr[a].created /\ attr'[a].rounds = attr[a].rounds
      <4>1. attr[a] \in AttrType
        BY DEF IInv, Tables
      <4>2. CASE attr'[a] = attr[a]
        BY <4>1, <4>2
      <4>3. CASE attr'[a] = [attr[a] EXCEPT !.seat = None] /\ attr[a].state = "pending"
        <5>1. attr[a] \in AliveType
          BY <4>1, <4>3, AttrRows
        <5>2. attr'[a] \in AliveType
          BY <4>3, <5>1 DEF AliveType
        <5> QED BY <4>3, <5>1, <5>2, AttrRows DEF AliveType
      <4> QED BY <2>2, <4>2, <4>3 DEF Unseated
    <3>2. attr' = [a \in Attributions |-> attr'[a]]
      BY <2>2 DEF Unseated
    <3> QED BY <3>1, <3>2 DEF SameInvitations
  <2> QED BY <2>1, <2>2 DEF KickPlayer
<1>3. now' \in Nat /\ now <= now'
  BY <1>1 DEF IInv, Tables
<1>4. RoundsAreReal' /\ PairsAreApart' /\ BooksBalance' /\ OnePublicBonus'
  BY <1>1, <1>2, <1>3, BooksUntouched
<1>5. RoomsAreFinite'
  <2>1. players' = [players EXCEPT ![r] = @ \ {p}] /\ players \in [Rooms -> SUBSET People]
    BY DEF KickPlayer, IInv, Tables
  <2>2. IsFiniteSet(players[r])
    BY DEF IInv, RoomsAreFinite
  <2>3. IsFiniteSet(players[r] \ {p})
    BY <2>2, FS_RemoveElement
  <2> QED BY <2>1, <2>3 DEF RoomsAreFinite, IInv
<1>6. Tables'
  <2>1. players' = [players EXCEPT ![r] = @ \ {p}]
    BY DEF KickPlayer
  <2> QED BY <1>1, <1>2, <2>1 DEF IInv, Tables
<1> QED BY <1>4, <1>5, <1>6 DEF IInv

\* A joiner is attributed to an inviter when no other attribution of theirs,
\* of the window, is alive: so the pairs stay apart.
LEMMA AttributionStep ==
  ASSUME IInv, NEW r \in Rooms, NEW t \in Rooms, NEW p \in People, NEW a \in Attributions,
         Accepted(t, p), AttributeJoin(a, r, t, p), UNCHANGED <<buffs, now, real, used>>
  PROVE  /\ attr' \in [Attributions -> AttrType]
         /\ RoundsAreReal' /\ PairsAreApart' /\ BooksBalance' /\ OnePublicBonus'
<1> DEFINE row == [state |-> "pending", room |-> t, seat |-> r, inviter |-> minter[t], joiner |-> p,
                   rounds |-> 0, created |-> now, earned |-> now]
<1>1. /\ attr \in [Attributions -> AttrType] /\ attr' = [attr EXCEPT ![a] = row]
      /\ now \in 0 .. MaxTime /\ minter[t] \in People /\ attr[a] = NoAttribution
  BY DEF IInv, Tables, Accepted, AttributeJoin
<1>2. row \in AliveType
  BY <1>1, ConstantNumbers DEF AliveType
<1>3. /\ row.state = "pending" /\ row.rounds = 0 /\ row.inviter = minter[t] /\ row.joiner = p
      /\ row.created = now
  OBVIOUS
<1> HIDE DEF row
<1>4. attr' \in [Attributions -> AttrType]
  BY <1>1, <1>2, AttrRows
<1>5. /\ attr'[a] = row /\ attr[a].state = None /\ ~Alive(a)
      /\ \A b \in Attributions : b # a => attr'[b] = attr[b]
  BY <1>1, AttrRows DEF NoAttribution, Alive
<1>6. RoundsAreReal'
  <2>1. real[a] = 0
    BY <1>5 DEF IInv, RoundsAreReal
  <2> SUFFICES ASSUME NEW b \in Attributions
               PROVE  /\ real'[b] = IF (Alive(b))' THEN attr'[b].rounds ELSE 0
                      /\ attr'[b].state = "pending" => attr'[b].rounds < TriggerRounds
                      /\ attr'[b].state = "earned" => attr'[b].rounds = TriggerRounds
    BY DEF RoundsAreReal
  <2>2. CASE b = a
    BY <1>3, <1>5, <2>1, <2>2, ConstantNumbers DEF Alive
  <2>3. CASE b # a
    BY <1>5, <2>3 DEF IInv, RoundsAreReal, Alive
  <2> QED BY <2>2, <2>3
<1>7. ASSUME NEW b \in Attributions, b # a, (Alive(b))',
             VisitorOf[attr'[b].inviter] = VisitorOf[attr'[a].inviter],
             Key(attr'[b].joiner) = Key(attr'[a].joiner)
      PROVE  attr'[a].created >= attr'[b].created + PairDedup
  <2>1. attr'[b] = attr[b] /\ Alive(b)
    BY <1>5, <1>7 DEF Alive
  <2>2. attr[b].created \in Nat /\ now \in Nat
    <3>1. attr[b] \in AliveType
      BY <1>1, <2>1, AttrRows DEF Alive
    <3> QED BY <1>1, <3>1 DEF AliveType
  <2>3. ~(attr[b].created > now - PairDedup)
    BY <1>3, <1>5, <1>7, <2>1 DEF Accepted, PairSeen, Inviter
  <2> QED BY <1>3, <1>5, <2>1, <2>2, <2>3, ConstantNumbers
<1>8. PairsAreApart'
  <2> SUFFICES ASSUME NEW x \in Attributions, NEW y \in Attributions, x # y, (Alive(x))', (Alive(y))',
                      VisitorOf[attr'[x].inviter] = VisitorOf[attr'[y].inviter],
                      Key(attr'[x].joiner) = Key(attr'[y].joiner)
               PROVE  \/ attr'[x].created >= attr'[y].created + PairDedup
                      \/ attr'[y].created >= attr'[x].created + PairDedup
    BY DEF PairsAreApart, Inviter, Key
  <2>1. CASE x = a
    BY <1>7, <2>1
  <2>2. CASE y = a
    BY <1>7, <2>2
  <2>3. CASE x # a /\ y # a
    <3>1. Alive(x) /\ Alive(y) /\ attr'[x] = attr[x] /\ attr'[y] = attr[y]
      BY <1>5, <2>3 DEF Alive
    <3> QED BY <3>1 DEF IInv, PairsAreApart, Inviter
  <2> QED BY <2>1, <2>2, <2>3
<1>9. BooksBalance'
  <2> SUFFICES ASSUME NEW b \in Attributions, NEW s \in Grants
               PROVE  /\ Owed(buffs, b, s, (Due(b, s))') /\ used[b][s] <= Grant(s)
                      /\ attr'[b].state # "earned" => used[b][s] = 0
    BY DEF BooksBalance, Owed
  <2>1. (attr'[b].state = "earned") <=> (attr[b].state = "earned")
    BY <1>3, <1>5, AttrRows
  <2>2. (Due(b, s))' = Due(b, s)
    BY <2>1 DEF Due
  <2> QED BY <2>1, <2>2 DEF IInv, BooksBalance
<1>10. OnePublicBonus'
  BY DEF IInv, OnePublicBonus, Active, Reaches
<1> QED BY <1>4, <1>6, <1>8, <1>9, <1>10

LEMMA JoinStep ==
  ASSUME IInv, NEW r \in Rooms, NEW p \in People, JoinRoom(r, p) PROVE IInv'
<1>1. /\ UNCHANGED <<status, minter, buffs, now, games, real, used>>
      /\ players' = [players EXCEPT ![r] = @ \cup {p}] /\ joins' = joins + 1 /\ joins < MaxJoins
  BY DEF JoinRoom
<1>2. /\ attr' \in [Attributions -> AttrType]
      /\ RoundsAreReal' /\ PairsAreApart' /\ BooksBalance' /\ OnePublicBonus'
  <2>1. CASE UNCHANGED attr
    <3>1. now' \in Nat /\ now <= now' /\ attr' \in [Attributions -> AttrType]
      BY <1>1, <2>1 DEF IInv, Tables
    <3> QED BY <1>1, <2>1, <3>1, StillInvited, BooksUntouched
  <2>2. CASE \E t \in Rooms, a \in Attributions : Accepted(t, p) /\ AttributeJoin(a, r, t, p)
    BY <1>1, <2>2, AttributionStep
  <2> QED BY <2>1, <2>2 DEF JoinRoom
<1>3. RoomsAreFinite'
  <2>1. players \in [Rooms -> SUBSET People]
    BY DEF IInv, Tables
  <2>2. IsFiniteSet(players[r])
    BY DEF IInv, RoomsAreFinite
  <2>3. IsFiniteSet(players[r] \cup {p})
    BY <2>2, FS_AddElement
  <2> QED BY <1>1, <2>1, <2>3 DEF RoomsAreFinite, IInv
<1>4. Tables'
  <2>1. joins' \in 0 .. MaxJoins
    BY <1>1, ConstantNumbers DEF IInv, Tables
  <2> QED BY <1>1, <1>2, <2>1 DEF IInv, Tables
<1> QED BY <1>2, <1>3, <1>4 DEF IInv

\* A room that is deleted takes its invitations and their bonuses along.
LEMMA DeleteStep ==
  ASSUME IInv, NEW r \in Rooms, DeleteRoom(r) PROVE IInv'
<1> DEFINE gone == Cascaded(r)
<1>1. /\ UNCHANGED <<now, games, joins>>
      /\ status' = [status EXCEPT ![r] = "deleted"] /\ players' = [players EXCEPT ![r] = {}]
      /\ minter' = [minter EXCEPT ![r] = None]
      /\ attr' = [a \in Attributions |-> IF a \in gone THEN Deleted ELSE attr[a]]
      /\ buffs' = Surviving(buffs, gone)
      /\ real' = [a \in Attributions |-> IF a \in gone THEN 0 ELSE real[a]]
      /\ used' = [a \in Attributions |-> IF a \in gone THEN [s \in DOMAIN used[a] |-> 0] ELSE used[a]]
  BY DEF DeleteRoom
<1>2. buffs \in Rows /\ OnePublicIn(buffs)
  BY DEF IInv, Tables, Rows, OnePublicBonus, OnePublicIn
<1> HIDE DEF gone
<1>3. /\ buffs' \in Rows /\ OnePublicIn(buffs')
      /\ \A a, s, n : Owed(buffs, a, s, n) => Owed(buffs', a, s, IF a \in gone THEN 0 ELSE n)
  BY <1>1, <1>2, Survivors
<1>4. /\ \A a \in Attributions : a \in gone => attr'[a].state = "deleted" /\ ~(Alive(a))'
      /\ \A a \in Attributions : a \notin gone => attr'[a] = attr[a] /\ ((Alive(a))' <=> Alive(a))
  BY <1>1, AttrRows DEF Deleted, Alive
<1>5. Tables' /\ RoomsAreFinite'
  <2>1. attr' \in [Attributions -> AttrType]
    BY <1>1 DEF IInv, Tables, AttrType
  <2>2. /\ real' \in [Attributions -> 0 .. TriggerRounds]
        /\ used' \in [Attributions -> [Grants -> Nat]]
    BY <1>1, ConstantNumbers DEF IInv, Tables
  <2>3. RoomsAreFinite'
    BY <1>1, FS_EmptySet DEF IInv, Tables, RoomsAreFinite
  <2>4. buffs' \in Seq(RowType)
    BY <1>3 DEF Rows
  <2> QED BY <1>1, <2>1, <2>2, <2>3, <2>4 DEF IInv, Tables
<1>6. RoundsAreReal'
  <2> SUFFICES ASSUME NEW b \in Attributions
               PROVE  /\ real'[b] = IF (Alive(b))' THEN attr'[b].rounds ELSE 0
                      /\ attr'[b].state = "pending" => attr'[b].rounds < TriggerRounds
                      /\ attr'[b].state = "earned" => attr'[b].rounds = TriggerRounds
    BY DEF RoundsAreReal
  <2> QED BY <1>1, <1>4 DEF IInv, RoundsAreReal
<1>7. PairsAreApart'
  <2> SUFFICES ASSUME NEW x \in Attributions, NEW y \in Attributions, x # y, (Alive(x))', (Alive(y))',
                      VisitorOf[attr'[x].inviter] = VisitorOf[attr'[y].inviter],
                      Key(attr'[x].joiner) = Key(attr'[y].joiner)
               PROVE  \/ attr'[x].created >= attr'[y].created + PairDedup
                      \/ attr'[y].created >= attr'[x].created + PairDedup
    BY DEF PairsAreApart, Inviter, Key
  <2>1. Alive(x) /\ Alive(y) /\ attr'[x] = attr[x] /\ attr'[y] = attr[y]
    BY <1>4
  <2> QED BY <2>1 DEF IInv, PairsAreApart, Inviter
<1>8. BooksBalance'
  <2> SUFFICES ASSUME NEW b \in Attributions, NEW s \in Grants
               PROVE  /\ Owed(buffs', b, s, (Due(b, s))') /\ used'[b][s] <= Grant(s)
                      /\ attr'[b].state # "earned" => used'[b][s] = 0
    BY DEF BooksBalance, Owed
  <2>1. /\ Owed(buffs, b, s, Due(b, s)) /\ used[b][s] <= Grant(s)
        /\ attr[b].state # "earned" => used[b][s] = 0
    BY DEF IInv, BooksBalance
  <2>2. Owed(buffs', b, s, IF b \in gone THEN 0 ELSE Due(b, s))
    BY <1>3, <2>1
  <2>3. CASE b \in gone
    <3>1. (Due(b, s))' = 0
      BY <1>4, <2>3 DEF Due
    <3>2. used'[b][s] = 0
      <4>1. s \in DOMAIN used[b]
        BY DEF IInv, Tables
      <4> QED BY <1>1, <2>3, <4>1
    <3> QED BY <2>2, <2>3, <3>1, <3>2, ConstantNumbers
  <2>4. CASE b \notin gone
    <3>1. used'[b] = used[b] /\ attr'[b] = attr[b]
      BY <1>1, <2>4
    <3>2. (Due(b, s))' = Due(b, s)
      BY <3>1 DEF Due
    <3> QED BY <2>1, <2>2, <2>4, <3>1, <3>2
  <2> QED BY <2>3, <2>4
<1>9. OnePublicBonus'
  BY <1>1, <1>3 DEF OnePublicIn, OnePublicBonus, Active, Reaches
<1> QED BY <1>5, <1>6, <1>7, <1>8, <1>9 DEF IInv

(***************************************************************************)
(* The end of a round.                                                     *)
(***************************************************************************)
\* The attributions after it.
LEMMA RecordedRows ==
  ASSUME IInv, NEW r \in Rooms, NEW guessers, guessers \subseteq Awaited(r), Recorded(r, guessers),
         NEW a \in Attributions
  PROVE  LET counted == a \in Counted(r, guessers) IN
         /\ attr'[a] \in AttrType
         /\ attr'[a].state = IF counted /\ Completes(a) THEN "earned" ELSE attr[a].state
         /\ Alive(a) => /\ attr'[a].inviter = attr[a].inviter /\ attr'[a].joiner = attr[a].joiner
                        /\ attr'[a].created = attr[a].created
                        /\ attr'[a].rounds = attr[a].rounds + (IF counted THEN 1 ELSE 0)
         /\ real'[a] = real[a] + IF counted THEN 1 ELSE 0
<1> DEFINE counted == a \in Counted(r, guessers)
           row == IF counted THEN RecordRoundCompleted(a) ELSE attr[a]
<1>1. /\ attr[a] \in AttrType /\ now \in 0 .. MaxTime /\ guessers \subseteq People
      /\ attr'[a] = (IF attr[a].state = "pending" /\ attr[a].seat = r /\ attr[a].joiner \notin players[r]
                       THEN [row EXCEPT !.seat = None] ELSE row)
      /\ real'[a] = IF /\ attr[a].state = "pending" /\ attr[a].seat = r /\ attr[a].room = r
                       /\ attr[a].joiner \in guessers \/ attr[a].joiner \notin players[r]
                    THEN real[a] + 1 ELSE real[a]
  BY DEF IInv, Tables, Recorded, Awaited
<1>2. CASE ~(attr[a].state = "pending")
  <2>1. ~counted
    BY <1>2 DEF Counted
  <2>2. attr'[a] = attr[a] /\ real'[a] = real[a]
    BY <1>1, <1>2, <2>1
  <2>3. Alive(a) => attr[a].rounds \in Nat
    <3>1. Alive(a) => attr[a] \in AliveType
      BY <1>1, AttrRows DEF Alive
    <3> QED BY <3>1, ConstantNumbers DEF AliveType
  <2>4. real[a] \in Nat
    BY ConstantNumbers DEF IInv, Tables
  <2> QED BY <1>1, <2>1, <2>2, <2>3, <2>4
<1>3. CASE attr[a].state = "pending"
  <2>1. attr[a] \in AliveType /\ attr[a].rounds \in Nat /\ attr[a].rounds < TriggerRounds /\ real[a] \in Nat
    <3>1. attr[a] \in AliveType
      BY <1>1, <1>3, AttrRows
    <3>2. attr[a].rounds \in Nat
      BY <3>1, ConstantNumbers DEF AliveType
    <3>3. attr[a].rounds < TriggerRounds
      BY <1>3 DEF IInv, RoundsAreReal
    <3>4. real[a] \in Nat
      BY ConstantNumbers DEF IInv, Tables
    <3> QED BY <3>1, <3>2, <3>3, <3>4
  <2>2. real'[a] = real[a] + IF counted THEN 1 ELSE 0
    <3>1. attr[a].joiner \in People
      BY <2>1 DEF AliveType
    <3>2. counted <=> /\ attr[a].room = r /\ attr[a].seat = r
                      /\ attr[a].joiner \in guessers \/ attr[a].joiner \notin players[r]
      BY <1>3, <3>1 DEF Counted, RealGuessers
    <3> HIDE DEF counted
    <3> QED BY <1>1, <1>3, <2>1, <3>2
  <2>3. /\ row \in AliveType /\ row.state = (IF counted /\ Completes(a) THEN "earned" ELSE "pending")
        /\ row.inviter = attr[a].inviter /\ row.joiner = attr[a].joiner /\ row.created = attr[a].created
        /\ row.rounds = attr[a].rounds + IF counted THEN 1 ELSE 0
    <3>1. attr[a].rounds + 1 \in 0 .. TriggerRounds
      BY <2>1, ConstantNumbers
    <3>2. CASE ~counted
      BY <1>3, <2>1, <3>2
    <3>3. CASE counted /\ Completes(a)
      BY <1>1, <2>1, <3>1, <3>3 DEF RecordRoundCompleted, AliveType
    <3>4. CASE counted /\ ~Completes(a)
      BY <1>3, <2>1, <3>1, <3>4 DEF RecordRoundCompleted, AliveType
    <3> QED BY <3>2, <3>3, <3>4
  <2> HIDE DEF row, counted
  <2>4. attr'[a] = row \/ attr'[a] = [row EXCEPT !.seat = None]
    BY <1>1
  <2>5. /\ attr'[a] \in AliveType /\ attr'[a].state = row.state /\ attr'[a].inviter = row.inviter
        /\ attr'[a].joiner = row.joiner /\ attr'[a].created = row.created /\ attr'[a].rounds = row.rounds
    BY <2>3, <2>4 DEF AliveType
  <2>6. attr'[a] \in AttrType
    BY <2>5, AttrRows
  <2> QED BY <1>3, <2>2, <2>3, <2>5, <2>6 DEF counted
<1> QED BY <1>2, <1>3

\* What is owed once the round has paid, before a match has used anything.
DueAfter(a, s) == IF attr'[a].state = "earned" THEN Grant(s) - used[a][s] ELSE 0

LEMMA RoundRecorded ==
  ASSUME IInv, NEW r \in Rooms, NEW guessers, guessers \subseteq Awaited(r), Recorded(r, guessers)
  PROVE  /\ attr' \in [Attributions -> AttrType] /\ real' \in [Attributions -> 0 .. TriggerRounds]
         /\ RoundsAreReal' /\ PairsAreApart'
<1>1. \A a \in Attributions : (Alive(a))' <=> Alive(a)
  BY RecordedRows DEF Counted, Alive
<1>2. ASSUME NEW b \in Attributions
      PROVE  /\ real'[b] = IF (Alive(b))' THEN attr'[b].rounds ELSE 0
             /\ attr'[b].state = "pending" => attr'[b].rounds < TriggerRounds
             /\ attr'[b].state = "earned" => attr'[b].rounds = TriggerRounds
             /\ real'[b] \in 0 .. TriggerRounds
  <2> DEFINE counted == b \in Counted(r, guessers)
  <2>1. /\ attr'[b].state = IF counted /\ Completes(b) THEN "earned" ELSE attr[b].state
        /\ Alive(b) => attr'[b].rounds = attr[b].rounds + (IF counted THEN 1 ELSE 0)
        /\ real'[b] = real[b] + IF counted THEN 1 ELSE 0
    BY RecordedRows
  <2>2. /\ real[b] = IF Alive(b) THEN attr[b].rounds ELSE 0
        /\ attr[b].state = "pending" => attr[b].rounds < TriggerRounds
        /\ attr[b].state = "earned" => attr[b].rounds = TriggerRounds
        /\ real[b] \in 0 .. TriggerRounds
    BY DEF IInv, RoundsAreReal, Tables
  <2>3. counted => attr[b].state = "pending" /\ Alive(b)
    BY DEF Counted, Alive
  <2>4. Alive(b) <=> attr[b].state \in {"pending", "earned"}
    BY DEF Alive
  <2>5. Completes(b) <=> attr[b].rounds + 1 >= TriggerRounds
    BY DEF Completes
  <2> HIDE DEF counted
  <2>6. CASE ~counted
    BY <1>1, <2>1, <2>2, <2>4, <2>6, ConstantNumbers
  <2>7. CASE counted
    <3>1. real[b] = attr[b].rounds /\ attr[b].rounds \in Nat /\ attr[b].rounds < TriggerRounds
      BY <2>2, <2>3, <2>7, ConstantNumbers
    <3>2. attr'[b].rounds = attr[b].rounds + 1 /\ real'[b] = attr[b].rounds + 1
      BY <2>1, <2>3, <2>7, <3>1
    <3> QED BY <1>1, <2>1, <2>3, <2>5, <2>7, <3>1, <3>2, ConstantNumbers
  <2> QED BY <2>6, <2>7
<1>3. attr' \in [Attributions -> AttrType] /\ real' \in [Attributions -> 0 .. TriggerRounds]
  <2>1. attr' = [b \in Attributions |-> attr'[b]] /\ real' = [b \in Attributions |-> real'[b]]
    BY DEF Recorded
  <2> QED BY <1>2, <2>1, RecordedRows
<1>4. RoundsAreReal'
  BY <1>2 DEF RoundsAreReal
<1>5. PairsAreApart'
  <2> SUFFICES ASSUME NEW x \in Attributions, NEW y \in Attributions, x # y, (Alive(x))', (Alive(y))',
                      VisitorOf[attr'[x].inviter] = VisitorOf[attr'[y].inviter],
                      Key(attr'[x].joiner) = Key(attr'[y].joiner)
               PROVE  \/ attr'[x].created >= attr'[y].created + PairDedup
                      \/ attr'[y].created >= attr'[x].created + PairDedup
    BY DEF PairsAreApart, Inviter, Key
  <2>1. /\ Alive(x) /\ Alive(y)
        /\ attr'[x].inviter = attr[x].inviter /\ attr'[x].joiner = attr[x].joiner
        /\ attr'[x].created = attr[x].created
        /\ attr'[y].inviter = attr[y].inviter /\ attr'[y].joiner = attr[y].joiner
        /\ attr'[y].created = attr[y].created
    BY <1>1, RecordedRows
  <2> QED BY <2>1 DEF IInv, PairsAreApart, Inviter
<1> QED BY <1>3, <1>4, <1>5

LEMMA RoundPaid ==
  ASSUME IInv, NEW r \in Rooms, NEW guessers, guessers \subseteq Awaited(r), Recorded(r, guessers)
  PROVE  LET rows == WithEarned(buffs, Counted(r, guessers)) IN
         /\ rows \in Rows /\ OnePublicIn(rows)
         /\ \A a \in Attributions, s \in Grants :
              /\ DueAfter(a, s) \in Nat /\ Owed(rows, a, s, DueAfter(a, s))
              /\ attr'[a].state # "earned" => used[a][s] = 0
              /\ used[a][s] \in Nat /\ used[a][s] <= Grant(s)
<1> DEFINE as == Counted(r, guessers)
           rows == WithEarned(buffs, as)
<1>1. as \in SUBSET Attributions /\ \A a \in as : attr[a].state = "pending"
  BY DEF Counted
<1>2. buffs \in Rows /\ OnePublicIn(buffs) /\ Tables
  BY DEF IInv, Tables, Rows, OnePublicBonus, OnePublicIn
<1> HIDE DEF as
<1>3. /\ rows \in Rows /\ OnePublicIn(rows)
      /\ \A a \in as : \A s \in Grants :
           Completes(a) /\ Owed(buffs, a, s, 0) => Owed(rows, a, s, Grant(s))
      /\ \A b, s, n : ~(b \in as /\ Completes(b)) /\ Owed(buffs, b, s, n) => Owed(rows, b, s, n)
  BY <1>1, <1>2, Earnings
<1> HIDE DEF rows
<1>4. ASSUME NEW a \in Attributions, NEW s \in Grants
      PROVE  /\ DueAfter(a, s) \in Nat /\ Owed(rows, a, s, DueAfter(a, s))
             /\ attr'[a].state # "earned" => used[a][s] = 0
             /\ used[a][s] \in Nat /\ used[a][s] <= Grant(s)
  <2>1. attr'[a].state = IF a \in as /\ Completes(a) THEN "earned" ELSE attr[a].state
    BY RecordedRows DEF as
  <2>2. /\ Owed(buffs, a, s, Due(a, s)) /\ used[a][s] <= Grant(s) /\ used[a][s] \in Nat
        /\ attr[a].state # "earned" => used[a][s] = 0
    BY DEF IInv, BooksBalance, Tables
  <2>3. CASE a \in as /\ Completes(a)
    <3>1. Due(a, s) = 0 /\ used[a][s] = 0
      BY <1>1, <2>2, <2>3 DEF Due
    <3>2. DueAfter(a, s) = Grant(s)
      BY <2>1, <2>3, <3>1, ConstantNumbers DEF DueAfter
    <3> QED BY <1>3, <2>1, <2>2, <2>3, <3>1, <3>2, ConstantNumbers
  <2>4. CASE ~(a \in as /\ Completes(a))
    <3>1. DueAfter(a, s) = Due(a, s)
      BY <2>1, <2>4 DEF DueAfter, Due
    <3>2. DueAfter(a, s) \in Nat
      BY <2>2, ConstantNumbers DEF DueAfter
    <3> QED BY <1>3, <2>1, <2>2, <2>4, <3>1, <3>2
  <2> QED BY <2>3, <2>4
<1> QED BY <1>3, <1>4 DEF rows, as

LEMMA EndStep ==
  ASSUME IInv, NEW r \in Rooms, NEW guessers, EndRound(r, guessers) PROVE IInv'
<1>1. /\ guessers \subseteq Awaited(r) /\ Recorded(r, guessers)
      /\ buffs' = WithEarned(buffs, Counted(r, guessers))
      /\ status' = [status EXCEPT ![r] = "open"]
      /\ UNCHANGED <<players, minter, now, games, joins, used>>
  BY DEF EndRound
<1>2. /\ attr' \in [Attributions -> AttrType] /\ real' \in [Attributions -> 0 .. TriggerRounds]
      /\ RoundsAreReal' /\ PairsAreApart'
  BY <1>1, RoundRecorded
<1>3. /\ buffs' \in Rows /\ OnePublicIn(buffs')
      /\ \A a \in Attributions, s \in Grants :
           /\ DueAfter(a, s) \in Nat /\ Owed(buffs', a, s, DueAfter(a, s))
           /\ attr'[a].state # "earned" => used[a][s] = 0
           /\ used[a][s] \in Nat /\ used[a][s] <= Grant(s)
  BY <1>1, RoundPaid
<1>4. BooksBalance'
  <2> SUFFICES ASSUME NEW b \in Attributions, NEW s \in Grants
               PROVE  /\ Owed(buffs', b, s, (Due(b, s))') /\ used'[b][s] <= Grant(s)
                      /\ attr'[b].state # "earned" => used'[b][s] = 0
    BY DEF BooksBalance, Owed
  <2>1. (Due(b, s))' = DueAfter(b, s)
    BY <1>1 DEF Due, DueAfter
  <2> QED BY <1>1, <1>3, <2>1
<1>5. OnePublicBonus'
  BY <1>1, <1>3 DEF OnePublicIn, OnePublicBonus, Active, Reaches
<1>6. Tables' /\ RoomsAreFinite'
  BY <1>1, <1>2, <1>3 DEF IInv, Tables, RoomsAreFinite, Rows
<1> QED BY <1>2, <1>4, <1>5, <1>6 DEF IInv

\* The last round: a match uses bonuses, a public lobby gives one to each.
LEMMA FinishStep ==
  ASSUME IInv, NEW r \in Rooms, NEW guessers, NEW standings, FinishGame(r, guessers, standings)
  PROVE  IInv' /\ (r \in Public => \A p \in players[r] : HasBonus(buffs', p))
<1> DEFINE paid == WithEarned(buffs, Counted(r, guessers))
           saved == SaveToLeaderboard(paid, standings)
           final == Granted(r, saved.rows, standings)
           N == Cardinality(players[r])
<1>1. /\ guessers \subseteq Awaited(r) /\ Recorded(r, guessers)
      /\ status' = [status EXCEPT ![r] = "finished"] /\ games < MaxGames /\ games' = games + 1
      /\ standings \in SetToSeqs(players[r])
      /\ UNCHANGED <<players, minter, now, joins>>
  BY DEF FinishGame
<1>2. /\ buffs' = LastWrites(r, paid, standings).rows
      /\ used' = [a \in Attributions |->
           [s \in DOMAIN used[a] |-> used[a][s] + TimesUsed(LastWrites(r, paid, standings).taken, a, s)]]
  BY DEF FinishGame
<1>3. /\ N \in Nat /\ standings \in [1 .. N -> players[r]] /\ DOMAIN standings = 1 .. N
      /\ \A p \in players[r] : \E i \in 1 .. N : standings[i] = p
      /\ players[r] \subseteq People
  <2>1. Lists(standings, N, players[r])
    BY <1>1 DEF SetToSeqs, Lists
  <2>2. IsFiniteSet(players[r]) /\ players[r] \subseteq People
    BY DEF IInv, RoomsAreFinite, Tables
  <2>3. standings \in [1 .. N -> players[r]]
    BY <2>1 DEF Lists
  <2> HIDE DEF N
  <2> QED BY <2>1, <2>2, <2>3, Listing
<1> HIDE DEF N
<1>4. /\ paid \in Rows /\ OnePublicIn(paid)
      /\ \A a \in Attributions, s \in Grants :
           /\ DueAfter(a, s) \in Nat /\ Owed(paid, a, s, DueAfter(a, s))
           /\ attr'[a].state # "earned" => used[a][s] = 0
           /\ used[a][s] \in Nat /\ used[a][s] <= Grant(s)
  BY <1>1, RoundPaid
<1> HIDE DEF paid
<1>5. /\ saved \in Ledgers /\ OnePublicIn(saved.rows)
      /\ \A a, s, n : n \in Nat /\ Owed(paid, a, s, n) => Balances(saved, a, s, n)
  BY <1>3, <1>4, Match
<1>6. buffs' = final /\ LastWrites(r, paid, standings).taken = saved.taken
  <2>1. saved \in [rows : Rows, taken : Rows]
    BY <1>5 DEF Ledgers
  <2>2. LastWrites(r, paid, standings) = [saved EXCEPT !.rows = final]
    BY DEF LastWrites
  <2> HIDE DEF saved, final
  <2> QED BY <1>2, <2>1, <2>2
<1>7. used' = [a \in Attributions |-> [s \in DOMAIN used[a] |-> used[a][s] + TimesUsed(saved.taken, a, s)]]
  BY <1>2, <1>6
<1> HIDE DEF saved
<1>8. /\ final \in Rows /\ OnePublicIn(final)
      /\ \A a, n : \A s \in Grants : Owed(saved.rows, a, s, n) => Owed(final, a, s, n)
      /\ r \in Public => \A p \in players[r] : HasBonus(final, p)
  <2>1. saved.rows \in Rows
    BY <1>5 DEF Ledgers
  <2>2. CASE r \notin Public
    BY <1>5, <2>1, <2>2 DEF Granted
  <2>3. CASE r \in Public
    <3>1. standings \in [1 .. N -> People] /\ Tables
      BY <1>3 DEF IInv
    <3>2. LET next == FoldLeft(GrantPublicGameBuff, saved.rows, standings) IN
          /\ next \in Rows
          /\ OnePublicIn(saved.rows) => OnePublicIn(next)
          /\ \A a, n : \A s \in Grants : Owed(saved.rows, a, s, n) => Owed(next, a, s, n)
          /\ \A i \in 1 .. N : HasBonus(next, standings[i])
      <4>1. N \in Nat
        BY <1>3
      <4>2. PICK rows : rows = saved.rows
        OBVIOUS
      <4>3. rows \in Rows
        BY <2>1, <4>2
      <4>4. LET next == FoldLeft(GrantPublicGameBuff, rows, standings) IN
            /\ next \in Rows
            /\ OnePublicIn(rows) => OnePublicIn(next)
            /\ \A a, n : \A s \in Grants : Owed(rows, a, s, n) => Owed(next, a, s, n)
            /\ \A i \in 1 .. N : HasBonus(next, standings[i])
        BY <3>1, <4>1, <4>3, LobbyBonus
      <4> QED BY <4>2, <4>4
    <3>3. final = FoldLeft(GrantPublicGameBuff, saved.rows, standings)
      BY <2>3 DEF Granted
    <3> HIDE DEF final
    <3>4. /\ final \in Rows
          /\ OnePublicIn(saved.rows) => OnePublicIn(final)
          /\ \A a, n : \A s \in Grants : Owed(saved.rows, a, s, n) => Owed(final, a, s, n)
          /\ \A i \in 1 .. N : HasBonus(final, standings[i])
      BY <3>2, <3>3
    <3> QED BY <1>3, <1>5, <3>4
  <2> QED BY <2>2, <2>3
<1> HIDE DEF final
<1>9. /\ attr' \in [Attributions -> AttrType] /\ real' \in [Attributions -> 0 .. TriggerRounds]
      /\ RoundsAreReal' /\ PairsAreApart'
  BY <1>1, RoundRecorded
<1>10. ASSUME NEW b \in Attributions, NEW s \in Grants
       PROVE  /\ Owed(final, b, s, (Due(b, s))') /\ used'[b][s] <= Grant(s)
              /\ attr'[b].state # "earned" => used'[b][s] = 0
              /\ used'[b][s] \in Nat
  <2> DEFINE d == DueAfter(b, s)
             m == TimesUsed(saved.taken, b, s)
  <2>1. d \in Nat /\ Owed(paid, b, s, d) /\ used[b][s] \in Nat /\ used[b][s] <= Grant(s)
    BY <1>4
  <2>2. m \in Nat /\ d - m \in Nat /\ Owed(saved.rows, b, s, d - m)
    <3> HIDE DEF d
    <3> QED BY <1>5, <2>1 DEF Balances
  <2>3. Owed(final, b, s, d - m)
    <3> HIDE DEF d, m
    <3> QED BY <1>8, <2>2
  <2>4. used'[b][s] = used[b][s] + m
    <3>1. s \in DOMAIN used[b]
      BY DEF IInv, Tables
    <3> QED BY <1>7, <3>1
  <2>5. d = IF attr'[b].state = "earned" THEN Grant(s) - used[b][s] ELSE 0
    BY DEF DueAfter
  <2>6. (Due(b, s))' = IF attr'[b].state = "earned" THEN Grant(s) - used'[b][s] ELSE 0
    BY DEF Due, Grant
  <2> HIDE DEF d, m
  <2>7. CASE attr'[b].state = "earned"
    <3>1. Grant(s) \in Nat
      BY ConstantNumbers
    <3>2. (Due(b, s))' = d - m /\ used'[b][s] <= Grant(s) /\ used'[b][s] \in Nat
      BY <2>1, <2>2, <2>4, <2>5, <2>6, <2>7, <3>1
    <3> QED BY <2>3, <2>7, <3>2
  <2>8. CASE attr'[b].state # "earned"
    <3>1. d = 0 /\ m = 0 /\ used[b][s] = 0
      BY <1>4, <2>2, <2>5, <2>8
    <3>2. used'[b][s] = 0 /\ (Due(b, s))' = d - m
      BY <2>4, <2>6, <2>8, <3>1
    <3> QED BY <2>3, <3>2, ConstantNumbers
  <2> QED BY <2>7, <2>8
<1>11. BooksBalance'
  <2> SUFFICES ASSUME NEW b \in Attributions, NEW s \in Grants
               PROVE  /\ Owed(buffs', b, s, (Due(b, s))') /\ used'[b][s] <= Grant(s)
                      /\ attr'[b].state # "earned" => used'[b][s] = 0
    BY DEF BooksBalance, Owed
  <2> QED BY <1>6, <1>10
<1>12. OnePublicBonus'
  BY <1>1, <1>6, <1>8 DEF OnePublicIn, OnePublicBonus, Active, Reaches
<1>13. Tables' /\ RoomsAreFinite'
  <2>1. used' \in [Attributions -> [Grants -> Nat]]
    <3>1. \A a \in Attributions : DOMAIN used[a] = Grants
      BY DEF IInv, Tables
    <3>2. used' = [a \in Attributions |-> [s \in Grants |-> used'[a][s]]]
      BY <1>7, <3>1
    <3>3. \A a \in Attributions, s \in Grants : used'[a][s] \in Nat
      BY <1>10
    <3> QED BY <3>2, <3>3
  <2>2. games' \in 0 .. MaxGames
    BY <1>1, ConstantNumbers DEF IInv, Tables
  <2>3. buffs' \in Seq(RowType)
    BY <1>6, <1>8 DEF Rows
  <2>4. RoomsAreFinite'
    BY <1>1 DEF IInv, RoomsAreFinite
  <2> QED BY <1>1, <1>9, <2>1, <2>2, <2>3, <2>4 DEF IInv, Tables
<1> QED BY <1>6, <1>8, <1>9, <1>11, <1>12, <1>13 DEF IInv

(***************************************************************************)
(* The theorems.                                                           *)
(***************************************************************************)
LEMMA Step ==
  ASSUME IInv, Next
  PROVE  /\ IInv'
         /\ \A r \in Public : status[r] = "playing" /\ status'[r] = "finished" =>
              \A p \in players[r] : HasBonus(buffs', p)
<1> DEFINE Lobbies == \A r \in Public : status[r] = "playing" /\ status'[r] = "finished" =>
                        \A p \in players[r] : HasBonus(buffs', p)
<1>0. Public \subseteq Rooms /\ status \in [Rooms -> {None, "open", "playing", "finished", "deleted"}]
  BY InvitesConstantsOK DEF InvitesConstantsOK, IInv, Tables
<1>1. ASSUME NEW r \in Rooms, NEW p \in People,
             MintInviteToken(r, p) \/ RevokeInviteToken(r, p) \/ CreateRoom(r, p)
      PROVE  IInv' /\ Lobbies
  <2>1. Lobbies
    BY <1>0, <1>1 DEF MintInviteToken, RevokeInviteToken, CreateRoom
  <2> QED BY <1>1, <2>1, RoomSteps
<1>2. ASSUME NEW r \in Rooms, NEW p \in People, JoinRoom(r, p) PROVE IInv' /\ Lobbies
  <2>1. Lobbies
    BY <1>0, <1>2 DEF JoinRoom
  <2> QED BY <1>2, <2>1, JoinStep
<1>3. ASSUME NEW r \in Rooms, NEW p \in People, KickPlayer(r, p) PROVE IInv' /\ Lobbies
  <2>1. Lobbies
    BY <1>0, <1>3 DEF KickPlayer
  <2> QED BY <1>3, <2>1, KickStep
<1>4. ASSUME NEW r \in Rooms, DeleteRoom(r) PROVE IInv' /\ Lobbies
  <2>1. Lobbies
    BY <1>0, <1>4 DEF DeleteRoom
  <2> QED BY <1>4, <2>1, DeleteStep
<1>5. ASSUME NEW r \in Rooms, NEW guessers, EndRound(r, guessers) PROVE IInv' /\ Lobbies
  <2>1. Lobbies
    BY <1>0, <1>5 DEF EndRound
  <2> QED BY <1>5, <2>1, EndStep
<1>6. ASSUME NEW r \in Rooms, NEW guessers, NEW standings, FinishGame(r, guessers, standings)
      PROVE  IInv' /\ Lobbies
  <2>1. status' = [status EXCEPT ![r] = "finished"]
    BY <1>6 DEF FinishGame
  <2>2. IInv' /\ (r \in Public => \A p \in players[r] : HasBonus(buffs', p))
    BY <1>6, FinishStep
  <2>3. Lobbies
    BY <1>0, <2>1, <2>2
  <2> QED BY <2>2, <2>3
<1>7. ASSUME Tick PROVE IInv' /\ Lobbies
  <2>1. Lobbies
    BY <1>0, <1>7 DEF Tick
  <2> QED BY <1>7, <2>1, TickStep
<1>8. ASSUME NEW r \in Rooms, StartRound(r) \/ PlayAgain(r) PROVE IInv' /\ Lobbies
  <2>1. Lobbies
    BY <1>0, <1>8 DEF StartRound, PlayAgain
  <2>2. IInv'
    BY <1>8, RoomSteps
  <2> QED BY <2>1, <2>2
<1> HIDE DEF Lobbies
<1>9. IInv' /\ Lobbies
  <2>1. ASSUME NEW r \in Rooms, NEW p \in People,
               \/ MintInviteToken(r, p) \/ RevokeInviteToken(r, p)
               \/ CreateRoom(r, p) \/ JoinRoom(r, p) \/ KickPlayer(r, p)
        PROVE  IInv' /\ Lobbies
    BY <1>1, <1>2, <1>3, <2>1
  <2>2. ASSUME NEW r \in Rooms,
               \/ StartRound(r) \/ PlayAgain(r) \/ DeleteRoom(r)
               \/ \E guessers \in SUBSET Awaited(r) :
                    \/ EndRound(r, guessers)
                    \/ \E standings \in SetToSeqs(players[r]) : FinishGame(r, guessers, standings)
        PROVE  IInv' /\ Lobbies
    BY <1>4, <1>5, <1>6, <1>8, <2>2
  <2> QED BY <1>7, <2>1, <2>2 DEF Next
<1> QED BY <1>9 DEF Lobbies

LEMMA Invariant == Spec => []IInv
<1>1. Init => IInv
  BY Begins
<1>2. IInv /\ [Next]_vars => IInv'
  <2> SUFFICES ASSUME IInv, [Next]_vars PROVE IInv'
    OBVIOUS
  <2>1. CASE Next
    BY <2>1, Step
  <2>2. CASE UNCHANGED vars
    <3>1. UNCHANGED <<status, players, minter, attr, buffs, now, games, joins, real, used>>
      BY <2>2 DEF vars
    <3>2. now' \in Nat /\ now <= now'
      BY <3>1 DEF IInv, Tables
    <3>3. RoundsAreReal' /\ PairsAreApart' /\ BooksBalance' /\ OnePublicBonus'
      BY <3>1, <3>2, StillInvited, BooksUntouched
    <3> QED BY <3>1, <3>3 DEF IInv, Tables, RoomsAreFinite
  <2> QED BY <2>1, <2>2
<1> QED BY <1>1, <1>2, PTL DEF Spec

\* The tables hold rows of their types, and no bonus is used more often than
\* it was granted for (inviteRewards.ts).
THEOREM InvitesTypeCorrect == Spec => []TypeOK
<1>1. IInv => TypeOK
  BY DEF IInv, Tables, TypeOK, BooksBalance, Grants
<1> QED BY <1>1, Invariant, PTL

\* What is left of a grant is what the one row of it says.
LEMMA LeftIsOwed ==
  ASSUME NEW a, NEW s, NEW n \in Nat, Owed(buffs, a, s, n)
  PROVE  /\ LeftOf(a, s) = n
         /\ Cardinality({i \in DOMAIN buffs : buffs[i].attr = a /\ buffs[i].source = s}) <= 1
<1> DEFINE owned == {i \in DOMAIN buffs : buffs[i].attr = a /\ buffs[i].source = s}
<1>1. \A i \in owned, j \in owned : i = j
  BY DEF Owed, Is
<1>2. LeftOf(a, s) = IF owned = {} THEN 0 ELSE buffs[CHOOSE i \in owned : TRUE].left
  BY DEF LeftOf
<1>3. /\ \A i \in owned : buffs[i].left = n
      /\ n > 0 => owned # {}
  BY DEF Owed, Is
<1> HIDE DEF owned
<1>4. LeftOf(a, s) = n
  BY <1>2, <1>3
<1>5. Cardinality(owned) <= 1
  <2>1. CASE owned = {}
    BY <2>1, FS_EmptySet
  <2>2. CASE owned # {}
    <3>1. PICK i : owned = {i}
      BY <1>1, <2>2
    <3>2. Cardinality({i}) = 1
      BY FS_Singleton
    <3> QED BY <3>1, <3>2
  <2> QED BY <2>1, <2>2
<1> QED BY <1>4, <1>5 DEF owned

\* An invitation pays both sides once, and is earned by guessing in enough
\* rounds and by nothing else (recordRoundCompleted, applyBuffs), whatever the
\* rooms, the people and the sizes of the grants.
THEOREM InvitationsPayOnce == Spec => []PlayingPaysOnce
<1>1. IInv => PlayingPaysOnce
  <2> SUFFICES ASSUME IInv, NEW a \in Attributions
               PROVE  /\ \A s \in Grants :
                           Cardinality({i \in DOMAIN buffs : buffs[i].attr = a /\ buffs[i].source = s}) <= 1
                      /\ attr[a].state = "pending" => \A s \in Grants : LeftOf(a, s) + used[a][s] = 0
                      /\ attr[a].state = "earned" =>
                           /\ LeftOf(a, "invite_host") + used[a]["invite_host"] = HostMatches
                           /\ LeftOf(a, "invite_joiner") + used[a]["invite_joiner"] = JoinerMatches
                      /\ Alive(a) => (attr[a].state = "earned" <=> real[a] >= TriggerRounds)
    BY DEF PlayingPaysOnce, PaidOnce, Grants
  <2>1. ASSUME NEW s \in Grants
        PROVE  /\ Cardinality({i \in DOMAIN buffs : buffs[i].attr = a /\ buffs[i].source = s}) <= 1
               /\ attr[a].state = "pending" => LeftOf(a, s) + used[a][s] = 0
               /\ attr[a].state = "earned" => LeftOf(a, s) + used[a][s] = Grant(s)
    <3>1. /\ Owed(buffs, a, s, Due(a, s)) /\ used[a][s] <= Grant(s) /\ used[a][s] \in Nat
          /\ attr[a].state # "earned" => used[a][s] = 0
      BY DEF IInv, BooksBalance, Tables
    <3>2. Due(a, s) = IF attr[a].state = "earned" THEN Grant(s) - used[a][s] ELSE 0
      BY DEF Due
    <3>3. Due(a, s) \in Nat
      BY <3>1, <3>2, ConstantNumbers
    <3>4. /\ LeftOf(a, s) = Due(a, s)
          /\ Cardinality({i \in DOMAIN buffs : buffs[i].attr = a /\ buffs[i].source = s}) <= 1
      <4> DEFINE n == Due(a, s)
      <4>1. n \in Nat /\ Owed(buffs, a, s, n)
        BY <3>1, <3>3
      <4> HIDE DEF n
      <4>2. LeftOf(a, s) = n
        BY <4>1, LeftIsOwed
      <4>3. Cardinality({i \in DOMAIN buffs : buffs[i].attr = a /\ buffs[i].source = s}) <= 1
        BY <4>1, LeftIsOwed
      <4> QED BY <4>2, <4>3 DEF n
    <3>5. attr[a].state = "earned" => LeftOf(a, s) + used[a][s] = Grant(s)
      BY <3>1, <3>2, <3>4, ConstantNumbers
    <3>6. attr[a].state = "pending" => LeftOf(a, s) + used[a][s] = 0
      BY <3>1, <3>2, <3>4
    <3> QED BY <3>4, <3>5, <3>6
  <2>2. Alive(a) => (attr[a].state = "earned" <=> real[a] >= TriggerRounds)
    <3>1. Alive(a) => attr[a].rounds \in Nat
      <4>1. Alive(a) => attr[a] \in AliveType
        BY AttrRows DEF IInv, Tables, Alive
      <4> QED BY <4>1, ConstantNumbers DEF AliveType
    <3> QED BY <3>1, ConstantNumbers DEF IInv, RoundsAreReal, Alive
  <2>3. /\ "invite_host" \in Grants /\ "invite_joiner" \in Grants
        /\ Grant("invite_host") = HostMatches /\ Grant("invite_joiner") = JoinerMatches
    BY DEF Grants, Grant
  <2>4. \A s \in Grants : attr[a].state = "earned" => LeftOf(a, s) + used[a][s] = Grant(s)
    BY <2>1
  <2>5. attr[a].state = "earned" =>
          /\ LeftOf(a, "invite_host") + used[a]["invite_host"] = HostMatches
          /\ LeftOf(a, "invite_joiner") + used[a]["invite_joiner"] = JoinerMatches
    BY <2>3, <2>4
  <2> QED BY <2>1, <2>2, <2>5
<1> QED BY <1>1, Invariant, PTL

\* The invitations that pay one inviter for one joiner are a window apart,
\* through kicks, other rooms and other tokens (attributeJoin).
THEOREM FriendsCannotFarm == Spec => []PairsAreApart
<1>1. IInv => PairsAreApart
  BY DEF IInv
<1> QED BY <1>1, Invariant, PTL

\* Whoever finishes a match of a public lobby has an active bonus for the next
\* one, and one only (grantPublicGameBuff).
THEOREM PublicBonusIsKept == Spec => PublicBonusRemains
<1> DEFINE Kept ==
      /\ OnePublicBonus'
      /\ \A r \in Public :
           status[r] = "playing" /\ status'[r] = "finished" =>
             \A p \in players[r] : \E i \in DOMAIN buffs' :
               /\ buffs'[i].source = "public_game" /\ Reaches(buffs'[i], p)
               /\ buffs'[i].left > 0 /\ buffs'[i].expires > now
<1>1. IInv /\ Next => Kept
  <2> SUFFICES ASSUME IInv, Next PROVE Kept
    OBVIOUS
  <2>1. OnePublicBonus'
    BY Step DEF IInv
  <2>2. \A r \in Public : status[r] = "playing" /\ status'[r] = "finished" =>
          \A p \in players[r] : HasBonus(buffs', p)
    BY Step
  <2> QED BY <2>1, <2>2 DEF HasBonus, HasPublic, Active
<1>2. IInv /\ [Next]_vars => [Kept]_vars
  <2> HIDE DEF Kept
  <2> QED BY <1>1
<1>3. PublicBonusRemains <=> [][Kept]_vars
  BY DEF PublicBonusRemains
<1> HIDE DEF Kept
<1> QED BY <1>2, <1>3, Invariant, PTL DEF Spec
=============================================================================
