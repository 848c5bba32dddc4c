----------------------------- MODULE ProjectProofs -----------------------------
(***************************************************************************)
(* The project on disk (ProjectStore): what is true between any two file    *)
(* writes of a call, and so after a call that ends between them.            *)
(*                                                                         *)
(* What is on its timeline (Timeline): every edit by itself keeps the clips *)
(* valid and the transitions honest.                                        *)
(***************************************************************************)
EXTENDS ProjectStore, Timeline, FiniteSetTheorems, WellFoundedInduction, SequenceTheorems, TLAPS

-----------------------------------------------------------------------------
(* Replay puts the logged patches in the order of their numbers.           *)

Upto(S, n) == {m \in S : m <= n}

LEMMA SeqNumbersFinite ==
  ASSUME NEW S, S \subseteq SeqNumbers
  PROVE  IsFiniteSet(S) /\ S \subseteq Nat
<1>1. MaxPatches \in Nat  BY BoundAssumption
<1>2. IsFiniteSet(SeqNumbers) /\ SeqNumbers \subseteq Nat
  BY <1>1, FS_Interval DEF SeqNumbers
<1> QED  BY <1>2, FS_Subset

LEMMA RankIsIn ==
  ASSUME NEW S, IsFiniteSet(S), S \subseteq Nat, NEW n \in S
  PROVE  /\ Cardinality(Upto(S, n)) \in Nat /\ Cardinality(S) \in Nat
         /\ Cardinality(Upto(S, n)) \in 1 .. Cardinality(S)
<1>1. Upto(S, n) \in SUBSET S /\ n \in Upto(S, n)  BY DEF Upto
<1>2. IsFiniteSet(Upto(S, n)) /\ Cardinality(Upto(S, n)) <= Cardinality(S)
  BY <1>1, FS_Subset
<1>3. Cardinality(Upto(S, n)) \in Nat /\ Cardinality(S) \in Nat
  BY <1>2, FS_CardinalityType
<1>4. Cardinality(Upto(S, n)) # 0  BY <1>1, <1>2, FS_EmptySet
<1> QED  BY <1>2, <1>3, <1>4

LEMMA RankGrows ==
  ASSUME NEW S, IsFiniteSet(S), S \subseteq Nat, NEW m \in S, NEW n \in S, m < n
  PROVE  Cardinality(Upto(S, m)) < Cardinality(Upto(S, n))
<1>1. Upto(S, m) \in SUBSET Upto(S, n) /\ n \in Upto(S, n) /\ n \notin Upto(S, m)
  <2>1. m \in Nat /\ n \in Nat /\ \A k \in S : k \in Nat  OBVIOUS
  <2>2. \A k \in S : k <= m => k <= n  BY <2>1
  <2>3. n <= n /\ ~ (n <= m)  BY <2>1
  <2> QED  BY <2>2, <2>3 DEF Upto
<1>2. Upto(S, n) \in SUBSET S  BY DEF Upto
<1>3. IsFiniteSet(Upto(S, n))  BY <1>2, FS_Subset
<1>4. /\ Cardinality(Upto(S, m)) <= Cardinality(Upto(S, n))
      /\ Cardinality(Upto(S, m)) # Cardinality(Upto(S, n))
  BY <1>1, <1>3, FS_Subset
<1>5. Cardinality(Upto(S, m)) \in Nat /\ Cardinality(Upto(S, n)) \in Nat
  BY RankIsIn
<1> QED  BY <1>4, <1>5

LEMMA RankOnto ==
  ASSUME NEW S, IsFiniteSet(S), S \subseteq Nat, NEW i \in 1 .. Cardinality(S)
  PROVE  \E n \in S : Cardinality(Upto(S, n)) = i
<1> DEFINE f == [n \in S |-> Cardinality(Upto(S, n))]
<1>1. Cardinality(S) \in Nat  BY FS_CardinalityType
<1>2. IsFiniteSet(1 .. Cardinality(S)) /\ Cardinality(1 .. Cardinality(S)) = Cardinality(S)
  BY <1>1, FS_Interval
<1>3. f \in [S -> 1 .. Cardinality(S)]  BY RankIsIn
<1>4. \A m, n \in S : m # n => f[m] # f[n]
  <2> TAKE m, n \in S
  <2> HAVE m # n
  <2>1. m < n \/ n < m  OBVIOUS
  <2>2. Cardinality(Upto(S, m)) \in Nat /\ Cardinality(Upto(S, n)) \in Nat  BY RankIsIn
  <2>3. CASE m < n
    <3>1. Cardinality(Upto(S, m)) < Cardinality(Upto(S, n))  BY <2>3, RankGrows
    <3> QED  BY <3>1, <2>2
  <2>4. CASE n < m
    <3>1. Cardinality(Upto(S, n)) < Cardinality(Upto(S, m))  BY <2>4, RankGrows
    <3> QED  BY <3>1, <2>2
  <2> QED  BY <2>1, <2>3, <2>4
<1> HIDE DEF f
<1>5. f \in Injection(S, 1 .. Cardinality(S))
  BY <1>3, <1>4 DEF Injection, IsInjective
<1>6. f \in Surjection(S, 1 .. Cardinality(S))  BY <1>2, <1>5, FS_Injection
<1>7. PICK n \in S : f[n] = i  BY <1>6 DEF Surjection
<1> QED  BY <1>7 DEF f

LEMMA NthIsIn ==
  ASSUME NEW S, IsFiniteSet(S), S \subseteq Nat, NEW i \in 1 .. Cardinality(S)
  PROVE  Nth(S, i) \in S /\ Cardinality(Upto(S, Nth(S, i))) = i
<1>1. \E n \in S : Cardinality(Upto(S, n)) = i  BY RankOnto
<1>2. Nth(S, i) = CHOOSE n \in S : Cardinality(Upto(S, n)) = i  BY DEF Nth, Upto
<1> QED  BY <1>1, <1>2

LEMMA NthOfRank ==
  ASSUME NEW S, IsFiniteSet(S), S \subseteq Nat, NEW n \in S
  PROVE  Nth(S, Cardinality(Upto(S, n))) = n
<1> DEFINE k == Nth(S, Cardinality(Upto(S, n)))
<1>1. k \in S /\ Cardinality(Upto(S, k)) = Cardinality(Upto(S, n))
  BY RankIsIn, NthIsIn
<1> HIDE DEF k
<1>2. Cardinality(Upto(S, n)) \in Nat  BY RankIsIn
<1>3. ~ (k < n)
  <2> SUFFICES ASSUME k < n  PROVE FALSE  OBVIOUS
  <2>1. Cardinality(Upto(S, k)) < Cardinality(Upto(S, n))  BY <1>1, RankGrows
  <2> QED  BY <2>1, <1>1, <1>2
<1>4. ~ (n < k)
  <2> SUFFICES ASSUME n < k  PROVE FALSE  OBVIOUS
  <2>1. Cardinality(Upto(S, n)) < Cardinality(Upto(S, k))  BY <1>1, RankGrows
  <2> QED  BY <2>1, <1>1, <1>2
<1>5. k = n  BY <1>1, <1>3, <1>4
<1> QED  BY <1>5 DEF k

LEMMA ReplayInOrder ==
  ASSUME NEW S, S \subseteq SeqNumbers, \A n \in S : files[n] \in Patches
  PROVE  Replay(S) \in Seq(Patches) /\ InOrder(S, Replay(S))
<1>1. IsFiniteSet(S) /\ S \subseteq Nat  BY SeqNumbersFinite
<1> DEFINE size == Cardinality(S)
           s == Replay(S)
<1>2. size \in Nat  BY <1>1, FS_CardinalityType
<1>3. \A i \in 1 .. size : Nth(S, i) \in S  BY <1>1, NthIsIn
<1>4. s = [i \in 1 .. size |-> files[Nth(S, i)]]  BY DEF Replay
<1> HIDE DEF size, s
<1>5. s \in [1 .. size -> Patches]  BY <1>3, <1>4
<1>6. s \in Seq(Patches)  BY <1>2, <1>5
<1>7. ASSUME NEW m \in S, NEW n \in S
      PROVE  \E i, j \in DOMAIN s : s[i] = files[m] /\ s[j] = files[n] /\ (m < n => i < j)
  <2> DEFINE i == Cardinality(Upto(S, m))
             j == Cardinality(Upto(S, n))
  <2>1. i \in 1 .. size /\ j \in 1 .. size  BY <1>1, RankIsIn DEF size
  <2>2. Nth(S, i) = m /\ Nth(S, j) = n  BY <1>1, NthOfRank
  <2>3. m < n => i < j  BY <1>1, RankGrows
  <2> HIDE DEF i, j
  <2>4. s[i] = files[m] /\ s[j] = files[n]  BY <2>1, <2>2, <1>4
  <2>5. DOMAIN s = 1 .. size  BY <1>4
  <2> QED  BY <2>1, <2>3, <2>4, <2>5
<1>8. InOrder(S, s)  BY <1>7 DEF InOrder
<1> QED  BY <1>6, <1>8 DEF s

\* A log without a gap is replayed as it stands.
LEMMA ReplayInterval ==
  ASSUME NEW k \in Nat
  PROVE  Replay(1 .. k) = [i \in 1 .. k |-> files[i]]
<1>1. IsFiniteSet(1 .. k) /\ Cardinality(1 .. k) = k /\ 1 .. k \subseteq Nat
  BY FS_Interval
<1>2. ASSUME NEW i \in 1 .. k  PROVE Nth(1 .. k, i) = i
  <2>1. Upto(1 .. k, i) = 1 .. i  BY DEF Upto
  <2>2. Cardinality(Upto(1 .. k, i)) = i  BY <2>1, FS_Interval
  <2> QED  BY <1>1, <2>2, NthOfRank
<1> QED  BY <1>1, <1>2 DEF Replay

-----------------------------------------------------------------------------
(* A sequence and the files 1 .. k of a log f.                             *)

Filed(f, S) == {n \in S : f[n] # Missing}

\* The patches of the files are in s, in the order of their numbers.
Follows(f, k, s) ==
  \A m, n \in Filed(f, 1 .. k) : \E i, j \in DOMAIN s :
    s[i] = f[m] /\ s[j] = f[n] /\ (m < n => i < j)

\* s is the patches of the files.
Holds(f, k, s) == Len(s) = k /\ \A i \in 1 .. k : s[i] = f[i]

LEMMA PatchesAreNoFile ==
  /\ Patches \subseteq Nat /\ Missing \notin Patches
  /\ \A s \in Seq(Patches) : s # Missing
<1>1. Patches \subseteq Nat  BY BoundAssumption DEF Patches
<1>2. \A s \in Seq(Patches) : s \in Seq(Nat)  BY <1>1, SeqMonotonic
<1> QED  BY <1>1, <1>2, BoundAssumption

LEMMA FollowsFewer ==
  ASSUME NEW f, NEW k \in Nat, NEW s, Follows(f, k, s),
         NEW g, NEW l \in 0 .. k, \A n \in 1 .. l : g[n] \in {f[n], Missing}
  PROVE  Follows(g, l, s)
<1>1. \A n \in Filed(g, 1 .. l) : n \in Filed(f, 1 .. k) /\ g[n] = f[n]
  BY DEF Filed
<1> QED  BY <1>1 DEF Follows

LEMMA FollowsMore ==
  ASSUME NEW f, NEW k \in Nat, NEW P, NEW s \in Seq(P), NEW b \in Seq(P),
         Follows(f, k, s), \A i \in 1 .. Len(b) : f[k + i] = b[i]
  PROVE  Follows(f, k + Len(b), s \o b)
<1> DEFINE t == s \o b
           F == Filed(f, 1 .. k + Len(b))
<1>1. /\ DOMAIN t = 1 .. Len(s) + Len(b)
      /\ \A i \in 1 .. Len(s) : t[i] = s[i]
      /\ \A i \in 1 .. Len(b) : t[Len(s) + i] = b[i]
  BY ConcatProperties, LenProperties
<1>2. DOMAIN s = 1 .. Len(s) /\ Len(s) \in Nat /\ Len(b) \in Nat  BY LenProperties
<1> HIDE DEF t
<1>3. ASSUME NEW m \in F, NEW n \in F
      PROVE  \E i, j \in DOMAIN t : t[i] = f[m] /\ t[j] = f[n] /\ (m < n => i < j)
  <2>1. \A x \in F : x \in 1 .. k + Len(b) /\ (x <= k => x \in Filed(f, 1 .. k))
    BY DEF Filed
  <2>2. \A x \in F : x > k => Len(s) + (x - k) \in DOMAIN t /\ t[Len(s) + (x - k)] = f[x]
    <3> TAKE x \in F
    <3> HAVE x > k
    <3>1. x - k \in 1 .. Len(b) /\ k + (x - k) = x  BY <2>1, <1>2
    <3>2. f[k + (x - k)] = b[x - k]  BY <3>1
    <3> QED  BY <1>1, <1>2, <3>1, <3>2
  <2>3. \A x \in DOMAIN s : x \in DOMAIN t /\ t[x] = s[x]  BY <1>1, <1>2
  <2> HIDE DEF F
  <2>4. CASE m <= k /\ n <= k
    <3>1. PICK i \in DOMAIN s, j \in DOMAIN s :
            s[i] = f[m] /\ s[j] = f[n] /\ (m < n => i < j)
      BY <2>1, <2>4 DEF Follows
    <3> QED  BY <3>1, <2>3
  <2>5. CASE m <= k /\ n > k
    <3>1. PICK i \in DOMAIN s : s[i] = f[m]  BY <2>1, <2>5 DEF Follows
    <3>2. i < Len(s) + (n - k)  BY <2>1, <2>5, <1>2
    <3> QED  BY <3>1, <3>2, <2>2, <2>3, <2>5
  <2>6. CASE m > k /\ n <= k
    <3>1. PICK j \in DOMAIN s : s[j] = f[n]  BY <2>1, <2>6 DEF Follows
    <3>2. ~ (m < n)  BY <2>1, <2>6
    <3> QED  BY <3>1, <3>2, <2>2, <2>3, <2>6
  <2>7. CASE m > k /\ n > k
    <3>1. m < n => Len(s) + (m - k) < Len(s) + (n - k)  BY <2>1, <1>2
    <3> QED  BY <3>1, <2>2, <2>7
  <2>8. m \in Int /\ n \in Int  BY <2>1
  <2> QED  BY <2>4, <2>5, <2>6, <2>7, <2>8
<1> QED  BY <1>3 DEF Follows, t

LEMMA FollowsTop ==
  ASSUME NEW f, NEW k \in Nat, NEW s, Follows(f, k, s),
         NEW l \in Nat, \A n \in k + 1 .. l : f[n] = Missing
  PROVE  Follows(f, l, s)
<1>1. \A n \in Filed(f, 1 .. l) : n \in Filed(f, 1 .. k)
  BY DEF Filed
<1> QED  BY <1>1 DEF Follows

LEMMA ReplayFollows ==
  ASSUME NEW k \in Nat, 1 .. k \subseteq SeqNumbers,
         files \in [SeqNumbers -> Patches \union {Missing}]
  PROVE  Replay(Logged(1 .. k)) \in Seq(Patches) /\ Follows(files, k, Replay(Logged(1 .. k)))
<1>1. Logged(1 .. k) \subseteq SeqNumbers /\ \A n \in Logged(1 .. k) : files[n] \in Patches
  BY DEF Logged
<1>2. Filed(files, 1 .. k) = Logged(1 .. k)  BY DEF Filed, Logged
<1> QED  BY <1>1, <1>2, ReplayInOrder DEF InOrder, Follows

LEMMA ReplayHolds ==
  ASSUME NEW k \in Nat
  PROVE  Holds(files, k, Replay(1 .. k))
<1>1. Replay(1 .. k) = [i \in 1 .. k |-> files[i]]  BY ReplayInterval
<1>2. Len([i \in 1 .. k |-> files[i]]) = k  OBVIOUS
<1> QED  BY <1>1, <1>2 DEF Holds

-----------------------------------------------------------------------------
(* The calls that hold the locks.                                          *)

Unlocked == {Idle} \union [pc : {"create"}] \union [pc : {"undo"}, target : Nat]
Creating == [pc : {"createSeed", "createMeta"}]
Applying ==
  [pc : {"applyFiles", "applyMeta"}, batch : Seq(Patches), first : Nat, next : Nat,
   updated : Seq(Patches)]
Undoing ==
  [pc : {"undoMove", "undoMeta"}, target : Nat, discard : SUBSET SeqNumbers,
   rebuilt : Seq(Patches)]
Locked == Creating \union Applying \union Undoing

TypeInv ==
  /\ state \in Seq(Patches) \union {Missing}
  /\ seed \in BOOLEAN
  /\ metaSeq \in Nat \union {Missing}
  /\ files \in [SeqNumbers -> Patches \union {Missing}]
  /\ lock \in Writers \union {Nobody}
  /\ call \in [Writers -> Unlocked \union Locked]
  /\ issued \in 0 .. MaxPatches
  /\ acked \subseteq Patches
  /\ discarded \subseteq Patches
  /\ crashes \in Nat

LockInv == \A w \in Writers : lock = w <=> call[w] \in Locked

\* Before create has written the meta file nothing was ever applied.
EmptyInv ==
  /\ state = Missing => metaSeq = Missing
  /\ metaSeq = Missing => acked = {} /\ Filed(files, SeqNumbers) = {}
  /\ metaSeq \in Nat => metaSeq <= issued /\ seed

CreateInv(c) == metaSeq = Missing /\ state # Missing /\ (c.pc = "createMeta" => seed)

\* The files written so far, and the snapshot with them.
ApplyInv(c) ==
  /\ metaSeq \in Nat
  /\ c.first = metaSeq + 1
  /\ c.next \in 1 .. Len(c.batch) + 1
  /\ metaSeq + Len(c.batch) <= issued
  /\ \A i \in 1 .. c.next - 1 : files[metaSeq + i] = c.batch[i]
  /\ c.pc = "applyFiles" => c.updated = state \o c.batch
  /\ c.pc = "applyMeta" =>
       c.next = Len(c.batch) + 1 /\ Follows(files, metaSeq + Len(c.batch), state)

\* The files still to be moved are all there are above the target.
UndoInv(c) ==
  /\ metaSeq \in Nat
  /\ c.target < metaSeq
  /\ c.discard = Filed(files, c.target + 1 .. MaxPatches)
  /\ c.pc = "undoMove" => Follows(files, c.target, c.rebuilt)
  /\ c.pc = "undoMeta" => c.discard = {}

CallInv(c) ==
  /\ c \in Creating => CreateInv(c)
  /\ c \in Applying => ApplyInv(c)
  /\ c \in Undoing => UndoInv(c)

\* Whatever the recorded number covers is in the snapshot.
BehindInv == metaSeq \in Nat => Follows(files, metaSeq, state)

\* The file of an acknowledged patch stays where the recorded number covers it.
KeptInv ==
  \A p \in acked \ discarded : metaSeq \in Nat /\ \E n \in 1 .. metaSeq : files[n] = p

\* An undo that has read the recorded number finds one when it has the lock.
ReadInv == \A w \in Writers : call[w].pc = "undo" => metaSeq \in Nat

Inv ==
  /\ TypeInv /\ LockInv /\ EmptyInv /\ BehindInv /\ KeptInv /\ ReadInv
  /\ \A w \in Writers : CallInv(call[w])

-----------------------------------------------------------------------------
(* The parts a step leaves to its lock.                                    *)

LEMMA Kinds ==
  ASSUME NEW c \in Unlocked \union Locked
  PROVE  /\ c \in Locked <=> c \notin Unlocked
         /\ c \in Creating <=> c.pc \in {"createSeed", "createMeta"}
         /\ c \in Applying <=> c.pc \in {"applyFiles", "applyMeta"}
         /\ c \in Undoing <=> c.pc \in {"undoMove", "undoMeta"}
         /\ c \in Unlocked <=> c.pc \in {"idle", "create", "undo"}
BY DEF Unlocked, Locked, Creating, Applying, Undoing, Idle

LEMMA LockTaken ==
  ASSUME TypeInv, LockInv, NEW w \in Writers, lock = Nobody, lock' = w,
         NEW c \in Locked, call' = [call EXCEPT ![w] = c]
  PROVE  LockInv' /\ lock' \in Writers \union {Nobody}
         /\ call' \in [Writers -> Unlocked \union Locked] /\ call'[w] = c
BY BoundAssumption DEF TypeInv, LockInv

LEMMA LockReturned ==
  ASSUME TypeInv, LockInv, NEW w \in Writers, call[w] \in Locked, lock' = Nobody,
         call' = [call EXCEPT ![w] = Idle]
  PROVE  LockInv' /\ lock' \in Writers \union {Nobody}
         /\ call' \in [Writers -> Unlocked \union Locked] /\ call'[w] = Idle
<1>1. Idle \in Unlocked /\ Idle \notin Locked
  BY Kinds DEF Unlocked
<1>2. Nobody \notin Writers  BY BoundAssumption
<1> QED  BY <1>1, <1>2 DEF TypeInv, LockInv

LEMMA LockHeld ==
  ASSUME TypeInv, LockInv, NEW w \in Writers, call[w] \in Locked, lock' = lock,
         NEW c \in Locked, call' = [call EXCEPT ![w] = c]
  PROVE  LockInv' /\ lock' = w /\ lock' \in Writers \union {Nobody}
         /\ call' \in [Writers -> Unlocked \union Locked] /\ call'[w] = c
BY DEF TypeInv, LockInv

\* Only the holder of the lock has a call inside it.
LEMMA Solo ==
  ASSUME TypeInv', LockInv', NEW w \in Writers, lock' \in {w, Nobody}, CallInv(call[w])'
  PROVE  (\A v \in Writers : CallInv(call[v]))'
<1>1. ASSUME NEW v \in Writers, v # w  PROVE CallInv(call[v])'
  <2>1. call'[v] \notin Locked  BY <1>1, BoundAssumption DEF LockInv
  <2> QED  BY <2>1 DEF CallInv, Locked
<1> QED  BY <1>1

LEMMA ReadKept ==
  ASSUME Inv, NEW w \in Writers, NEW c, c.pc # "undo", call' = [call EXCEPT ![w] = c],
         metaSeq \in Nat => metaSeq' \in Nat
  PROVE  ReadInv'
<1>1. \A v \in Writers : call'[v].pc = "undo" => call[v].pc = "undo"
  BY DEF Inv, TypeInv
<1> QED  BY <1>1 DEF Inv, ReadInv

LEMMA UnlockedCall ==
  ASSUME NEW c \in Unlocked  PROVE CallInv(c)
BY Kinds DEF CallInv, Locked

\* A step that leaves the project as it is and the lock free of w.
LEMMA Quiet ==
  ASSUME Inv, NEW w \in Writers, NEW c \in Unlocked, call' = [call EXCEPT ![w] = c],
         lock' = (IF lock = w THEN Nobody ELSE lock), crashes' \in Nat,
         c.pc = "undo" => metaSeq \in Nat, UNCHANGED <<disk, issued, acked, discarded>>
  PROVE  Inv'
<1>1. TypeInv /\ LockInv /\ Nobody \notin Writers  BY BoundAssumption DEF Inv
<1>2. c \notin Locked  BY Kinds
<1>3. call'[w] = c /\ \A v \in Writers : v # w => call'[v] = call[v]
  BY <1>1 DEF TypeInv
<1>4. TypeInv'
  <2>1. lock' \in Writers \union {Nobody}  BY <1>1 DEF TypeInv
  <2>2. call' \in [Writers -> Unlocked \union Locked]  BY <1>1 DEF TypeInv
  <2> QED  BY <1>1, <2>1, <2>2 DEF TypeInv, disk
<1>5. LockInv'  BY <1>1, <1>2, <1>3 DEF LockInv, TypeInv
<1>6. EmptyInv' /\ BehindInv' /\ KeptInv'
  BY DEF Inv, EmptyInv, BehindInv, KeptInv, disk
<1>7. ASSUME NEW v \in Writers  PROVE CallInv(call[v])'
  <2>1. CASE v = w
    <3>1. CallInv(c)'  BY Kinds DEF CallInv, Locked
    <3> QED  BY <3>1, <2>1, <1>3 DEF CallInv, CreateInv, ApplyInv, UndoInv
  <2>2. CASE v # w
    <3>1. call'[v] = call[v] /\ CallInv(call[v])  BY <2>2, <1>3 DEF Inv
    <3> QED  BY <3>1 DEF CallInv, CreateInv, ApplyInv, UndoInv, disk
  <2> QED  BY <2>1, <2>2
<1>8. ReadInv'  BY <1>3 DEF Inv, ReadInv, disk
<1> QED  BY <1>4, <1>5, <1>6, <1>7, <1>8 DEF Inv

LEMMA InitInv ==
  ASSUME Init  PROVE Inv
<1>1. Idle \in Unlocked  BY DEF Unlocked
<1>2. TypeInv
  <2>1. MaxPatches \in Nat  BY BoundAssumption
  <2>2. call \in [Writers -> Unlocked \union Locked]  BY <1>1 DEF Init
  <2>3. files \in [SeqNumbers -> Patches \union {Missing}]  BY DEF Init
  <2>4. issued \in 0 .. MaxPatches /\ crashes \in Nat  BY <2>1 DEF Init
  <2> QED  BY <2>2, <2>3, <2>4 DEF Init, TypeInv
<1>3. LockInv  BY <1>1, Kinds, BoundAssumption DEF Init, LockInv
<1>4. EmptyInv /\ BehindInv /\ KeptInv
  BY BoundAssumption DEF Init, EmptyInv, BehindInv, KeptInv, Filed
<1>5. \A w \in Writers : CallInv(call[w])
  BY <1>1, UnlockedCall DEF Init
<1>6. ReadInv  BY DEF Init, ReadInv, Idle
<1> QED  BY <1>2, <1>3, <1>4, <1>5, <1>6 DEF Inv

-----------------------------------------------------------------------------
(* Each step keeps the invariant: create.                                  *)

LEMMA CreateStateStep ==
  ASSUME Inv, NEW w \in Writers, CreateState(w)  PROVE Inv'
<1>1. TypeInv /\ LockInv  BY DEF Inv
<1>2. CASE state # Missing
  <2>1. lock = Nobody /\ lock # w  BY BoundAssumption DEF CreateState
  <2>2. call' = [call EXCEPT ![w] = Idle] /\ lock' = lock
    BY <1>2 DEF CreateState, Goto
  <2>3. Idle \in Unlocked /\ Idle.pc # "undo"  BY DEF Unlocked, Idle
  <2>4. UNCHANGED <<disk, issued, acked, discarded>> /\ crashes' \in Nat
    BY <1>2, <1>1 DEF CreateState, disk, history, TypeInv
  <2> QED  BY <2>1, <2>2, <2>3, <2>4, Quiet
<1>3. CASE state = Missing
  <2> DEFINE c == [pc |-> "createSeed"]
  <2>1. c \in Creating /\ c \in Locked  BY DEF Creating, Locked
  <2>2. lock = Nobody /\ lock' = w /\ call' = [call EXCEPT ![w] = c]
    BY <1>3 DEF CreateState, Goto, Acquire
  <2>3. state' = <<>> /\ UNCHANGED <<seed, metaSeq, files, issued, acked, discarded, crashes>>
    BY <1>3 DEF CreateState, history
  <2>4. metaSeq = Missing  BY <1>3 DEF Inv, EmptyInv
  <2>5. c.pc = "createSeed"  OBVIOUS
  <2> HIDE DEF c
  <2>6. LockInv' /\ lock' \in Writers \union {Nobody}
        /\ call' \in [Writers -> Unlocked \union Locked] /\ call'[w] = c
    BY <1>1, <2>1, <2>2, LockTaken
  <2>7. TypeInv'  BY <1>1, <2>3, <2>6 DEF TypeInv
  <2>8. state' # Missing
    <3>1. <<>> \in Seq(Patches)  OBVIOUS
    <3> QED  BY <3>1, <2>3, PatchesAreNoFile
  <2>9. EmptyInv' /\ BehindInv' /\ KeptInv'
    BY <2>3, <2>4, <2>8, BoundAssumption DEF Inv, EmptyInv, BehindInv, KeptInv
  <2>10. CreateInv(c)'  BY <2>3, <2>4, <2>5, <2>8 DEF CreateInv
  <2>11. CallInv(call[w])'
    <3>1. c \notin Applying /\ c \notin Undoing  BY <2>1, <2>5, Kinds
    <3> QED  BY <2>6, <2>10, <3>1 DEF CallInv, CreateInv
  <2>12. ReadInv'  BY <2>2, <2>3, <2>5, ReadKept
  <2> QED  BY <2>2, <2>6, <2>7, <2>9, <2>11, <2>12, Solo DEF Inv
<1> QED  BY <1>2, <1>3

LEMMA CreateSeedStep ==
  ASSUME Inv, NEW w \in Writers, CreateSeed(w)  PROVE Inv'
<1>1. TypeInv /\ LockInv /\ CallInv(call[w])  BY DEF Inv
<1>2. call[w].pc = "createSeed"  BY DEF CreateSeed
<1>3. call[w] \in Creating /\ call[w] \in Locked  BY <1>1, <1>2, Kinds DEF TypeInv, Locked
<1>4. CreateInv(call[w])  BY <1>1, <1>3 DEF CallInv
<1> DEFINE c == [pc |-> "createMeta"]
<1>5. c \in Creating /\ c \in Locked /\ c.pc = "createMeta"  BY DEF Creating, Locked
<1>6. lock' = lock /\ call' = [call EXCEPT ![w] = c]  BY DEF CreateSeed, Goto
<1>7. seed' = TRUE /\ UNCHANGED <<state, metaSeq, files, issued, acked, discarded, crashes>>
  BY DEF CreateSeed, history
<1> HIDE DEF c
<1>8. LockInv' /\ lock' = w /\ lock' \in Writers \union {Nobody}
      /\ call' \in [Writers -> Unlocked \union Locked] /\ call'[w] = c
  BY <1>1, <1>3, <1>5, <1>6, LockHeld
<1>9. TypeInv'  BY <1>1, <1>7, <1>8 DEF TypeInv
<1>10. EmptyInv' /\ BehindInv' /\ KeptInv'
  BY <1>7 DEF Inv, EmptyInv, BehindInv, KeptInv
<1>11. CallInv(call[w])'
  <2>1. c \notin Applying /\ c \notin Undoing  BY <1>5, Kinds
  <2> QED  BY <1>4, <1>7, <1>8, <2>1 DEF CallInv, CreateInv
<1>12. ReadInv'  BY <1>5, <1>6, <1>7, ReadKept
<1> QED  BY <1>8, <1>9, <1>10, <1>11, <1>12, Solo DEF Inv

LEMMA CreateMetaStep ==
  ASSUME Inv, NEW w \in Writers, CreateMeta(w)  PROVE Inv'
<1>1. TypeInv /\ LockInv /\ CallInv(call[w])  BY DEF Inv
<1>2. call[w].pc = "createMeta"  BY DEF CreateMeta
<1>3. call[w] \in Creating /\ call[w] \in Locked  BY <1>1, <1>2, Kinds DEF TypeInv, Locked
<1>4. CreateInv(call[w])  BY <1>1, <1>3 DEF CallInv
<1>5. lock' = Nobody /\ call' = [call EXCEPT ![w] = Idle]  BY DEF CreateMeta, Return, Goto
<1>6. metaSeq' = 0 /\ UNCHANGED <<state, seed, files, issued, acked, discarded, crashes>>
  BY DEF CreateMeta, history
<1>7. LockInv' /\ lock' \in Writers \union {Nobody}
      /\ call' \in [Writers -> Unlocked \union Locked] /\ call'[w] = Idle
  BY <1>1, <1>3, <1>5, LockReturned
<1>8. TypeInv'  BY <1>1, <1>6, <1>7 DEF TypeInv
<1>9. metaSeq = Missing /\ state # Missing /\ seed  BY <1>2, <1>4 DEF CreateInv
<1>10. acked = {} /\ issued \in Nat  BY <1>1, <1>9 DEF Inv, EmptyInv, TypeInv
<1>11. EmptyInv' /\ KeptInv'
  BY <1>6, <1>9, <1>10, BoundAssumption DEF EmptyInv, KeptInv
<1>12. BehindInv'  BY <1>6 DEF BehindInv, Follows, Filed
<1>13. CallInv(call[w])'
  <2>1. Idle \in Unlocked  BY DEF Unlocked
  <2>2. Idle \notin Locked  BY <2>1, Kinds
  <2> QED  BY <1>7, <2>2 DEF CallInv, Locked
<1>14. ReadInv'
  <2>1. Idle.pc # "undo"  BY DEF Idle
  <2> QED  BY <2>1, <1>5, <1>6, ReadKept
<1> QED  BY <1>5, <1>7, <1>8, <1>11, <1>12, <1>13, <1>14, Solo DEF Inv

-----------------------------------------------------------------------------
(* apply_patches.                                                          *)

LEMMA BatchIsSeq ==
  ASSUME issued \in Nat, NEW size \in Nat, issued + size <= MaxPatches
  PROVE  Batch(size) \in Seq(Patches) /\ Len(Batch(size)) = size
<1>1. MaxPatches \in Nat  BY BoundAssumption
<1>2. \A i \in 1 .. size : issued + i \in Patches  BY <1>1 DEF Patches
<1> QED  BY <1>2 DEF Batch

LEMMA ApplyBeginStep ==
  ASSUME Inv, NEW w \in Writers, NEW size \in 1 .. MaxBatch, ApplyBegin(w, size)
  PROVE  Inv'
<1>1. TypeInv /\ LockInv  BY DEF Inv
<1>2. state \in Seq(Patches) /\ metaSeq \in Nat /\ metaSeq <= issued /\ issued \in Nat
  BY <1>1 DEF ApplyBegin, TypeInv, Inv, EmptyInv
<1> DEFINE b == Batch(size)
<1>3. b \in Seq(Patches) /\ Len(b) = size /\ size \in Nat /\ issued + size <= MaxPatches
  <2>1. MaxBatch \in Nat  BY BoundAssumption
  <2>2. size \in Nat  BY <2>1
  <2>3. issued + size <= MaxPatches  BY DEF ApplyBegin
  <2> QED  BY <1>2, <2>2, <2>3, BatchIsSeq
<1> HIDE DEF b
<1>0. PICK c : c = [pc |-> "applyFiles", batch |-> b, first |-> metaSeq + 1,
                    next |-> 1, updated |-> state \o b]
  OBVIOUS
<1>4. c \in Applying /\ c \in Locked /\ c.pc = "applyFiles"
  <2>1. state \o b \in Seq(Patches)  BY <1>2, <1>3, ConcatProperties
  <2>2. metaSeq + 1 \in Nat  BY <1>2
  <2> QED  BY <1>0, <1>3, <2>1, <2>2 DEF Applying, Locked
<1>5. lock = Nobody /\ lock' = w /\ call' = [call EXCEPT ![w] = c]
  BY <1>0 DEF ApplyBegin, Acquire, Goto, b
<1>6. issued' = issued + size /\ UNCHANGED <<state, seed, metaSeq, files, acked, discarded, crashes>>
  BY DEF ApplyBegin, disk
<1>7. c.batch = b /\ c.first = metaSeq + 1 /\ c.next = 1 /\ c.updated = state \o b
  BY <1>0
<1>8. LockInv' /\ lock' \in Writers \union {Nobody}
      /\ call' \in [Writers -> Unlocked \union Locked] /\ call'[w] = c
  BY <1>1, <1>4, <1>5, LockTaken
<1>9. TypeInv'
  <2>1. issued' \in 0 .. MaxPatches  BY <1>2, <1>3, <1>6
  <2> QED  BY <1>1, <1>6, <1>8, <2>1 DEF TypeInv
<1>10. EmptyInv'
  <2>1. metaSeq' <= issued'  BY <1>2, <1>3, <1>6
  <2> QED  BY <1>2, <1>6, <2>1, BoundAssumption DEF Inv, EmptyInv
<1>11. BehindInv' /\ KeptInv'
  BY <1>6 DEF Inv, BehindInv, KeptInv
<1>12. ReadInv'  BY <1>4, <1>5, <1>6, ReadKept
<1>13. CallInv(call[w])'
  <2>1. c \notin Creating /\ c \notin Undoing  BY <1>4, Kinds
  <2>2. metaSeq + size <= issued + size  BY <1>2, <1>3
  <2>3. ApplyInv(c)'  BY <1>2, <1>3, <1>4, <1>6, <1>7, <2>2 DEF ApplyInv
  <2> QED  BY <1>8, <2>1, <2>3 DEF CallInv, ApplyInv
<1> QED  BY <1>5, <1>8, <1>9, <1>10, <1>11, <1>12, <1>13, Solo DEF Inv

LEMMA ApplyingCall ==
  ASSUME Inv, NEW w \in Writers, call[w].pc \in {"applyFiles", "applyMeta"}
  PROVE  /\ TypeInv /\ LockInv /\ lock = w
         /\ call[w] \in Applying /\ call[w] \in Locked /\ ApplyInv(call[w])
         /\ metaSeq \in Nat /\ metaSeq # Missing /\ issued \in Nat /\ issued <= MaxPatches
         /\ state \in Seq(Patches) /\ MaxPatches \in Nat
         /\ files \in [SeqNumbers -> Patches \union {Missing}]
<1>1. TypeInv /\ LockInv /\ CallInv(call[w])  BY DEF Inv
<1>2. call[w] \in Applying /\ call[w] \in Locked
  BY <1>1, Kinds DEF TypeInv, Locked
<1>3. ApplyInv(call[w])  BY <1>1, <1>2 DEF CallInv
<1>4. metaSeq \in Nat /\ metaSeq # Missing  BY <1>3, BoundAssumption DEF ApplyInv
<1>5. state \in Seq(Patches)  BY <1>1, <1>4 DEF Inv, EmptyInv, TypeInv
<1>6. MaxPatches \in Nat  BY BoundAssumption
<1>7. lock = w  BY <1>1, <1>2 DEF LockInv
<1> QED  BY <1>1, <1>2, <1>3, <1>4, <1>5, <1>6, <1>7 DEF TypeInv

LEMMA ApplyFileStep ==
  ASSUME Inv, NEW w \in Writers, ApplyFile(w)  PROVE Inv'
<1>0. PICK c, n : c = call[w] /\ n = metaSeq + c.next  OBVIOUS
<1> DEFINE k == c.next
           d == [c EXCEPT !.next = @ + 1]
<1>1. c.pc = "applyFiles"  BY <1>0 DEF ApplyFile
<1>2. /\ TypeInv /\ LockInv /\ lock = w /\ c \in Applying /\ c \in Locked
      /\ metaSeq \in Nat /\ metaSeq # Missing /\ issued \in Nat /\ issued <= MaxPatches
      /\ MaxPatches \in Nat /\ files \in [SeqNumbers -> Patches \union {Missing}]
  BY <1>0, <1>1, ApplyingCall
<1>3. ApplyInv(c)  BY <1>0, <1>1, ApplyingCall
<1>4. k \in 1 .. Len(c.batch) /\ c.batch \in Seq(Patches)
  BY <1>0, <1>2, <1>3 DEF ApplyFile, Applying, ApplyInv
<1>5. c.first + c.next - 1 = n /\ n \in SeqNumbers /\ n > metaSeq /\ k \in Nat
      /\ Len(c.batch) \in Nat
  <2>1. c.first = metaSeq + 1 /\ metaSeq + Len(c.batch) <= issued  BY <1>3 DEF ApplyInv
  <2>2. Len(c.batch) \in Nat  BY <1>4, LenProperties
  <2> HIDE DEF k
  <2>3. k \in Nat /\ n = metaSeq + k  BY <1>0, <1>4, <2>2 DEF k
  <2>4. c.next = k  BY DEF k
  <2>5. c.first + c.next - 1 = n  BY <1>2, <2>1, <2>3, <2>4
  <2>6. n > metaSeq /\ n <= MaxPatches  BY <1>2, <1>4, <2>1, <2>2, <2>3
  <2>7. n \in SeqNumbers  BY <1>2, <2>3, <2>6 DEF SeqNumbers
  <2> QED  BY <2>2, <2>3, <2>5, <2>6, <2>7
<1>6. c.batch[k] \in Patches  BY <1>4, ElementOfSeq
<1>7. files' = [files EXCEPT ![n] = c.batch[k]]  BY <1>0, <1>5 DEF ApplyFile
<1>8. call' = [call EXCEPT ![w] = d] /\ lock' = lock
      /\ UNCHANGED <<state, seed, metaSeq, issued, acked, discarded, crashes>>
  BY <1>0 DEF ApplyFile, Goto, history
<1>9. d \in Applying /\ d.pc = "applyFiles" /\ d.next = k + 1 /\ d.batch = c.batch
      /\ d.first = c.first /\ d.updated = c.updated
  <2>1. k + 1 \in Nat  BY <1>5
  <2> QED  BY <1>1, <1>2, <2>1 DEF Applying
<1>10. d \in Locked  BY <1>9 DEF Locked
<1> HIDE DEF d, k
<1>11. LockInv' /\ lock' = w /\ lock' \in Writers \union {Nobody}
       /\ call' \in [Writers -> Unlocked \union Locked] /\ call'[w] = d
  BY <1>2, <1>8, <1>10, <1>0, LockHeld
<1>12. files' \in [SeqNumbers -> Patches \union {Missing}]  BY <1>2, <1>6, <1>7
<1>13. TypeInv'  BY <1>2, <1>8, <1>11, <1>12 DEF TypeInv
<1>14. \A i \in 1 .. metaSeq : files'[i] = files[i]
  BY <1>2, <1>5, <1>7 DEF SeqNumbers
<1>15. EmptyInv'  BY <1>2, <1>8 DEF Inv, EmptyInv
<1>16. BehindInv'
  <2>1. Follows(files, metaSeq, state)  BY <1>2 DEF Inv, BehindInv
  <2>2. Follows(files', metaSeq, state)  BY <1>2, <1>14, <2>1, FollowsFewer
  <2> QED  BY <1>8, <2>2 DEF BehindInv
<1>17. KeptInv'
  BY <1>8, <1>14 DEF Inv, KeptInv
<1>18. ReadInv'  BY <1>8, <1>9, ReadKept
<1>19. CallInv(call[w])'
  <2>1. d \notin Creating /\ d \notin Undoing  BY <1>9, <1>10, Kinds
  <2>2. \A i \in 1 .. k : files'[metaSeq + i] = c.batch[i]
    <3> TAKE i \in 1 .. k
    <3>1. CASE i = k  BY <3>1, <1>0, <1>5, <1>2, <1>7 DEF k
    <3>2. CASE i # k
      <4>1. i \in 1 .. k - 1 /\ metaSeq + i \in SeqNumbers /\ metaSeq + i # n
        <5>1. n = metaSeq + k  BY <1>0 DEF k
        <5> QED  BY <3>2, <1>5, <1>2, <5>1 DEF SeqNumbers
      <4>2. files[metaSeq + i] = c.batch[i]  BY <4>1, <1>3 DEF ApplyInv, k
      <4> QED  BY <4>1, <4>2, <1>2, <1>7
    <3> QED  BY <3>1, <3>2
  <2>3. d.next \in 1 .. Len(d.batch) + 1 /\ d.next - 1 = k  BY <1>4, <1>5, <1>9
  <2>4. ApplyInv(d)'
    <3>1. /\ c.first = metaSeq + 1 /\ metaSeq + Len(c.batch) <= issued
          /\ c.updated = state \o c.batch
      BY <1>1, <1>3 DEF ApplyInv
    <3>2. d.pc # "applyMeta"  BY <1>9
    <3> QED  BY <1>2, <1>8, <1>9, <2>2, <2>3, <3>1, <3>2 DEF ApplyInv
  <2> QED  BY <1>11, <2>1, <2>4 DEF CallInv, ApplyInv
<1> QED  BY <1>11, <1>13, <1>15, <1>16, <1>17, <1>18, <1>19, Solo DEF Inv

LEMMA ApplyStateStep ==
  ASSUME Inv, NEW w \in Writers, ApplyState(w)  PROVE Inv'
<1>0. PICK c : c = call[w]  OBVIOUS
<1> DEFINE d == [c EXCEPT !.pc = "applyMeta"]
<1>1. c.pc = "applyFiles"  BY <1>0 DEF ApplyState
<1>2. /\ TypeInv /\ LockInv /\ lock = w /\ c \in Applying /\ c \in Locked
      /\ metaSeq \in Nat /\ metaSeq # Missing /\ state \in Seq(Patches)
  BY <1>0, <1>1, ApplyingCall
<1>3. ApplyInv(c)  BY <1>0, <1>1, ApplyingCall
<1>4. /\ c.batch \in Seq(Patches) /\ Len(c.batch) \in Nat /\ c.next = Len(c.batch) + 1
      /\ c.updated = state \o c.batch /\ c.updated \in Seq(Patches)
  <2>1. c.batch \in Seq(Patches) /\ c.updated \in Seq(Patches) /\ c.next \in Nat
    BY <1>2 DEF Applying
  <2>2. Len(c.batch) \in Nat  BY <2>1, LenProperties
  <2>3. c.next > Len(c.batch) /\ c.next \in 1 .. Len(c.batch) + 1
    BY <1>0, <1>3 DEF ApplyState, ApplyInv
  <2>4. c.next = Len(c.batch) + 1  BY <2>1, <2>2, <2>3
  <2>5. c.updated = state \o c.batch  BY <1>1, <1>3 DEF ApplyInv
  <2> QED  BY <2>1, <2>2, <2>4, <2>5
<1>5. /\ call' = [call EXCEPT ![w] = d] /\ lock' = lock /\ state' = c.updated
      /\ UNCHANGED <<seed, metaSeq, files, issued, acked, discarded, crashes>>
  BY <1>0 DEF ApplyState, Goto, history
<1>6. d \in Applying /\ d.pc = "applyMeta" /\ d.next = c.next /\ d.batch = c.batch
      /\ d.first = c.first /\ d \in Locked
  BY <1>2 DEF Applying, Locked
<1> HIDE DEF d
<1>7. LockInv' /\ lock' = w /\ lock' \in Writers \union {Nobody}
      /\ call' \in [Writers -> Unlocked \union Locked] /\ call'[w] = d
  BY <1>0, <1>2, <1>5, <1>6, LockHeld
<1>8. TypeInv'  BY <1>2, <1>4, <1>5, <1>7 DEF TypeInv
<1>9. Follows(files, metaSeq + Len(c.batch), state')
  <2>1. Follows(files, metaSeq, state)  BY <1>2 DEF Inv, BehindInv
  <2>2. \A i \in 1 .. Len(c.batch) : files[metaSeq + i] = c.batch[i]
    BY <1>3, <1>4 DEF ApplyInv
  <2>3. state \in Seq(Patches)  BY <1>2
  <2>4. Follows(files, metaSeq + Len(c.batch), state \o c.batch)
    BY <1>2, <1>4, <2>1, <2>2, <2>3, FollowsMore
  <2> QED  BY <1>4, <1>5, <2>4
<1>10. Follows(files, metaSeq, state')
  <2>1. metaSeq + Len(c.batch) \in Nat /\ metaSeq \in 0 .. metaSeq + Len(c.batch)
    BY <1>2, <1>4
  <2> QED  BY <1>9, <2>1, FollowsFewer
<1>11. EmptyInv' /\ BehindInv' /\ KeptInv'
  <2>1. state' # Missing  BY <1>4, <1>5, PatchesAreNoFile
  <2> QED  BY <1>2, <1>5, <1>10, <2>1 DEF Inv, EmptyInv, BehindInv, KeptInv
<1>12. ReadInv'  BY <1>5, <1>6, ReadKept
<1>13. CallInv(call[w])'
  <2>1. d \notin Creating /\ d \notin Undoing  BY <1>6, Kinds
  <2>2. d.pc # "applyFiles"  BY <1>6
  <2>3. ApplyInv(d)'
    BY <1>3, <1>4, <1>5, <1>6, <1>9, <2>2 DEF ApplyInv
  <2> QED  BY <1>7, <2>1, <2>3 DEF CallInv, ApplyInv
<1> QED  BY <1>7, <1>8, <1>11, <1>12, <1>13, Solo DEF Inv

LEMMA ApplyMetaStep ==
  ASSUME Inv, NEW w \in Writers, ApplyMeta(w)  PROVE Inv'
<1>0. PICK c : c = call[w]  OBVIOUS
<1>1. c.pc = "applyMeta"  BY <1>0 DEF ApplyMeta
<1>2. /\ TypeInv /\ LockInv /\ lock = w /\ c \in Applying /\ c \in Locked
      /\ metaSeq \in Nat /\ metaSeq # Missing /\ state \in Seq(Patches) /\ issued \in Nat
  BY <1>0, <1>1, ApplyingCall
<1>3. ApplyInv(c)  BY <1>0, <1>1, ApplyingCall
<1> DEFINE size == Len(c.batch)
<1>4. c.batch \in Seq(Patches) /\ size \in Nat /\ DOMAIN c.batch = 1 .. size
  BY <1>2, LenProperties DEF Applying
<1>5. /\ c.first = metaSeq + 1 /\ c.next = size + 1 /\ metaSeq + size <= issued
      /\ \A i \in 1 .. c.next - 1 : files[metaSeq + i] = c.batch[i]
      /\ Follows(files, metaSeq + size, state)
  BY <1>1, <1>3 DEF ApplyInv
<1>6. \A i \in 1 .. size : files[metaSeq + i] = c.batch[i]
  BY <1>4, <1>5
<1>7. /\ call' = [call EXCEPT ![w] = Idle] /\ lock' = Nobody
      /\ acked' = acked \union {c.batch[i] : i \in 1 .. size}
      /\ UNCHANGED <<state, seed, files, issued, discarded, crashes>>
  BY <1>0, <1>4 DEF ApplyMeta, Return, Goto
<1>8. metaSeq' = metaSeq + size
  <2>1. metaSeq' = c.first + size - 1  BY <1>0 DEF ApplyMeta
  <2> HIDE DEF size
  <2> QED  BY <1>2, <1>4, <1>5, <2>1
<1> HIDE DEF size
<1>9. metaSeq' \in Nat /\ metaSeq' # Missing  BY <1>2, <1>4, <1>8, BoundAssumption
<1>10. LockInv' /\ lock' \in Writers \union {Nobody}
       /\ call' \in [Writers -> Unlocked \union Locked] /\ call'[w] = Idle
  BY <1>0, <1>2, <1>7, LockReturned
<1>11. TypeInv'
  <2>1. \A i \in 1 .. size : c.batch[i] \in Patches  BY <1>4
  <2>2. acked' \subseteq Patches  BY <1>2, <1>7, <2>1 DEF TypeInv
  <2> QED  BY <1>2, <1>7, <1>9, <1>10, <2>2 DEF TypeInv
<1>12. EmptyInv'
  <2>1. metaSeq' <= issued'  BY <1>5, <1>7, <1>8
  <2>2. seed /\ state # Missing  BY <1>2 DEF Inv, EmptyInv
  <2> QED  BY <1>7, <1>9, <2>1, <2>2 DEF EmptyInv
<1>13. BehindInv'  BY <1>5, <1>7, <1>8 DEF BehindInv
<1>14. KeptInv'
  <2> SUFFICES ASSUME NEW p \in acked' \ discarded'
               PROVE  \E n \in 1 .. metaSeq' : files'[n] = p
    BY <1>9 DEF KeptInv
  <2>1. CASE p \in acked
    <3>1. PICK n \in 1 .. metaSeq : files[n] = p  BY <1>7, <2>1 DEF Inv, KeptInv
    <3>2. n \in 1 .. metaSeq'  BY <1>2, <1>4, <1>8
    <3> QED  BY <3>1, <3>2, <1>7
  <2>2. CASE p \notin acked
    <3>1. PICK i \in 1 .. size : p = c.batch[i]  BY <1>7, <2>2
    <3>2. metaSeq + i \in 1 .. metaSeq'  BY <1>2, <1>4, <1>8
    <3> QED  BY <3>1, <3>2, <1>6, <1>7
  <2> QED  BY <2>1, <2>2
<1>15. ReadInv'
  <2>1. Idle.pc # "undo"  BY DEF Idle
  <2> QED  BY <2>1, <1>7, <1>9, ReadKept
<1>16. CallInv(call[w])'
  <2>1. Idle \in Unlocked  BY DEF Unlocked
  <2>2. Idle \notin Locked  BY <2>1, Kinds
  <2> QED  BY <1>10, <2>2 DEF CallInv, Locked
<1> QED  BY <1>7, <1>10, <1>11, <1>12, <1>13, <1>14, <1>15, <1>16, Solo DEF Inv

-----------------------------------------------------------------------------
(* undo.                                                                   *)

LEMMA UndoBeginStep ==
  ASSUME Inv, NEW w \in Writers, UndoBegin(w)  PROVE Inv'
<1>0. PICK t : t = call[w].target  OBVIOUS
<1>1. TypeInv /\ LockInv /\ MaxPatches \in Nat  BY BoundAssumption DEF Inv
<1>2. call[w].pc = "undo" /\ t < metaSeq  BY <1>0 DEF UndoBegin
<1>3. t \in Nat
  <2>1. call[w] \in Unlocked  BY <1>1, <1>2, Kinds DEF TypeInv
  <2> QED  BY <1>0, <1>2, <2>1 DEF Unlocked, Idle
<1>4. metaSeq \in Nat  BY <1>2 DEF Inv, ReadInv
<1>5. 1 .. t \subseteq SeqNumbers /\ t + 1 .. MaxPatches \subseteq SeqNumbers
      /\ t + 1 .. MaxPatches = t + 1 .. MaxPatches
  <2>1. metaSeq <= MaxPatches  BY <1>1, <1>4 DEF Inv, EmptyInv, TypeInv
  <2> QED  BY <1>1, <1>2, <1>3, <1>4, <2>1 DEF SeqNumbers
<1>6. PICK c : c = [pc |-> "undoMove", target |-> t,
                    discard |-> Filed(files, t + 1 .. MaxPatches),
                    rebuilt |-> Replay(Logged(1 .. t))]
  OBVIOUS
<1>7. Replay(Logged(1 .. t)) \in Seq(Patches) /\ Follows(files, t, Replay(Logged(1 .. t)))
  BY <1>1, <1>3, <1>5, ReplayFollows DEF TypeInv
<1>8. c \in Undoing /\ c \in Locked /\ c.pc = "undoMove"
  <2>1. Filed(files, t + 1 .. MaxPatches) \subseteq SeqNumbers  BY <1>5 DEF Filed
  <2> QED  BY <1>3, <1>6, <1>7, <2>1 DEF Undoing, Locked
<1>9. lock = Nobody /\ lock' = w /\ call' = [call EXCEPT ![w] = c]
  BY <1>0, <1>6 DEF UndoBegin, Acquire, Goto, Filed, Logged
<1>10. UNCHANGED <<state, seed, metaSeq, files, issued, acked, discarded, crashes>>
  BY DEF UndoBegin, disk, history
<1>11. LockInv' /\ lock' \in Writers \union {Nobody}
       /\ call' \in [Writers -> Unlocked \union Locked] /\ call'[w] = c
  BY <1>1, <1>8, <1>9, LockTaken
<1>12. TypeInv'  BY <1>1, <1>10, <1>11 DEF TypeInv
<1>13. EmptyInv' /\ BehindInv' /\ KeptInv'
  BY <1>10 DEF Inv, EmptyInv, BehindInv, KeptInv
<1>14. ReadInv'  BY <1>8, <1>9, <1>10, ReadKept
<1>15. CallInv(call[w])'
  <2>1. c \notin Creating /\ c \notin Applying  BY <1>8, Kinds
  <2>2. UndoInv(c)  BY <1>2, <1>4, <1>6, <1>7, <1>8 DEF UndoInv
  <2>3. UndoInv(c)'  BY <1>10, <2>2 DEF UndoInv
  <2> QED  BY <1>11, <2>1, <2>3 DEF CallInv, UndoInv
<1> QED  BY <1>9, <1>11, <1>12, <1>13, <1>14, <1>15, Solo DEF Inv

LEMMA UndoingCall ==
  ASSUME Inv, NEW w \in Writers, call[w].pc \in {"undoMove", "undoMeta"}
  PROVE  /\ TypeInv /\ LockInv /\ lock = w
         /\ call[w] \in Undoing /\ call[w] \in Locked /\ UndoInv(call[w])
         /\ metaSeq \in Nat /\ metaSeq # Missing /\ metaSeq <= MaxPatches /\ metaSeq <= issued
         /\ state # Missing /\ MaxPatches \in Nat
         /\ files \in [SeqNumbers -> Patches \union {Missing}]
<1>1. TypeInv /\ LockInv /\ CallInv(call[w])  BY DEF Inv
<1>2. call[w] \in Undoing /\ call[w] \in Locked
  BY <1>1, Kinds DEF TypeInv, Locked
<1>3. UndoInv(call[w])  BY <1>1, <1>2 DEF CallInv
<1>4. metaSeq \in Nat /\ metaSeq # Missing  BY <1>3, BoundAssumption DEF UndoInv
<1>5. state # Missing /\ metaSeq <= issued  BY <1>4 DEF Inv, EmptyInv
<1>6. MaxPatches \in Nat  BY BoundAssumption
<1>7. metaSeq <= MaxPatches  BY <1>1, <1>4, <1>5, <1>6 DEF TypeInv
<1>8. lock = w  BY <1>1, <1>2 DEF LockInv
<1> QED  BY <1>1, <1>2, <1>3, <1>4, <1>5, <1>6, <1>7, <1>8 DEF TypeInv

LEMMA SmallestNumber ==
  ASSUME NEW S, S \subseteq SeqNumbers, S # {}
  PROVE  (CHOOSE m \in S : \A k \in S : m <= k) \in S
<1>1. S \subseteq Nat  BY SeqNumbersFinite
<1>2. PICK m \in S : \A k \in S : ~ (<<k, m>> \in OpToRel(<, Nat))
  BY <1>1, WFMin, NatLessThanWellFounded
<1>3. ASSUME NEW k \in S  PROVE m <= k
  <2>1. <<k, m>> \in Nat \X Nat /\ <<k, m>>[1] = k /\ <<k, m>>[2] = m  BY <1>1
  <2>2. ~ (k < m)  BY <1>2, <2>1 DEF OpToRel
  <2> QED  BY <1>1, <2>2
<1> QED  BY <1>3

LEMMA UndoMoveStep ==
  ASSUME Inv, NEW w \in Writers, UndoMove(w)  PROVE Inv'
<1>0. PICK c : c = call[w]  OBVIOUS
<1>1. c.pc = "undoMove" /\ c.discard # {}  BY <1>0 DEF UndoMove
<1>2. /\ TypeInv /\ LockInv /\ lock = w /\ c \in Undoing /\ c \in Locked
      /\ metaSeq \in Nat /\ metaSeq # Missing /\ state # Missing
      /\ files \in [SeqNumbers -> Patches \union {Missing}] /\ MaxPatches \in Nat
  BY <1>0, <1>1, UndoingCall
<1>3. UndoInv(c)  BY <1>0, <1>1, UndoingCall
<1>4. c.discard \subseteq SeqNumbers /\ c.target \in Nat  BY <1>2 DEF Undoing
<1>5. PICK n : n = CHOOSE m \in c.discard : \A k \in c.discard : m <= k  OBVIOUS
<1>6. n \in c.discard  BY <1>1, <1>4, <1>5, SmallestNumber
<1> DEFINE d == [c EXCEPT !.discard = @ \ {n}]
<1>7. /\ call' = [call EXCEPT ![w] = d] /\ lock' = lock
      /\ files' = [files EXCEPT ![n] = Missing] /\ discarded' = discarded \union {files[n]}
      /\ UNCHANGED <<state, seed, metaSeq, issued, acked, crashes>>
  BY <1>0, <1>5 DEF UndoMove, Goto
<1>8. d \in Undoing /\ d.pc = "undoMove" /\ d.target = c.target /\ d.rebuilt = c.rebuilt
      /\ d.discard = c.discard \ {n} /\ d \in Locked
  BY <1>1, <1>2 DEF Undoing, Locked
<1> HIDE DEF d
<1>9. LockInv' /\ lock' = w /\ lock' \in Writers \union {Nobody}
      /\ call' \in [Writers -> Unlocked \union Locked] /\ call'[w] = d
  BY <1>0, <1>2, <1>7, <1>8, LockHeld
<1>10. c.discard = Filed(files, c.target + 1 .. MaxPatches) /\ c.target < metaSeq
       /\ Follows(files, c.target, c.rebuilt)
  BY <1>1, <1>3 DEF UndoInv
<1>11. n \in SeqNumbers /\ files[n] \in Patches /\ n \in c.target + 1 .. MaxPatches
  BY <1>2, <1>4, <1>6, <1>10 DEF Filed
<1>12. \A m \in SeqNumbers : files'[m] = IF m = n THEN Missing ELSE files[m]
  BY <1>2, <1>7
<1>13. files' \in [SeqNumbers -> Patches \union {Missing}]  BY <1>2, <1>7
<1>14. TypeInv'
  <2>1. discarded' \subseteq Patches  BY <1>2, <1>7, <1>11 DEF TypeInv
  <2> QED  BY <1>2, <1>7, <1>9, <1>13, <2>1 DEF TypeInv
<1>15. EmptyInv'  BY <1>2, <1>7 DEF Inv, EmptyInv
<1>16. 1 .. metaSeq \subseteq SeqNumbers /\ 1 .. c.target \subseteq SeqNumbers
  <2>1. metaSeq <= MaxPatches  BY <1>0, <1>1, UndoingCall
  <2> QED  BY <2>1, <1>2, <1>4, <1>10 DEF SeqNumbers
<1>17. BehindInv'
  <2>1. Follows(files, metaSeq, state)  BY <1>2 DEF Inv, BehindInv
  <2>2. \A m \in 1 .. metaSeq : files'[m] \in {files[m], Missing}  BY <1>12, <1>16
  <2>3. metaSeq \in 0 .. metaSeq  BY <1>2
  <2>4. Follows(files', metaSeq, state)  BY <1>2, <2>1, <2>2, <2>3, FollowsFewer
  <2> QED  BY <1>7, <2>4 DEF BehindInv
<1>18. KeptInv'
  <2> SUFFICES ASSUME NEW p \in acked' \ discarded'
               PROVE  \E m \in 1 .. metaSeq' : files'[m] = p
    BY <1>2, <1>7 DEF KeptInv
  <2>1. p \in acked \ discarded /\ p # files[n]  BY <1>7
  <2>2. PICK m \in 1 .. metaSeq : files[m] = p  BY <2>1 DEF Inv, KeptInv
  <2>3. files'[m] = p  BY <2>1, <2>2, <1>12, <1>16
  <2> QED  BY <2>3, <1>7
<1>19. ReadInv'  BY <1>7, <1>8, ReadKept
<1>20. CallInv(call[w])'
  <2>1. d \notin Creating /\ d \notin Applying  BY <1>8, Kinds
  <2>2. d.discard = Filed(files', d.target + 1 .. MaxPatches)
    <3>1. \A m \in c.target + 1 .. MaxPatches : m \in SeqNumbers  BY <1>4, <1>2 DEF SeqNumbers
    <3> QED  BY <1>8, <1>10, <1>12, <3>1 DEF Filed
  <2>3. Follows(files', d.target, d.rebuilt)
    <3>1. \A m \in 1 .. c.target : files'[m] \in {files[m], Missing}  BY <1>12, <1>16
    <3>2. c.target \in 0 .. c.target  BY <1>4
    <3> QED  BY <1>4, <1>8, <1>10, <3>1, <3>2, FollowsFewer
  <2>4. UndoInv(d)'  BY <1>2, <1>7, <1>8, <1>10, <2>2, <2>3 DEF UndoInv
  <2> QED  BY <1>9, <2>1, <2>4 DEF CallInv, UndoInv
<1> QED  BY <1>9, <1>14, <1>15, <1>17, <1>18, <1>19, <1>20, Solo DEF Inv

LEMMA UndoStateStep ==
  ASSUME Inv, NEW w \in Writers, UndoState(w)  PROVE Inv'
<1>0. PICK c : c = call[w]  OBVIOUS
<1>1. c.pc = "undoMove" /\ c.discard = {}  BY <1>0 DEF UndoState
<1>2. /\ TypeInv /\ LockInv /\ lock = w /\ c \in Undoing /\ c \in Locked
      /\ metaSeq \in Nat /\ metaSeq # Missing /\ metaSeq <= MaxPatches /\ MaxPatches \in Nat
  BY <1>0, <1>1, UndoingCall
<1>3. UndoInv(c)  BY <1>0, <1>1, UndoingCall
<1>4. c.rebuilt \in Seq(Patches) /\ c.target \in Nat  BY <1>2 DEF Undoing
<1> DEFINE d == [c EXCEPT !.pc = "undoMeta"]
<1>5. /\ call' = [call EXCEPT ![w] = d] /\ lock' = lock /\ state' = c.rebuilt
      /\ UNCHANGED <<seed, metaSeq, files, issued, acked, discarded, crashes>>
  BY <1>0 DEF UndoState, Goto, history
<1>6. d \in Undoing /\ d.pc = "undoMeta" /\ d.target = c.target
      /\ d.discard = c.discard /\ d \in Locked
  BY <1>2 DEF Undoing, Locked
<1> HIDE DEF d
<1>7. LockInv' /\ lock' = w /\ lock' \in Writers \union {Nobody}
      /\ call' \in [Writers -> Unlocked \union Locked] /\ call'[w] = d
  BY <1>0, <1>2, <1>5, <1>6, LockHeld
<1>8. TypeInv'  BY <1>2, <1>4, <1>5, <1>7 DEF TypeInv
<1>9. EmptyInv'
  <2>1. state' # Missing  BY <1>4, <1>5, PatchesAreNoFile
  <2> QED  BY <1>2, <1>5, <2>1 DEF Inv, EmptyInv
<1>10. c.discard = Filed(files, c.target + 1 .. MaxPatches) /\ c.target < metaSeq
       /\ Follows(files, c.target, c.rebuilt)
  BY <1>1, <1>3 DEF UndoInv
<1>11. BehindInv'
  <2>1. \A n \in c.target + 1 .. metaSeq : files[n] = Missing
    <3>1. \A n \in c.target + 1 .. metaSeq : n \in c.target + 1 .. MaxPatches
      BY <1>2, <1>4
    <3> QED  BY <1>1, <1>10, <3>1 DEF Filed
  <2>2. Follows(files, metaSeq, c.rebuilt)  BY <1>2, <1>4, <1>10, <2>1, FollowsTop
  <2> QED  BY <1>5, <2>2 DEF BehindInv
<1>12. KeptInv'  BY <1>5 DEF Inv, KeptInv
<1>13. ReadInv'  BY <1>5, <1>6, ReadKept
<1>14. CallInv(call[w])'
  <2>1. d \notin Creating /\ d \notin Applying /\ d.pc # "undoMove"  BY <1>6, Kinds
  <2>2. UndoInv(d)'  BY <1>1, <1>2, <1>5, <1>6, <1>10, <2>1 DEF UndoInv
  <2> QED  BY <1>7, <2>1, <2>2 DEF CallInv, UndoInv
<1> QED  BY <1>7, <1>8, <1>9, <1>11, <1>12, <1>13, <1>14, Solo DEF Inv

LEMMA UndoMetaStep ==
  ASSUME Inv, NEW w \in Writers, UndoMeta(w)  PROVE Inv'
<1>0. PICK c : c = call[w]  OBVIOUS
<1>1. c.pc = "undoMeta"  BY <1>0 DEF UndoMeta
<1>2. /\ TypeInv /\ LockInv /\ lock = w /\ c \in Undoing /\ c \in Locked
      /\ metaSeq \in Nat /\ metaSeq <= MaxPatches /\ metaSeq <= issued
      /\ state # Missing /\ MaxPatches \in Nat
  BY <1>0, <1>1, UndoingCall
<1>3. UndoInv(c)  BY <1>0, <1>1, UndoingCall
<1>4. c.target \in Nat /\ c.target < metaSeq /\ Filed(files, c.target + 1 .. MaxPatches) = {}
  BY <1>1, <1>2, <1>3 DEF Undoing, UndoInv
<1>5. /\ call' = [call EXCEPT ![w] = Idle] /\ lock' = Nobody /\ metaSeq' = c.target
      /\ UNCHANGED <<state, seed, files, issued, acked, discarded, crashes>>
  BY <1>0 DEF UndoMeta, Return, Goto, history
<1>6. metaSeq' \in Nat /\ metaSeq' # Missing  BY <1>4, <1>5, BoundAssumption
<1>7. LockInv' /\ lock' \in Writers \union {Nobody}
      /\ call' \in [Writers -> Unlocked \union Locked] /\ call'[w] = Idle
  BY <1>0, <1>2, <1>5, LockReturned
<1>8. TypeInv'  BY <1>2, <1>5, <1>6, <1>7 DEF TypeInv
<1>9. EmptyInv'
  <2>1. metaSeq' <= issued'  BY <1>2, <1>4, <1>5 DEF TypeInv
  <2>2. seed  BY <1>2 DEF Inv, EmptyInv
  <2> QED  BY <1>2, <1>5, <1>6, <2>1, <2>2 DEF EmptyInv
<1>10. BehindInv'
  <2>1. Follows(files, metaSeq, state)  BY <1>2 DEF Inv, BehindInv
  <2>2. c.target \in 0 .. metaSeq  BY <1>2, <1>4
  <2>3. Follows(files, c.target, state)  BY <1>2, <2>1, <2>2, FollowsFewer
  <2> QED  BY <1>5, <2>3 DEF BehindInv
<1>11. KeptInv'
  <2> SUFFICES ASSUME NEW p \in acked' \ discarded'
               PROVE  \E n \in 1 .. metaSeq' : files'[n] = p
    BY <1>6 DEF KeptInv
  <2>1. p \in acked \ discarded /\ p # Missing
    BY <1>2, <1>5, PatchesAreNoFile DEF TypeInv
  <2>2. PICK n \in 1 .. metaSeq : files[n] = p  BY <2>1 DEF Inv, KeptInv
  <2>3. n \notin c.target + 1 .. MaxPatches  BY <2>1, <2>2, <1>4 DEF Filed
  <2>4. n \in 1 .. c.target  BY <2>3, <1>2, <1>4
  <2> QED  BY <2>2, <2>4, <1>5
<1>12. ReadInv'
  <2>1. Idle.pc # "undo"  BY DEF Idle
  <2> QED  BY <2>1, <1>5, <1>6, ReadKept
<1>13. CallInv(call[w])'
  <2>1. Idle \in Unlocked  BY DEF Unlocked
  <2>2. Idle \notin Locked  BY <2>1, Kinds
  <2> QED  BY <1>7, <2>2 DEF CallInv, Locked
<1> QED  BY <1>5, <1>7, <1>8, <1>9, <1>10, <1>11, <1>12, <1>13, Solo DEF Inv

LEMMA QuietStep ==
  ASSUME Inv, NEW w \in Writers,
         \/ OpenMissing(w) \/ \E steps \in 1 .. MaxSteps : UndoRead(w, steps)
         \/ UndoRefused(w) \/ UndoReplayFails(w) \/ Crash(w)
  PROVE  Inv'
<1>1. TypeInv /\ LockInv /\ Nobody \notin Writers  BY BoundAssumption DEF Inv
<1>2. /\ Idle \in Unlocked /\ Idle.pc # "undo"
      /\ call[w].pc \in {"idle", "create", "undo"} => lock # w
  BY <1>1, Kinds DEF Unlocked, Idle, TypeInv, LockInv
<1>4. PICK c \in Unlocked : /\ call' = [call EXCEPT ![w] = c]
                            /\ c.pc = "undo" => metaSeq \in Nat
  <2>1. CASE OpenMissing(w)
    <3> DEFINE c == [pc |-> "create"]
    <3>1. c \in Unlocked /\ c.pc # "undo" /\ call' = [call EXCEPT ![w] = c]
      BY <2>1 DEF OpenMissing, Goto, Unlocked
    <3> QED  BY <3>1
  <2>2. ASSUME NEW steps \in 1 .. MaxSteps, UndoRead(w, steps)
        PROVE  \E c \in Unlocked : /\ call' = [call EXCEPT ![w] = c]
                                   /\ c.pc = "undo" => metaSeq \in Nat
    <3> DEFINE t == IF steps < metaSeq THEN metaSeq - steps ELSE 0
               c == [pc |-> "undo", target |-> t]
    <3>1. metaSeq \in Nat  BY <2>2, <1>1 DEF UndoRead, TypeInv
    <3>2. steps \in Nat  BY BoundAssumption
    <3>3. t \in Nat  BY <3>1, <3>2
    <3>4. call' = [call EXCEPT ![w] = c]  BY <2>2 DEF UndoRead, Goto
    <3> HIDE DEF t
    <3>5. c \in Unlocked  BY <3>3 DEF Unlocked
    <3> QED  BY <3>1, <3>4, <3>5
  <2>3. CASE UndoRefused(w) \/ UndoReplayFails(w) \/ Crash(w)
    <3>1. call' = [call EXCEPT ![w] = Idle]
      BY <2>3 DEF UndoRefused, UndoReplayFails, Crash, Goto
    <3> QED  BY <3>1, <1>2
  <2> QED  BY <2>1, <2>2, <2>3
<1>5. UNCHANGED <<disk, issued, acked, discarded>>
  BY DEF OpenMissing, UndoRead, UndoRefused, UndoReplayFails, Crash, history
<1>6. crashes' \in Nat
  <2>1. crashes' \in {crashes, crashes + 1}
    BY DEF OpenMissing, UndoRead, UndoRefused, UndoReplayFails, Crash, history
  <2>2. crashes \in Nat  BY <1>1 DEF TypeInv
  <2> QED  BY <2>1, <2>2
<1>7. lock' = IF lock = w THEN Nobody ELSE lock
  <2>1. CASE Crash(w)  BY <2>1 DEF Crash
  <2>2. CASE ~ Crash(w)
    <3>1. call[w] = Idle \/ call[w].pc \in {"create", "undo"}
      BY <2>2 DEF OpenMissing, UndoRead, UndoRefused, UndoReplayFails, Begin
    <3>2. lock' = lock
      BY <2>2 DEF OpenMissing, UndoRead, UndoRefused, UndoReplayFails
    <3>3. Idle.pc = "idle"  BY DEF Idle
    <3> QED  BY <3>1, <3>2, <3>3, <1>2
  <2> QED  BY <2>1, <2>2
<1> QED  BY <1>4, <1>5, <1>6, <1>7, Quiet

LEMMA StepInv == Inv /\ [Next]_vars => Inv'
<1> SUFFICES ASSUME Inv, [Next]_vars  PROVE Inv'  OBVIOUS
<1>1. CASE UNCHANGED vars
  BY <1>1 DEF vars, Inv, TypeInv, LockInv, EmptyInv, BehindInv, KeptInv, ReadInv,
              CallInv, CreateInv, ApplyInv, UndoInv
<1>2. ASSUME NEW w \in Writers, Create(w)  PROVE Inv'
  BY <1>2, QuietStep, CreateStateStep, CreateSeedStep, CreateMetaStep DEF Create
<1>3. ASSUME NEW w \in Writers, Apply(w)  PROVE Inv'
  BY <1>3, ApplyBeginStep, ApplyFileStep, ApplyStateStep, ApplyMetaStep DEF Apply
<1>4. ASSUME NEW w \in Writers, Undo(w)  PROVE Inv'
  BY <1>4, QuietStep, UndoBeginStep, UndoMoveStep, UndoStateStep, UndoMetaStep DEF Undo
<1>5. ASSUME NEW w \in Writers, Crash(w)  PROVE Inv'
  BY <1>5, QuietStep
<1> QED  BY <1>1, <1>2, <1>3, <1>4, <1>5 DEF Next

\* Whatever call ends between whatever file writes, an acknowledged patch is in
\* the snapshot until an undo sets its file aside (ProjectStore.apply_patches).
THEOREM AckedPatchesAreKept == Spec => []AckedIsKept
<1>1. Spec => []Inv
  BY InitInv, StepInv, PTL DEF Spec
<1>2. ASSUME Inv  PROVE AckedIsKept
  <2>1. ASSUME NEW p \in acked \ discarded  PROVE state # Missing /\ p \in Range(state)
    <3>1. metaSeq \in Nat /\ metaSeq # Missing  BY <1>2, BoundAssumption DEF Inv, KeptInv
    <3>2. PICK n \in 1 .. metaSeq : files[n] = p  BY <1>2 DEF Inv, KeptInv
    <3>3. n \in Filed(files, 1 .. metaSeq)
      BY <1>2, <3>2, PatchesAreNoFile DEF Inv, TypeInv, Filed
    <3>4. PICK i \in DOMAIN state : state[i] = p
      BY <1>2, <3>1, <3>2, <3>3 DEF Inv, BehindInv, Follows
    <3>5. state # Missing  BY <1>2, <3>1 DEF Inv, EmptyInv
    <3> QED  BY <3>4, <3>5 DEF Range
  <2> QED  BY <2>1 DEF AckedIsKept
<1> QED  BY <1>1, <1>2, PTL

\* Whatever call ends between whatever file writes, the numbered part of the log
\* has no patch the snapshot lacks, and has them in the order of the snapshot.
THEOREM LogStaysBehind == Spec => []LogBehindState
<1>1. Spec => []Inv
  BY InitInv, StepInv, PTL DEF Spec
<1>2. ASSUME Inv  PROVE LogBehindState
  <2>1. metaSeq # Missing => Follows(files, metaSeq, state)
    BY <1>2 DEF Inv, TypeInv, BehindInv
  <2> QED  BY <2>1 DEF LogBehindState, InOrder, Logged, Follows, Filed
<1> QED  BY <1>1, <1>2, PTL

-----------------------------------------------------------------------------
(* Until a call ends half way, the log has no gap and is the snapshot.      *)

CleanApply(c) ==
  /\ Filed(files, SeqNumbers) = 1 .. metaSeq + c.next - 1
  /\ Holds(files, IF c.pc = "applyFiles" THEN metaSeq ELSE metaSeq + Len(c.batch), state)

\* Above the target the files go, below it they are what is rebuilt.
CleanUndo(c) ==
  /\ Filed(files, 1 .. c.target) = 1 .. c.target
  /\ c.pc = "undoMove" =>
       /\ Holds(files, c.target, c.rebuilt)
       /\ Len(state) = metaSeq
       /\ \A i \in 1 .. c.target : state[i] = files[i]
  /\ c.pc = "undoMeta" => Holds(files, c.target, state)

CleanCall(c) ==
  /\ c \in Creating => state = <<>>
  /\ c \in Applying => CleanApply(c)
  /\ c \in Undoing => CleanUndo(c)

CleanFree ==
  lock = Nobody /\ state # Missing =>
    metaSeq \in Nat /\ Filed(files, SeqNumbers) = 1 .. metaSeq /\ Holds(files, metaSeq, state)

CleanInv ==
  crashes = 0 => CleanFree /\ \A w \in Writers : CleanCall(call[w])

LEMMA CleanInside ==
  ASSUME Inv', NEW w \in Writers, lock' = w, CleanCall(call[w])'
  PROVE  CleanInv'
<1>1. w # Nobody  BY BoundAssumption
<1>2. ASSUME NEW v \in Writers, v # w  PROVE CleanCall(call[v])'
  <2>1. call'[v] \notin Locked  BY <1>2 DEF Inv, LockInv
  <2> QED  BY <2>1 DEF CleanCall, Locked
<1> QED  BY <1>1, <1>2 DEF CleanInv, CleanFree

LEMMA CleanOutside ==
  ASSUME Inv', lock' = Nobody, CleanFree'
  PROVE  CleanInv'
<1>1. ASSUME NEW v \in Writers  PROVE CleanCall(call[v])'
  <2>1. call'[v] \notin Locked  BY BoundAssumption DEF Inv, LockInv
  <2> QED  BY <2>1 DEF CleanCall, Locked
<1> QED  BY <1>1 DEF CleanInv

LEMMA CleanQuiet ==
  ASSUME Inv, Inv', CleanInv, NEW w \in Writers, crashes = 0, UNCHANGED <<disk, lock>>,
         \A v \in Writers : v # w => call'[v] = call[v], lock # w
  PROVE  CleanInv'
<1>1. CASE lock = Nobody
  <2>1. CleanFree'  BY DEF CleanInv, CleanFree, disk
  <2> QED  BY <1>1, <2>1, CleanOutside
<1>2. CASE lock # Nobody
  <2>1. PICK v \in Writers : v = lock  BY <1>2 DEF Inv, TypeInv
  <2>2. CleanCall(call[v]) /\ call'[v] = call[v]  BY <2>1 DEF CleanInv
  <2>3. CleanCall(call[v])'
    BY <2>2 DEF CleanCall, CleanApply, CleanUndo, disk
  <2> QED  BY <2>1, <2>3, CleanInside
<1> QED  BY <1>1, <1>2

LEMMA CleanQuietStep ==
  ASSUME Inv, Inv', CleanInv, NEW w \in Writers, crashes = 0,
         \/ OpenMissing(w) \/ \E steps \in 1 .. MaxSteps : UndoRead(w, steps)
         \/ UndoRefused(w) \/ UndoReplayFails(w) \/ (CreateState(w) /\ state # Missing)
  PROVE  CleanInv'
<1>1. \A v \in Writers : v # w => call'[v] = call[v]
  BY DEF Inv, TypeInv, OpenMissing, UndoRead, UndoRefused, UndoReplayFails, CreateState, Goto
<1>2. UNCHANGED <<disk, lock>>
  BY DEF disk, OpenMissing, UndoRead, UndoRefused, UndoReplayFails, CreateState
<1>3. call[w] \notin Locked
  <2>1. call[w] = Idle \/ call[w].pc \in {"create", "undo"}
    BY DEF OpenMissing, UndoRead, UndoRefused, UndoReplayFails, CreateState, Begin
  <2>2. Idle.pc = "idle"  BY DEF Idle
  <2> QED  BY <2>1, <2>2, Kinds DEF Inv, TypeInv
<1>4. lock # w  BY <1>3 DEF Inv, LockInv
<1> QED  BY <1>1, <1>2, <1>4, CleanQuiet

LEMMA CleanCreateStep ==
  ASSUME Inv, Inv', CleanInv, NEW w \in Writers, crashes = 0,
         CreateSeed(w) \/ CreateMeta(w) \/ (CreateState(w) /\ state = Missing)
  PROVE  CleanInv'
<1>1. ASSUME call[w].pc \in {"createSeed", "createMeta"}
      PROVE  state = <<>> /\ lock = w /\ CreateInv(call[w])
  <2>1. call[w] \in Creating  BY <1>1, Kinds DEF Inv, TypeInv
  <2>2. call[w] \in Locked  BY <2>1 DEF Locked
  <2> QED  BY <2>1, <2>2 DEF CleanInv, CleanCall, Inv, CallInv, LockInv
<1>2. CASE CreateState(w) /\ state = Missing
  <2>1. lock' = w /\ state' = <<>> /\ call' = [call EXCEPT ![w] = [pc |-> "createSeed"]]
    BY <1>2 DEF CreateState, Acquire, Goto
  <2>2. call'[w] = [pc |-> "createSeed"]  BY <2>1 DEF Inv, TypeInv
  <2>3. call'[w] \notin Applying \union Undoing
    BY <2>2 DEF Applying, Undoing
  <2> QED  BY <2>1, <2>3, CleanInside DEF CleanCall
<1>3. CASE CreateSeed(w)
  <2>1. lock' = w /\ state' = <<>> /\ call' = [call EXCEPT ![w] = [pc |-> "createMeta"]]
    BY <1>1, <1>3 DEF CreateSeed, Goto
  <2>2. call'[w] = [pc |-> "createMeta"]  BY <2>1 DEF Inv, TypeInv
  <2>3. call'[w] \notin Applying \union Undoing
    BY <2>2 DEF Applying, Undoing
  <2> QED  BY <2>1, <2>3, CleanInside DEF CleanCall
<1>4. CASE CreateMeta(w)
  <2>1. lock' = Nobody /\ state' = <<>> /\ metaSeq' = 0 /\ files' = files
    BY <1>1, <1>4 DEF CreateMeta, Return
  <2>2. Filed(files', SeqNumbers) = {}
    BY <1>1, <1>4, <2>1 DEF CreateMeta, CreateInv, Inv, EmptyInv
  <2>3. Filed(files', SeqNumbers) = 1 .. metaSeq' /\ Holds(files', metaSeq', state')
    BY <2>1, <2>2 DEF Holds
  <2> QED  BY <2>1, <2>3, CleanOutside DEF CleanFree
<1> QED  BY <1>2, <1>3, <1>4

LEMMA CleanApplyStep ==
  ASSUME Inv, Inv', CleanInv, NEW w \in Writers, crashes = 0, Apply(w)
  PROVE  CleanInv'
<1>0. PICK c, n : c = call[w] /\ n = metaSeq + c.next  OBVIOUS
<1>1. ASSUME NEW size \in 1 .. MaxBatch, ApplyBegin(w, size)  PROVE CleanInv'
  <2>1. /\ lock = Nobody /\ lock' = w /\ state # Missing
        /\ UNCHANGED <<state, metaSeq, files>>
    BY <1>1 DEF ApplyBegin, Acquire, disk
  <2>2. metaSeq \in Nat /\ Filed(files, SeqNumbers) = 1 .. metaSeq /\ Holds(files, metaSeq, state)
    BY <2>1 DEF CleanInv, CleanFree
  <2>3. call'[w].pc = "applyFiles" /\ call'[w].next = 1
    BY <1>1 DEF ApplyBegin, Goto, Inv, TypeInv
  <2>4. call'[w] \notin Creating \union Undoing
    BY <2>3 DEF Creating, Undoing
  <2>5. CleanApply(call[w])'
    BY <2>1, <2>2, <2>3 DEF CleanApply
  <2> QED  BY <2>1, <2>4, <2>5, CleanInside DEF CleanCall
<1>2. ASSUME c.pc \in {"applyFiles", "applyMeta"}
      PROVE  /\ c \in Applying /\ ApplyInv(c) /\ CleanApply(c) /\ lock = w
             /\ c.next \in Nat /\ c.batch \in Seq(Patches) /\ Len(c.batch) \in Nat
             /\ metaSeq \in Nat /\ state \in Seq(Patches)
             /\ files \in [SeqNumbers -> Patches \union {Missing}]
  <2>1. /\ c \in Applying /\ ApplyInv(c) /\ lock = w /\ metaSeq \in Nat
        /\ state \in Seq(Patches) /\ files \in [SeqNumbers -> Patches \union {Missing}]
    BY <1>0, <1>2, ApplyingCall
  <2>2. CleanApply(c)  BY <1>0, <2>1 DEF CleanInv, CleanCall
  <2>3. c.next \in Nat /\ c.batch \in Seq(Patches) /\ Len(c.batch) \in Nat
    BY <2>1, LenProperties DEF Applying
  <2> QED  BY <2>1, <2>2, <2>3
<1>3. CASE ApplyFile(w)
  <2>1. c.pc = "applyFiles"  BY <1>0, <1>3 DEF ApplyFile
  <2>2. /\ c \in Applying /\ lock = w /\ c.next \in Nat /\ metaSeq \in Nat
        /\ c.batch \in Seq(Patches) /\ Len(c.batch) \in Nat /\ state \in Seq(Patches)
        /\ files \in [SeqNumbers -> Patches \union {Missing}]
    BY <1>2, <2>1
  <2>3. c.first = metaSeq + 1 /\ c.next \in 1 .. Len(c.batch) + 1
        /\ metaSeq + Len(c.batch) <= issued /\ issued \in Nat /\ issued <= MaxPatches
        /\ MaxPatches \in Nat
    BY <1>0, <1>2, <2>1, ApplyingCall DEF ApplyInv
  <2>4. c.next <= Len(c.batch)  BY <1>0, <1>3 DEF ApplyFile
  <2>5. n \in SeqNumbers /\ n > metaSeq /\ c.first + c.next - 1 = n
    <3> DEFINE k == c.next
               size == Len(c.batch)
    <3>1. k \in Nat /\ size \in Nat /\ k >= 1 /\ k <= size /\ n = metaSeq + k
          /\ c.first = metaSeq + 1 /\ metaSeq + size <= MaxPatches
      BY <1>0, <2>2, <2>3, <2>4
    <3> HIDE DEF k, size
    <3>2. n \in 1 .. MaxPatches /\ n > metaSeq /\ c.first + k - 1 = n
      BY <3>1, <2>2, <2>3
    <3> QED  BY <3>2 DEF SeqNumbers, k
  <2>6. c.batch[c.next] # Missing
    <3>1. c.next \in 1 .. Len(c.batch)  BY <2>2, <2>3, <2>4
    <3>2. c.batch[c.next] \in Patches  BY <2>2, <3>1, ElementOfSeq
    <3> QED  BY <3>2, PatchesAreNoFile
  <2>7. files' = [files EXCEPT ![n] = c.batch[c.next]]
    BY <1>0, <1>3, <2>5 DEF ApplyFile
  <2>8. lock' = w /\ state' = state /\ metaSeq' = metaSeq
        /\ call' = [call EXCEPT ![w] = [c EXCEPT !.next = @ + 1]]
    BY <1>0, <1>3, <2>2 DEF ApplyFile, Goto
  <2>9. call'[w] = [c EXCEPT !.next = @ + 1]  BY <2>8 DEF Inv, TypeInv
  <2>10. call'[w].pc = "applyFiles" /\ call'[w].next = c.next + 1
    BY <2>1, <2>2, <2>9 DEF Applying
  <2>11. call'[w] \notin Creating \union Undoing  BY <2>10 DEF Creating, Undoing
  <2>12. Filed(files, SeqNumbers) = 1 .. n - 1 /\ Holds(files, metaSeq, state)
    BY <1>0, <1>2, <2>1 DEF CleanApply
  <2>13. Filed(files', SeqNumbers) = 1 .. n
    <3>1. Filed(files', SeqNumbers) = Filed(files, SeqNumbers) \union {n}
      BY <2>2, <2>5, <2>6, <2>7 DEF Filed
    <3>2. n \in Nat /\ n >= 1  BY <1>0, <2>2, <2>3
    <3>3. 1 .. n = (1 .. n - 1) \union {n}  BY <3>2
    <3> QED  BY <3>1, <3>3, <2>12
  <2>14. Holds(files', metaSeq', state')
    <3>1. \A i \in 1 .. metaSeq : i \in SeqNumbers /\ i # n
      BY <2>2, <2>3, <2>5 DEF SeqNumbers
    <3> QED  BY <2>2, <2>7, <2>8, <2>12, <3>1 DEF Holds
  <2>15. metaSeq' + call'[w].next - 1 = n  BY <1>0, <2>2, <2>8, <2>10
  <2>16. CleanApply(call[w])'
    BY <2>10, <2>13, <2>14, <2>15 DEF CleanApply
  <2> QED  BY <2>8, <2>11, <2>16, CleanInside DEF CleanCall
<1>4. CASE ApplyState(w)
  <2>1. c.pc = "applyFiles" /\ c.next > Len(c.batch)  BY <1>0, <1>4 DEF ApplyState
  <2>2. /\ c \in Applying /\ lock = w /\ c.next \in Nat /\ metaSeq \in Nat
        /\ c.batch \in Seq(Patches) /\ Len(c.batch) \in Nat /\ state \in Seq(Patches)
    BY <1>2, <2>1
  <2>3. /\ c.next \in 1 .. Len(c.batch) + 1 /\ c.updated = state \o c.batch
        /\ \A i \in 1 .. c.next - 1 : files[metaSeq + i] = c.batch[i]
    BY <1>2, <2>1 DEF ApplyInv
  <2>4. lock' = w /\ state' = state \o c.batch /\ metaSeq' = metaSeq /\ files' = files
        /\ call' = [call EXCEPT ![w] = [c EXCEPT !.pc = "applyMeta"]]
    BY <1>0, <1>4, <2>2, <2>3 DEF ApplyState, Goto
  <2>5. call'[w] = [c EXCEPT !.pc = "applyMeta"]  BY <2>4 DEF Inv, TypeInv
  <2>6. call'[w].pc = "applyMeta" /\ call'[w].next = c.next /\ call'[w].batch = c.batch
    BY <2>2, <2>5 DEF Applying
  <2>7. call'[w] \notin Creating \union Undoing  BY <2>6 DEF Creating, Undoing
  <2>8. Filed(files, SeqNumbers) = 1 .. metaSeq + c.next - 1 /\ Holds(files, metaSeq, state)
    BY <1>2, <2>1 DEF CleanApply
  <2>9. Holds(files, metaSeq + Len(c.batch), state')
    <3>1. /\ Len(state') = metaSeq + Len(c.batch)
          /\ \A i \in 1 .. metaSeq + Len(c.batch) :
               state'[i] = IF i <= metaSeq THEN state[i] ELSE c.batch[i - metaSeq]
      BY <2>2, <2>4, <2>8, ConcatProperties DEF Holds
    <3>2. ASSUME NEW i \in 1 .. metaSeq + Len(c.batch)  PROVE state'[i] = files[i]
      <4>1. CASE i <= metaSeq
        BY <4>1, <3>1, <2>8, <2>2 DEF Holds
      <4>2. CASE i > metaSeq
        <5>1. i - metaSeq \in 1 .. c.next - 1 /\ metaSeq + (i - metaSeq) = i
              /\ ~ (i <= metaSeq)
          <6>1. PICK p, q : p = metaSeq /\ q = Len(c.batch)  OBVIOUS
          <6>2. p \in Nat /\ q \in Nat /\ i \in 1 .. p + q /\ i > p  BY <6>1, <4>2, <2>2
          <6>3. c.next - 1 = q
            <7>1. PICK k : k = c.next  OBVIOUS
            <7>2. k \in 1 .. q + 1 /\ k > q  BY <7>1, <6>1, <2>1, <2>3
            <7> QED  BY <7>1, <7>2, <6>2
          <6>4. i - p \in 1 .. q /\ p + (i - p) = i /\ ~ (i <= p)  BY <6>2
          <6> QED  BY <6>1, <6>3, <6>4
        <5> QED  BY <5>1, <3>1, <2>3
      <4> QED  BY <4>1, <4>2, <2>2
    <3> QED  BY <3>1, <3>2 DEF Holds
  <2>10. CleanApply(call[w])'
    BY <2>4, <2>6, <2>8, <2>9 DEF CleanApply
  <2> QED  BY <2>4, <2>7, <2>10, CleanInside DEF CleanCall
<1>5. CASE ApplyMeta(w)
  <2>1. c.pc = "applyMeta"  BY <1>0, <1>5 DEF ApplyMeta
  <2>2. c.next \in Nat /\ metaSeq \in Nat /\ Len(c.batch) \in Nat  BY <1>2, <2>1
  <2>3. c.next = Len(c.batch) + 1 /\ c.first = metaSeq + 1
    BY <1>2, <2>1 DEF ApplyInv
  <2>4. lock' = Nobody /\ state' = state /\ metaSeq' = c.first + Len(c.batch) - 1 /\ files' = files
    BY <1>0, <1>5 DEF ApplyMeta, Return
  <2>5. /\ Filed(files, SeqNumbers) = 1 .. metaSeq + c.next - 1
        /\ Holds(files, metaSeq + Len(c.batch), state)
    BY <1>2, <2>1 DEF CleanApply
  <2>6. metaSeq' = metaSeq + Len(c.batch) /\ metaSeq' = metaSeq + c.next - 1 /\ metaSeq' \in Nat
    <3> DEFINE size == Len(c.batch)
    <3>1. size \in Nat /\ c.next = size + 1 /\ metaSeq' = metaSeq + 1 + size - 1
      BY <2>2, <2>3, <2>4
    <3> HIDE DEF size
    <3>2. metaSeq' = metaSeq + size /\ metaSeq' = metaSeq + c.next - 1 /\ metaSeq' \in Nat
      BY <2>2, <3>1
    <3> QED  BY <3>2 DEF size
  <2>7. CleanFree'  BY <2>4, <2>5, <2>6 DEF CleanFree
  <2> QED  BY <2>4, <2>7, CleanOutside
<1> QED  BY <1>1, <1>3, <1>4, <1>5 DEF Apply

LEMMA CleanUndoStep ==
  ASSUME Inv, Inv', CleanInv, NEW w \in Writers, crashes = 0,
         UndoBegin(w) \/ UndoMove(w) \/ UndoState(w) \/ UndoMeta(w)
  PROVE  CleanInv'
<1>0. PICK c, t : c = call[w] /\ t = c.target  OBVIOUS
<1>1. CASE UndoBegin(w)
  <2>1. c.pc = "undo" /\ t < metaSeq /\ lock = Nobody  BY <1>0, <1>1 DEF UndoBegin, Acquire
  <2>2. c \in Unlocked  BY <1>0, <2>1, Kinds DEF Inv, TypeInv
  <2>3. t \in Nat  BY <1>0, <2>1, <2>2 DEF Unlocked, Idle
  <2>4. metaSeq \in Nat /\ metaSeq # Missing
    <3>1. metaSeq \in Nat  BY <1>0, <2>1 DEF Inv, ReadInv
    <3> QED  BY <3>1, BoundAssumption
  <2>5. state # Missing  BY <2>4 DEF Inv, EmptyInv
  <2>6. Filed(files, SeqNumbers) = 1 .. metaSeq /\ Holds(files, metaSeq, state)
    BY <2>1, <2>5 DEF CleanInv, CleanFree
  <2>7. Filed(files, 1 .. t) = 1 .. t /\ Logged(1 .. t) = 1 .. t
    <3>1. \A i \in 1 .. t : i \in 1 .. metaSeq  BY <2>1, <2>3, <2>4
    <3>2. \A i \in 1 .. t : files[i] # Missing  BY <2>6, <3>1 DEF Filed
    <3> QED  BY <3>2 DEF Filed, Logged
  <2>8. lock' = w /\ state' = state /\ metaSeq' = metaSeq /\ files' = files
    BY <1>1 DEF UndoBegin, Acquire, disk
  <2>9. call'[w].pc = "undoMove" /\ call'[w].target = t /\ call'[w].rebuilt = Replay(1 .. t)
    BY <1>0, <1>1, <2>7 DEF UndoBegin, Goto, Inv, TypeInv
  <2>10. Holds(files, t, Replay(1 .. t))  BY <2>3, ReplayHolds
  <2>11. Len(state) = metaSeq /\ \A i \in 1 .. t : state[i] = files[i]
    BY <2>1, <2>3, <2>4, <2>6 DEF Holds
  <2>12. call'[w].pc # "undoMeta"  BY <2>9
  <2>13. CleanUndo(call[w])'
    BY <2>7, <2>8, <2>9, <2>10, <2>11, <2>12 DEF CleanUndo
  <2>14. call'[w] \notin Creating \union Applying  BY <2>9 DEF Creating, Applying
  <2> QED  BY <2>8, <2>13, <2>14, CleanInside DEF CleanCall
<1>2. ASSUME c.pc \in {"undoMove", "undoMeta"}
      PROVE  /\ c \in Undoing /\ UndoInv(c) /\ CleanUndo(c) /\ lock = w
             /\ t \in Nat /\ metaSeq \in Nat /\ metaSeq <= MaxPatches /\ MaxPatches \in Nat
             /\ c.discard \subseteq SeqNumbers
             /\ files \in [SeqNumbers -> Patches \union {Missing}]
  <2>1. /\ c \in Undoing /\ UndoInv(c) /\ lock = w
        /\ metaSeq \in Nat /\ metaSeq <= MaxPatches /\ MaxPatches \in Nat
        /\ files \in [SeqNumbers -> Patches \union {Missing}]
    BY <1>0, <1>2, UndoingCall
  <2>2. CleanUndo(c)  BY <1>0, <2>1 DEF CleanInv, CleanCall
  <2>3. t \in Nat /\ c.discard \subseteq SeqNumbers  BY <1>0, <2>1 DEF Undoing
  <2> QED  BY <2>1, <2>2, <2>3
<1>3. CASE UndoMove(w)
  <2>1. c.pc = "undoMove" /\ c.discard # {}  BY <1>0, <1>3 DEF UndoMove
  <2>2. /\ c \in Undoing /\ lock = w /\ t \in Nat /\ metaSeq \in Nat
        /\ metaSeq <= MaxPatches /\ MaxPatches \in Nat /\ c.discard \subseteq SeqNumbers
        /\ files \in [SeqNumbers -> Patches \union {Missing}]
    BY <1>2, <2>1
  <2>3. c.discard = Filed(files, t + 1 .. MaxPatches) /\ t < metaSeq
    BY <1>0, <1>2, <2>1 DEF UndoInv
  <2>4. PICK n : n = CHOOSE m \in c.discard : \A k \in c.discard : m <= k  OBVIOUS
  <2>5. n \in c.discard  BY <2>1, <2>2, <2>4, SmallestNumber
  <2>6. /\ call' = [call EXCEPT ![w] = [c EXCEPT !.discard = @ \ {n}]] /\ lock' = w
        /\ files' = [files EXCEPT ![n] = Missing] /\ state' = state /\ metaSeq' = metaSeq
    BY <1>0, <1>3, <2>2, <2>4 DEF UndoMove, Goto
  <2>7. call'[w] = [c EXCEPT !.discard = @ \ {n}]  BY <2>6 DEF Inv, TypeInv
  <2>8. call'[w].pc = "undoMove" /\ call'[w].target = t /\ call'[w].rebuilt = c.rebuilt
        /\ call'[w].pc # "undoMeta"
    BY <1>0, <2>1, <2>2, <2>7 DEF Undoing
  <2>9. \A i \in 1 .. t : files'[i] = files[i]
    <3>1. n > t  BY <2>2, <2>3, <2>5 DEF Filed
    <3>2. \A i \in 1 .. t : i \in SeqNumbers /\ i # n
      BY <2>2, <2>3, <3>1 DEF SeqNumbers
    <3> QED  BY <2>2, <2>6, <3>2
  <2>10. /\ Filed(files, 1 .. t) = 1 .. t /\ Holds(files, t, c.rebuilt)
         /\ Len(state) = metaSeq /\ \A i \in 1 .. t : state[i] = files[i]
    BY <1>0, <1>2, <2>1 DEF CleanUndo
  <2>11. Filed(files', 1 .. t) = 1 .. t /\ Holds(files', t, c.rebuilt)
    BY <2>9, <2>10 DEF Filed, Holds
  <2>12. CleanUndo(call[w])'
    BY <2>6, <2>8, <2>9, <2>10, <2>11 DEF CleanUndo
  <2>13. call'[w] \notin Creating \union Applying  BY <2>8 DEF Creating, Applying
  <2> QED  BY <2>6, <2>12, <2>13, CleanInside DEF CleanCall
<1>4. CASE UndoState(w)
  <2>1. c.pc = "undoMove"  BY <1>0, <1>4 DEF UndoState
  <2>2. c \in Undoing /\ lock = w  BY <1>2, <2>1
  <2>3. /\ call' = [call EXCEPT ![w] = [c EXCEPT !.pc = "undoMeta"]] /\ lock' = w
        /\ files' = files /\ state' = c.rebuilt /\ metaSeq' = metaSeq
    BY <1>0, <1>4, <2>2 DEF UndoState, Goto
  <2>4. call'[w] = [c EXCEPT !.pc = "undoMeta"]  BY <2>3 DEF Inv, TypeInv
  <2>5. call'[w].pc = "undoMeta" /\ call'[w].target = t /\ call'[w].pc # "undoMove"
    BY <1>0, <2>2, <2>4 DEF Undoing
  <2>6. Filed(files, 1 .. t) = 1 .. t /\ Holds(files, t, c.rebuilt)
    BY <1>0, <1>2, <2>1 DEF CleanUndo
  <2>7. CleanUndo(call[w])'  BY <2>3, <2>5, <2>6 DEF CleanUndo
  <2>8. call'[w] \notin Creating \union Applying  BY <2>5 DEF Creating, Applying
  <2> QED  BY <2>3, <2>7, <2>8, CleanInside DEF CleanCall
<1>5. CASE UndoMeta(w)
  <2>1. c.pc = "undoMeta"  BY <1>0, <1>5 DEF UndoMeta
  <2>2. t \in Nat /\ metaSeq \in Nat /\ metaSeq <= MaxPatches /\ MaxPatches \in Nat
    BY <1>2, <2>1
  <2>3. Filed(files, t + 1 .. MaxPatches) = {} /\ t < metaSeq
    BY <1>0, <1>2, <2>1 DEF UndoInv
  <2>4. Filed(files, 1 .. t) = 1 .. t /\ Holds(files, t, state)
    BY <1>0, <1>2, <2>1 DEF CleanUndo
  <2>5. lock' = Nobody /\ state' = state /\ files' = files /\ metaSeq' = t
    BY <1>0, <1>5 DEF UndoMeta, Return
  <2>6. Filed(files, SeqNumbers) = 1 .. t
    <3>1. SeqNumbers = (1 .. t) \union (t + 1 .. MaxPatches)  BY <2>2, <2>3 DEF SeqNumbers
    <3> QED  BY <2>3, <2>4, <3>1 DEF Filed
  <2>7. CleanFree'  BY <2>2, <2>4, <2>5, <2>6 DEF CleanFree
  <2> QED  BY <2>5, <2>7, CleanOutside
<1> QED  BY <1>1, <1>3, <1>4, <1>5

LEMMA InitClean ==
  ASSUME Init  PROVE CleanInv
<1>1. Idle.pc = "idle"  BY DEF Idle
<1>2. Idle \notin Creating \union Applying \union Undoing
  BY <1>1 DEF Creating, Applying, Undoing
<1> QED  BY <1>2 DEF Init, CleanInv, CleanFree, CleanCall

LEMMA StepClean == Inv /\ Inv' /\ CleanInv /\ [Next]_vars => CleanInv'
<1> SUFFICES ASSUME Inv, Inv', CleanInv, [Next]_vars, crashes' = 0  PROVE CleanInv'
  BY DEF CleanInv
<1>1. CASE UNCHANGED vars
  BY <1>1 DEF vars, CleanInv, CleanFree, CleanCall, CleanApply, CleanUndo
<1>2. ASSUME NEW w \in Writers, Crash(w)  PROVE CleanInv'
  BY <1>2 DEF Crash, Inv, TypeInv
<1>3. ASSUME NEW w \in Writers, Create(w) \/ Apply(w) \/ Undo(w)  PROVE CleanInv'
  <2>1. crashes = 0
    BY <1>3 DEF Create, OpenMissing, CreateState, CreateSeed, CreateMeta,
                Apply, ApplyBegin, ApplyFile, ApplyState, ApplyMeta,
                Undo, UndoRead, UndoRefused, UndoReplayFails, UndoBegin, UndoMove,
                UndoState, UndoMeta, history
  <2>2. CASE Create(w)
    BY <2>1, <2>2, CleanQuietStep, CleanCreateStep DEF Create
  <2>3. CASE Apply(w)  BY <2>1, <2>3, CleanApplyStep
  <2>4. CASE Undo(w)
    BY <2>1, <2>4, CleanQuietStep, CleanUndoStep DEF Undo
  <2> QED  BY <1>3, <2>2, <2>3, <2>4
<1> QED  BY <1>1, <1>2, <1>3 DEF Next

\* Between calls, until one ends half way, the log has no gap, ends at the
\* recorded number, and replays to the snapshot.
THEOREM LogIsTheSnapshot == Spec => []LogMatchesState
<1>1. Spec => [](Inv /\ CleanInv)
  BY InitInv, StepInv, InitClean, StepClean, PTL DEF Spec
<1>2. ASSUME Inv, CleanInv  PROVE LogMatchesState
  <2> SUFFICES ASSUME crashes = 0, lock = Nobody, state # Missing
               PROVE  /\ seed
                      /\ Logged(SeqNumbers) = 1 .. metaSeq
                      /\ state = Replay(1 .. metaSeq)
    BY DEF LogMatchesState
  <2>1. metaSeq \in Nat /\ Filed(files, SeqNumbers) = 1 .. metaSeq /\ Holds(files, metaSeq, state)
    BY <1>2 DEF CleanInv, CleanFree
  <2>2. seed  BY <1>2, <2>1 DEF Inv, EmptyInv
  <2>3. Logged(SeqNumbers) = 1 .. metaSeq  BY <2>1 DEF Logged, Filed
  <2>4. state = Replay(1 .. metaSeq)
    <3>1. state \in Seq(Patches)  BY <1>2 DEF Inv, TypeInv
    <3>2. DOMAIN state = 1 .. metaSeq /\ state = [i \in DOMAIN state |-> state[i]]
      BY <2>1, <3>1, LenProperties DEF Holds
    <3>3. \A i \in 1 .. metaSeq : state[i] = files[i]  BY <2>1 DEF Holds
    <3>4. state = [i \in 1 .. metaSeq |-> files[i]]  BY <3>2, <3>3
    <3> QED  BY <2>1, <3>4, ReplayInterval
  <2> QED  BY <2>2, <2>3, <2>4
<1> QED  BY <1>1, <1>2, PTL

LEMMA StepRefines ==
  ASSUME Inv, CleanInv, [Next]_vars  PROVE [crashes = 0 => Log!Next]_state
<1> SUFFICES ASSUME crashes = 0, state' # state  PROVE Log!Next  OBVIOUS
<1>1. PICK w \in Writers :
        (CreateState(w) /\ state = Missing) \/ ApplyState(w) \/ UndoState(w)
  <2>1. PICK w \in Writers : Create(w) \/ Apply(w) \/ Undo(w) \/ Crash(w)
    BY DEF Next, vars
  <2>2. (CreateState(w) /\ state = Missing) \/ ApplyState(w) \/ UndoState(w)
    BY <2>1 DEF Create, OpenMissing, CreateState, CreateSeed, CreateMeta,
                Apply, ApplyBegin, ApplyFile, ApplyMeta,
                Undo, UndoRead, UndoRefused, UndoReplayFails, UndoBegin, UndoMove,
                UndoMeta, Crash, disk
  <2> QED  BY <2>2
<1>2. PICK c : c = call[w]  OBVIOUS
<1>3. CASE CreateState(w) /\ state = Missing
  BY <1>3 DEF CreateState, Log!Next, Log!Create
<1>4. CASE ApplyState(w)
  <2>1. c.pc = "applyFiles"  BY <1>2, <1>4 DEF ApplyState
  <2>2. c \in Applying /\ state \in Seq(Patches)  BY <1>2, <2>1, ApplyingCall
  <2>3. c.batch \in Seq(Patches)  BY <2>2 DEF Applying
  <2>4. state' = state \o c.batch
    BY <1>2, <1>4, <2>1, ApplyingCall DEF ApplyState, ApplyInv
  <2>5. state' \in Seq(Patches)  BY <2>2, <2>3, <2>4, ConcatProperties
  <2>6. IsPrefix(state, state')
    <3>1. Len(state) \in Nat /\ Len(state') \in Nat /\ Len(state) <= Len(state')
      <4>1. Len(state') = Len(state) + Len(c.batch)  BY <2>2, <2>3, <2>4, ConcatProperties
      <4>2. Len(state) \in Nat /\ Len(c.batch) \in Nat  BY <2>2, <2>3, LenProperties
      <4> QED  BY <4>1, <4>2
    <3>2. \A i \in 1 .. Len(state) : state'[i] = state[i]
      <4>1. \A i \in 1 .. Len(state) + Len(c.batch) : state'[i] =
              IF i <= Len(state) THEN state[i] ELSE c.batch[i - Len(state)]
        BY <2>2, <2>3, <2>4, ConcatProperties
      <4>2. Len(c.batch) \in Nat  BY <2>3, LenProperties
      <4> QED  BY <4>1, <4>2, <3>1
    <3>3. SubSeq(state', 1, Len(state)) = SubSeq(state, 1, Len(state))
      <4>1. SubSeq(state, 1, Len(state)) = [i \in 1 .. Len(state) |-> state[i]]
        BY <2>2, <3>1
      <4>2. SubSeq(state', 1, Len(state)) = [i \in 1 .. Len(state) |-> state'[i]]
        BY <2>5, <3>1
      <4> QED  BY <3>2, <4>1, <4>2
    <3> QED  BY <3>1, <3>3 DEF IsPrefix
  <2>7. state # Missing  BY <2>2, PatchesAreNoFile
  <2> QED  BY <2>5, <2>6, <2>7 DEF IsPrefix, Log!Next, Log!Commit, Log!IsPrefix
<1>5. CASE UndoState(w)
  <2>1. c.pc = "undoMove"  BY <1>2, <1>5 DEF UndoState
  <2>2. c \in Undoing /\ state # Missing /\ UndoInv(c) /\ metaSeq \in Nat
    BY <1>2, <2>1, UndoingCall
  <2>3. state \in Seq(Patches)  BY <2>2 DEF Inv, TypeInv
  <2>4. CleanUndo(c)  BY <1>2, <2>2 DEF CleanInv, CleanCall
  <2>5. PICK t : t = c.target  OBVIOUS
  <2>6. c.rebuilt \in Seq(Patches) /\ t \in Nat /\ t < metaSeq
    BY <2>2, <2>5 DEF Undoing, UndoInv
  <2>7. /\ Len(c.rebuilt) = t /\ Len(state) = metaSeq
        /\ \A i \in 1 .. t : c.rebuilt[i] = state[i]
    BY <2>1, <2>4, <2>5 DEF CleanUndo, Holds
  <2>8. state' = SubSeq(state, 1, t)
    <3>1. state' = c.rebuilt  BY <1>2, <1>5 DEF UndoState
    <3>2. c.rebuilt = [i \in 1 .. t |-> c.rebuilt[i]]  BY <2>6, <2>7
    <3>3. SubSeq(state, 1, t) = [i \in 1 .. t |-> state[i]]  BY <2>2, <2>3, <2>6, <2>7
    <3> QED  BY <2>7, <3>1, <3>2, <3>3
  <2>9. t \in 0 .. Len(state)  BY <2>2, <2>6, <2>7
  <2> QED  BY <2>2, <2>8, <2>9 DEF Log!Next, Log!Rewind
<1> QED  BY <1>1, <1>3, <1>4, <1>5

\* Until a call ends half way the store is the patch sequence of ProjectLog: its
\* snapshot appears empty, grows by whole calls, and is rewound to its prefixes.
THEOREM ProjectIsALog == Spec => ImplementsProjectLog
<1>1. Init => Log!Init
  BY DEF Init, Log!Init
<1>2. Inv /\ CleanInv /\ [Next]_vars => [crashes = 0 => Log!Next]_state
  BY StepRefines
<1> QED  BY <1>1, <1>2, InitInv, StepInv, InitClean, StepClean, PTL DEF Spec, ImplementsProjectLog

-----------------------------------------------------------------------------
(* Timeline: the clips, and the documents made of them.                    *)

Clip ==
  [track : Tracks, media : Media, start : Nat, dur : Nat \ {0}, in : Nat, out : Nat, trans : Nat]

IsDoc(d) ==
  /\ d = [tracks |-> d.tracks, clips |-> d.clips]
  /\ d.tracks \subseteq Tracks
  /\ Present(d) \subseteq ClipIds
  /\ d.clips \in [Present(d) -> Clip]

\* A document whose clips are sound one by one.
Whole(d) == IsDoc(d) /\ OnTracks(d) /\ RangesMatch(d)

Tidy(d) == Whole(d) /\ Disjoint(d) /\ ~ShortPiece(d)

\* The inductive invariant: what the single edits leave behind.
TimelineInv == odd = {} => Tidy(doc)

\* All of a clip but its place and its transition.
Alike(c, e) ==
  c.track = e.track /\ c.media = e.media /\ c.dur = e.dur /\ c.in = e.in /\ c.out = e.out

\* The clips other than e do not overlap.
OthersApart(d, e) ==
  \A i, j \in Present(d) \ {e} : i # j /\ d.clips[i].track = d.clips[j].track =>
    EndOf(d.clips[i]) <= d.clips[j].start \/ EndOf(d.clips[j]) <= d.clips[i].start

-----------------------------------------------------------------------------
(* The operators that change a document.                                   *)

LEMMA ClipFields ==
  ASSUME NEW d, IsDoc(d), NEW i \in Present(d)
  PROVE  /\ d.clips[i] \in Clip
         /\ d.clips[i].track \in Tracks /\ d.clips[i].media \in Media
         /\ d.clips[i].start \in Nat /\ d.clips[i].dur \in Nat /\ d.clips[i].dur > 0
         /\ d.clips[i].in \in Nat /\ d.clips[i].out \in Nat /\ d.clips[i].trans \in Nat
         /\ EndOf(d.clips[i]) \in Nat /\ EndOf(d.clips[i]) > d.clips[i].start
<1>1. d.clips[i] \in Clip
  BY DEF IsDoc
<1>2. /\ d.clips[i].track \in Tracks /\ d.clips[i].media \in Media
      /\ d.clips[i].start \in Nat /\ d.clips[i].dur \in Nat /\ d.clips[i].dur > 0
      /\ d.clips[i].in \in Nat /\ d.clips[i].out \in Nat /\ d.clips[i].trans \in Nat
  BY <1>1 DEF Clip
<1>3. QED
  BY <1>1, <1>2 DEF EndOf

\* A document given by its clips.
LEMMA ClipsMakeADoc ==
  ASSUME NEW d, IsDoc(d), NEW S, S \subseteq ClipIds, NEW f \in [S -> Clip]
  PROVE  /\ IsDoc(WithClips(d, f)) /\ Present(WithClips(d, f)) = S
         /\ WithClips(d, f).tracks = d.tracks /\ WithClips(d, f).clips = f
<1>1. PICK T, g : d = [tracks |-> T, clips |-> g] /\ T \subseteq Tracks
  BY DEF IsDoc
<1>2. PICK r : r = WithClips(d, f)
  OBVIOUS
<1>3. r = [tracks |-> T, clips |-> f]
  BY <1>1, <1>2 DEF WithClips
<1>4. r.tracks = T /\ r.clips = f /\ d.tracks = T
  BY <1>1, <1>3
<1>5. Present(r) = S
  BY <1>4 DEF Present
<1>6. QED
  BY <1>1, <1>2, <1>3, <1>4, <1>5 DEF IsDoc

LEMMA SetClipFacts ==
  ASSUME NEW d, IsDoc(d), NEW i \in Present(d), NEW c \in Clip
  PROVE  /\ IsDoc(SetClip(d, i, c)) /\ Present(SetClip(d, i, c)) = Present(d)
         /\ SetClip(d, i, c).tracks = d.tracks
         /\ SetClip(d, i, c).clips[i] = c
         /\ \A j \in Present(d) \ {i} : SetClip(d, i, c).clips[j] = d.clips[j]
<1>1. PICK f : f = [d.clips EXCEPT ![i] = c]
  OBVIOUS
<1>2. f \in [Present(d) -> Clip] /\ Present(d) \subseteq ClipIds
  BY <1>1 DEF IsDoc
<1>3. f[i] = c /\ \A j \in Present(d) \ {i} : f[j] = d.clips[j]
  BY <1>1 DEF IsDoc
<1>4. SetClip(d, i, c) = WithClips(d, f)
  BY <1>1 DEF SetClip
<1>5. QED
  BY <1>2, <1>3, <1>4, ClipsMakeADoc

LEMMA AddClipFacts ==
  ASSUME NEW d, IsDoc(d), NEW i \in ClipIds \ Present(d), NEW c \in Clip
  PROVE  /\ IsDoc(AddClip(d, i, c)) /\ Present(AddClip(d, i, c)) = Present(d) \union {i}
         /\ AddClip(d, i, c).tracks = d.tracks
         /\ AddClip(d, i, c).clips[i] = c
         /\ \A j \in Present(d) : AddClip(d, i, c).clips[j] = d.clips[j]
<1>1. PICK f : f = [j \in Present(d) \union {i} |-> IF j = i THEN c ELSE d.clips[j]]
  OBVIOUS
<1>2. \A j \in Present(d) : d.clips[j] \in Clip
  BY ClipFields
<1>3. f \in [Present(d) \union {i} -> Clip] /\ Present(d) \union {i} \subseteq ClipIds
  BY <1>1, <1>2 DEF IsDoc
<1>4. f[i] = c /\ \A j \in Present(d) : f[j] = d.clips[j]
  BY <1>1
<1>5. AddClip(d, i, c) = WithClips(d, f)
  BY <1>1 DEF AddClip
<1>6. QED
  BY <1>3, <1>4, <1>5, ClipsMakeADoc

LEMMA DropClipFacts ==
  ASSUME NEW d, IsDoc(d), NEW i
  PROVE  /\ IsDoc(DropClip(d, i)) /\ Present(DropClip(d, i)) = Present(d) \ {i}
         /\ DropClip(d, i).tracks = d.tracks
         /\ \A j \in Present(d) \ {i} : DropClip(d, i).clips[j] = d.clips[j]
<1>1. PICK f : f = [j \in Present(d) \ {i} |-> d.clips[j]]
  OBVIOUS
<1>2. \A j \in Present(d) : d.clips[j] \in Clip
  BY ClipFields
<1>3. f \in [Present(d) \ {i} -> Clip] /\ Present(d) \ {i} \subseteq ClipIds
  BY <1>1, <1>2 DEF IsDoc
<1>4. DropClip(d, i) = WithClips(d, f)
  BY <1>1 DEF DropClip
<1>5. QED
  BY <1>1, <1>3, <1>4, ClipsMakeADoc

\* A ripple moves the clips behind the threshold and changes nothing else.
Shifts(r, d, t, th, delta, e) ==
  /\ IsDoc(r) /\ Present(r) = Present(d) /\ r.tracks = d.tracks
  /\ \A j \in Present(d) :
       /\ Alike(r.clips[j], d.clips[j]) /\ r.clips[j].trans = d.clips[j].trans
       /\ r.clips[j].start =
            IF j # e /\ d.clips[j].track = t /\ d.clips[j].start >= th
            THEN Max0(d.clips[j].start + delta)
            ELSE d.clips[j].start

LEMMA RippledFacts ==
  ASSUME NEW d, IsDoc(d), NEW t, NEW th \in Nat, NEW delta \in Int, NEW e
  PROVE  Shifts(Rippled(d, t, th, delta, e), d, t, th, delta, e)
<1> DEFINE N(c) == [c EXCEPT !.start = Max0(@ + delta)]
<1>1. ASSUME NEW c \in Clip
      PROVE  N(c) \in Clip /\ Alike(N(c), c) /\ N(c).trans = c.trans /\ N(c).start = Max0(c.start + delta)
  <2>1. Max0(c.start + delta) \in Nat
    BY DEF Clip, Max0
  <2>2. QED
    BY <2>1 DEF Clip, Alike
<1>2. PICK f : f = [j \in Present(d) |->
                      IF j # e /\ d.clips[j].track = t /\ d.clips[j].start >= th
                      THEN N(d.clips[j]) ELSE d.clips[j]]
  OBVIOUS
<1> HIDE DEF N
<1>3. \A j \in Present(d) : d.clips[j] \in Clip
  BY ClipFields
<1>4. \A c \in Clip : Alike(c, c)
  BY DEF Alike
<1>5. f \in [Present(d) -> Clip]
  BY <1>1, <1>2, <1>3
<1>6. \A j \in Present(d) :
        /\ Alike(f[j], d.clips[j]) /\ f[j].trans = d.clips[j].trans
        /\ f[j].start = IF j # e /\ d.clips[j].track = t /\ d.clips[j].start >= th
                        THEN Max0(d.clips[j].start + delta) ELSE d.clips[j].start
  BY <1>1, <1>2, <1>3, <1>4
<1>7. PICK r : r = Rippled(d, t, th, delta, e)
  OBVIOUS
<1>8. r = WithClips(d, f)
  BY <1>2, <1>7 DEF Rippled, N
<1>9. Present(d) \subseteq ClipIds
  BY DEF IsDoc
<1>10. IsDoc(r) /\ Present(r) = Present(d) /\ r.tracks = d.tracks /\ r.clips = f
  BY <1>5, <1>8, <1>9, ClipsMakeADoc
<1>11. QED
  BY <1>6, <1>7, <1>10 DEF Shifts

Clears(r, d, ts) ==
  /\ IsDoc(r) /\ Present(r) = Present(d) /\ r.tracks = d.tracks
  /\ \A j \in Present(d) :
       /\ Alike(r.clips[j], d.clips[j]) /\ r.clips[j].start = d.clips[j].start
       /\ r.clips[j].trans = IF d.clips[j].trans > 0 /\ d.clips[j].track \in ts /\ ~ButtJoined(d, j)
                             THEN 0 ELSE d.clips[j].trans

LEMMA ClearedFacts ==
  ASSUME NEW d, IsDoc(d), NEW ts
  PROVE  Clears(Cleared(d, ts), d, ts)
<1> DEFINE N(c) == [c EXCEPT !.trans = 0]
<1>1. ASSUME NEW c \in Clip
      PROVE  N(c) \in Clip /\ Alike(N(c), c) /\ N(c).trans = 0 /\ N(c).start = c.start
  BY DEF Clip, Alike
<1>2. PICK f : f = [j \in Present(d) |->
                      IF d.clips[j].trans > 0 /\ d.clips[j].track \in ts /\ ~ButtJoined(d, j)
                      THEN N(d.clips[j]) ELSE d.clips[j]]
  OBVIOUS
<1> HIDE DEF N
<1>3. \A j \in Present(d) : d.clips[j] \in Clip
  BY ClipFields
<1>4. \A c \in Clip : Alike(c, c)
  BY DEF Alike
<1>5. f \in [Present(d) -> Clip]
  BY <1>1, <1>2, <1>3
<1>6. \A j \in Present(d) :
        /\ Alike(f[j], d.clips[j]) /\ f[j].start = d.clips[j].start
        /\ f[j].trans = IF d.clips[j].trans > 0 /\ d.clips[j].track \in ts /\ ~ButtJoined(d, j)
                        THEN 0 ELSE d.clips[j].trans
  BY <1>1, <1>2, <1>3, <1>4
<1>7. PICK r : r = Cleared(d, ts)
  OBVIOUS
<1>8. r = WithClips(d, f)
  BY <1>2, <1>7 DEF Cleared, N
<1>9. Present(d) \subseteq ClipIds
  BY DEF IsDoc
<1>10. IsDoc(r) /\ Present(r) = Present(d) /\ r.tracks = d.tracks /\ r.clips = f
  BY <1>5, <1>8, <1>9, ClipsMakeADoc
<1>11. QED
  BY <1>6, <1>7, <1>10 DEF Clears

-----------------------------------------------------------------------------
(* Clips that are sound one by one.                                        *)

Suits(d, c) ==
  c \in Clip /\ c.track \in d.tracks /\ (KindOf[c.media] # "text" => c.out - c.in = c.dur)

LEMMA WholeMeansSuits ==
  ASSUME NEW d
  PROVE  Whole(d) <=> IsDoc(d) /\ \A i \in Present(d) : Suits(d, d.clips[i])
BY ClipFields DEF Whole, OnTracks, RangesMatch, Suits

LEMMA AlikeIsWhole ==
  ASSUME NEW d, Whole(d), NEW r, IsDoc(r), Present(r) \subseteq Present(d), r.tracks = d.tracks,
         \A j \in Present(r) : Alike(r.clips[j], d.clips[j])
  PROVE  Whole(r)
<1>1. ASSUME NEW j \in Present(r)
      PROVE  Suits(r, r.clips[j])
  <2>1. Suits(d, d.clips[j])
    BY WholeMeansSuits
  <2>2. r.clips[j] \in Clip
    BY ClipFields
  <2>3. QED
    BY <2>1, <2>2 DEF Suits, Alike
<1>2. QED
  BY <1>1, WholeMeansSuits

LEMMA RippledIsWhole ==
  ASSUME NEW d, Whole(d), NEW t, NEW th \in Nat, NEW delta \in Int, NEW e
  PROVE  Whole(Rippled(d, t, th, delta, e))
<1>1. IsDoc(d)
  BY DEF Whole
<1>2. PICK r : r = Rippled(d, t, th, delta, e)
  OBVIOUS
<1>3. Shifts(r, d, t, th, delta, e)
  BY <1>1, <1>2, RippledFacts
<1>4. QED
  BY <1>2, <1>3, AlikeIsWhole DEF Shifts

LEMMA ClearedIsWhole ==
  ASSUME NEW d, Whole(d), NEW ts
  PROVE  Whole(Cleared(d, ts))
<1>1. IsDoc(d)
  BY DEF Whole
<1>2. PICK r : r = Cleared(d, ts)
  OBVIOUS
<1>3. Clears(r, d, ts)
  BY <1>1, <1>2, ClearedFacts
<1>4. QED
  BY <1>2, <1>3, AlikeIsWhole DEF Clears

LEMMA DroppedIsWhole ==
  ASSUME NEW d, Whole(d), NEW i
  PROVE  Whole(DropClip(d, i))
<1>1. IsDoc(d)
  BY DEF Whole
<1>2. PICK r : r = DropClip(d, i)
  OBVIOUS
<1>3. /\ IsDoc(r) /\ Present(r) \subseteq Present(d) /\ r.tracks = d.tracks
      /\ \A j \in Present(r) : r.clips[j] = d.clips[j]
  BY <1>1, <1>2, DropClipFacts
<1>4. \A j \in Present(r) : Alike(r.clips[j], d.clips[j])
  BY <1>3 DEF Alike
<1>5. QED
  BY <1>2, <1>3, <1>4, AlikeIsWhole

LEMMA SetIsWhole ==
  ASSUME NEW d, Whole(d), NEW i \in Present(d), NEW c, Suits(d, c)
  PROVE  Whole(SetClip(d, i, c))
<1>1. IsDoc(d) /\ c \in Clip /\ \A j \in Present(d) : Suits(d, d.clips[j])
  BY WholeMeansSuits DEF Suits
<1>2. PICK r : r = SetClip(d, i, c)
  OBVIOUS
<1>3. /\ IsDoc(r) /\ Present(r) = Present(d) /\ r.tracks = d.tracks /\ r.clips[i] = c
      /\ \A j \in Present(d) \ {i} : r.clips[j] = d.clips[j]
  BY <1>1, <1>2, SetClipFacts
<1>4. \A j \in Present(r) : Suits(r, r.clips[j])
  BY <1>1, <1>3 DEF Suits
<1>5. QED
  BY <1>2, <1>3, <1>4, WholeMeansSuits

LEMMA AddIsWhole ==
  ASSUME NEW d, Whole(d), NEW i \in ClipIds \ Present(d), NEW c, Suits(d, c)
  PROVE  Whole(AddClip(d, i, c))
<1>1. IsDoc(d) /\ c \in Clip /\ \A j \in Present(d) : Suits(d, d.clips[j])
  BY WholeMeansSuits DEF Suits
<1>2. PICK r : r = AddClip(d, i, c)
  OBVIOUS
<1>3. /\ IsDoc(r) /\ Present(r) = Present(d) \union {i} /\ r.tracks = d.tracks /\ r.clips[i] = c
      /\ \A j \in Present(d) : r.clips[j] = d.clips[j]
  BY <1>1, <1>2, AddClipFacts
<1>4. \A j \in Present(r) : Suits(r, r.clips[j])
  BY <1>1, <1>3 DEF Suits
<1>5. QED
  BY <1>2, <1>3, <1>4, WholeMeansSuits

-----------------------------------------------------------------------------
(* Clips that do not overlap.                                              *)

\* A clip put where _ensure_no_overlap finds room.
LEMMA PlacedIsDisjoint ==
  ASSUME NEW d, IsDoc(d), NEW e, NEW c \in Clip, OthersApart(d, e),
         IsFree(d, c.track, c.start, c.dur, e),
         NEW r, Present(r) = Present(d) \union {e}, r.clips[e] = c,
         \A j \in Present(d) \ {e} : r.clips[j] = d.clips[j]
  PROVE  Disjoint(r)
<1> SUFFICES ASSUME NEW i \in Present(r), NEW j \in Present(r), i # j, r.clips[i].track = r.clips[j].track
             PROVE  EndOf(r.clips[i]) <= r.clips[j].start \/ EndOf(r.clips[j]) <= r.clips[i].start
  BY DEF Disjoint
<1>1. CASE i # e /\ j # e
  BY <1>1 DEF OthersApart
<1>2. ASSUME NEW k \in Present(d) \ {e}, d.clips[k].track = c.track
      PROVE  EndOf(d.clips[k]) <= c.start \/ EndOf(c) <= d.clips[k].start
  BY <1>2 DEF IsFree, TrackClips, EndOf
<1>3. CASE i = e
  BY <1>2, <1>3
<1>4. CASE j = e
  BY <1>2, <1>4
<1>5. QED
  BY <1>1, <1>3, <1>4

\* A ripple that opens a gap keeps the clips apart, and what starts before the
\* threshold ends before what is shifted.
LEMMA OpeningIsDisjoint ==
  ASSUME NEW d, IsDoc(d), Disjoint(d), NEW t, NEW th \in Nat, NEW n \in Nat, NEW e, e \notin Present(d)
  PROVE  Disjoint(Rippled(d, t, th, n, e))
<1>1. PICK r : r = Rippled(d, t, th, n, e)
  OBVIOUS
<1>2. Shifts(r, d, t, th, n, e)
  BY <1>1, RippledFacts
<1>3. ASSUME NEW j \in Present(d)
      PROVE  /\ r.clips[j].track = d.clips[j].track
             /\ r.clips[j].start = IF d.clips[j].track = t /\ d.clips[j].start >= th
                                   THEN d.clips[j].start + n ELSE d.clips[j].start
             /\ EndOf(r.clips[j]) = r.clips[j].start + d.clips[j].dur
  BY <1>2, ClipFields DEF Shifts, Alike, EndOf, Max0
<1> SUFFICES ASSUME NEW i \in Present(d), NEW j \in Present(d), i # j, d.clips[i].track = d.clips[j].track
             PROVE  EndOf(r.clips[i]) <= r.clips[j].start \/ EndOf(r.clips[j]) <= r.clips[i].start
  BY <1>1, <1>2, <1>3 DEF Shifts, Disjoint
<1>4. PICK si, di, sj, dj : si = d.clips[i].start /\ di = d.clips[i].dur /\ sj = d.clips[j].start /\ dj = d.clips[j].dur
  OBVIOUS
<1>5. si \in Nat /\ sj \in Nat /\ di \in Nat /\ di > 0 /\ dj \in Nat /\ dj > 0
  BY <1>4, ClipFields
<1>6. si + di <= sj \/ sj + dj <= si
  BY <1>4 DEF Disjoint, EndOf
<1>7. PICK ri, rj : ri = r.clips[i].start /\ rj = r.clips[j].start
  OBVIOUS
<1>8. CASE d.clips[i].track = t
  <2>1. ri = (IF si >= th THEN si + n ELSE si) /\ rj = (IF sj >= th THEN sj + n ELSE sj)
    BY <1>3, <1>4, <1>7, <1>8
  <2>2. ri + di <= rj \/ rj + dj <= ri
    BY <1>5, <1>6, <2>1
  <2>3. QED
    BY <1>3, <1>4, <1>7, <2>2
<1>9. CASE d.clips[i].track # t
  <2>1. ri = si /\ rj = sj
    BY <1>3, <1>4, <1>7, <1>9
  <2>2. QED
    BY <1>3, <1>4, <1>6, <1>7, <2>1
<1>10. QED
  BY <1>8, <1>9

\* A ripple from clip e on, for e of length n instead: the others stay apart, and
\* there is room for it.  With n = 0 it closes the gap e leaves.
LEMMA ResizingIsFree ==
  ASSUME NEW d, IsDoc(d), Disjoint(d), NEW e \in Present(d), NEW n \in Nat
  PROVE  LET c == d.clips[e]
             r == Rippled(d, c.track, c.start, n - c.dur, e)
         IN  OthersApart(r, e) /\ IsFree(r, c.track, c.start, n, e)
<1>1. PICK t, th, dur : t = d.clips[e].track /\ th = d.clips[e].start /\ dur = d.clips[e].dur
  OBVIOUS
<1>2. th \in Nat /\ dur \in Nat /\ dur > 0 /\ n - dur \in Int
  BY <1>1, ClipFields
<1>3. PICK r : r = Rippled(d, t, th, n - dur, e)
  OBVIOUS
<1>4. Shifts(r, d, t, th, n - dur, e)
  BY <1>2, <1>3, RippledFacts
<1>5. ASSUME NEW j \in Present(d) \ {e}, d.clips[j].track = t
      PROVE  \/ d.clips[j].start >= th + dur
             \/ d.clips[j].start + d.clips[j].dur <= th
  BY <1>1, <1>5 DEF Disjoint, EndOf
<1>6. ASSUME NEW j \in Present(d) \ {e}
      PROVE  /\ r.clips[j].track = d.clips[j].track
             /\ EndOf(r.clips[j]) = r.clips[j].start + d.clips[j].dur
             /\ d.clips[j].track # t => r.clips[j].start = d.clips[j].start
             /\ d.clips[j].track = t =>
                  r.clips[j].start = IF d.clips[j].start >= th
                                     THEN d.clips[j].start + (n - dur) ELSE d.clips[j].start
  <2>1. PICK s, l : s = d.clips[j].start /\ l = d.clips[j].dur
    OBVIOUS
  <2>2. s \in Nat /\ l \in Nat /\ l > 0
    BY <2>1, ClipFields
  <2>3. d.clips[j].track = t /\ s >= th => Max0(s + (n - dur)) = s + (n - dur)
    BY <1>2, <1>5, <2>1, <2>2 DEF Max0
  <2>4. QED
    BY <1>4, <2>1, <2>3 DEF Shifts, Alike, EndOf
<1>7. OthersApart(r, e)
  <2> SUFFICES ASSUME NEW i \in Present(d) \ {e}, NEW j \in Present(d) \ {e},
                      i # j, d.clips[i].track = d.clips[j].track
               PROVE  EndOf(r.clips[i]) <= r.clips[j].start \/ EndOf(r.clips[j]) <= r.clips[i].start
    BY <1>4, <1>6 DEF Shifts, OthersApart
  <2>1. PICK si, di, sj, dj : si = d.clips[i].start /\ di = d.clips[i].dur /\ sj = d.clips[j].start /\ dj = d.clips[j].dur
    OBVIOUS
  <2>2. si \in Nat /\ sj \in Nat /\ di \in Nat /\ di > 0 /\ dj \in Nat /\ dj > 0
    BY <2>1, ClipFields
  <2>3. si + di <= sj \/ sj + dj <= si
    BY <2>1 DEF Disjoint, EndOf
  <2>4. PICK ri, rj : ri = r.clips[i].start /\ rj = r.clips[j].start
    OBVIOUS
  <2>5. CASE d.clips[i].track = t
    <3>1. /\ ri = (IF si >= th THEN si + (n - dur) ELSE si)
          /\ rj = (IF sj >= th THEN sj + (n - dur) ELSE sj)
      BY <1>6, <2>1, <2>4, <2>5
    <3>2. (si >= th + dur \/ si + di <= th) /\ (sj >= th + dur \/ sj + dj <= th)
      BY <1>5, <2>1, <2>5
    <3>3. ri + di <= rj \/ rj + dj <= ri
      BY <1>2, <2>2, <2>3, <3>1, <3>2
    <3>4. QED
      BY <1>6, <2>1, <2>4, <3>3
  <2>6. CASE d.clips[i].track # t
    <3>1. ri = si /\ rj = sj
      BY <1>6, <2>1, <2>4, <2>6
    <3>2. si + di <= rj \/ sj + dj <= ri
      BY <2>3, <3>1
    <3>3. EndOf(r.clips[i]) = si + di /\ EndOf(r.clips[j]) = sj + dj
      BY <1>6, <2>1, <2>4, <3>1
    <3>4. QED
      BY <2>4, <3>2, <3>3
  <2>7. QED
    BY <2>5, <2>6
<1>8. IsFree(r, t, th, n, e)
  <2> SUFFICES ASSUME NEW j \in Present(d) \ {e}, d.clips[j].track = t
               PROVE  EndOf(r.clips[j]) <= th \/ th + n <= r.clips[j].start
    BY <1>4, <1>6 DEF Shifts, IsFree, TrackClips
  <2>1. PICK s, l, x : s = d.clips[j].start /\ l = d.clips[j].dur /\ x = r.clips[j].start
    OBVIOUS
  <2>2. s \in Nat /\ l \in Nat /\ l > 0
    BY <2>1, ClipFields
  <2>3. x = (IF s >= th THEN s + (n - dur) ELSE s) /\ (s >= th + dur \/ s + l <= th)
    BY <1>5, <1>6, <2>1
  <2>4. x + l <= th \/ th + n <= x
    BY <1>2, <2>2, <2>3
  <2>5. QED
    BY <1>6, <2>1, <2>4
<1>9. QED
  BY <1>1, <1>3, <1>7, <1>8

-----------------------------------------------------------------------------
(* The edits.                                                              *)

Sound(d) == Whole(d) /\ Disjoint(d)

LEMMA ClearedIsSound ==
  ASSUME NEW d, Sound(d), NEW ts
  PROVE  Sound(Cleared(d, ts))
<1>1. PICK r : r = Cleared(d, ts)
  OBVIOUS
<1>2. Clears(r, d, ts)
  BY <1>1, ClearedFacts DEF Sound, Whole
<1>3. Whole(r)
  BY <1>1, ClearedIsWhole DEF Sound
<1>4. \A j \in Present(d) : r.clips[j].track = d.clips[j].track
                            /\ r.clips[j].start = d.clips[j].start /\ EndOf(r.clips[j]) = EndOf(d.clips[j])
  BY <1>2 DEF Clears, Alike, EndOf
<1>5. Disjoint(r)
  BY <1>2, <1>4 DEF Sound, Disjoint, Clears
<1>6. QED
  BY <1>1, <1>3, <1>5 DEF Sound

\* A clip that is put in place, of a document whose other clips are apart.
LEMMA SetIsSound ==
  ASSUME NEW d, Whole(d), NEW i \in Present(d), OthersApart(d, i), NEW c, Suits(d, c),
         IsFree(d, c.track, c.start, c.dur, i)
  PROVE  Sound(SetClip(d, i, c))
<1>1. IsDoc(d) /\ c \in Clip
  BY DEF Whole, Suits
<1>2. PICK r : r = SetClip(d, i, c)
  OBVIOUS
<1>3. /\ Present(r) = Present(d) \union {i} /\ r.clips[i] = c
      /\ \A j \in Present(d) \ {i} : r.clips[j] = d.clips[j]
  BY <1>1, <1>2, SetClipFacts
<1>4. Disjoint(r)
  BY <1>1, <1>3, PlacedIsDisjoint
<1>5. QED
  BY <1>2, <1>4, SetIsWhole DEF Sound

LEMMA AddIsSound ==
  ASSUME NEW d, Sound(d), NEW i \in ClipIds \ Present(d), NEW c, Suits(d, c),
         \A j \in TrackClips(d, c.track) : EndOf(d.clips[j]) <= c.start \/ c.start + c.dur <= d.clips[j].start
  PROVE  Sound(AddClip(d, i, c))
<1>1. IsDoc(d) /\ c \in Clip /\ Whole(d)
  BY DEF Sound, Whole, Suits
<1>2. PICK r : r = AddClip(d, i, c)
  OBVIOUS
<1>3. /\ Present(r) = Present(d) \union {i} /\ r.clips[i] = c
      /\ \A j \in Present(d) : r.clips[j] = d.clips[j]
  BY <1>1, <1>2, AddClipFacts
<1>4. OthersApart(d, i) /\ IsFree(d, c.track, c.start, c.dur, i)
  BY DEF Sound, Disjoint, OthersApart, IsFree, TrackClips
<1>5. Disjoint(r)
  BY <1>1, <1>3, <1>4, PlacedIsDisjoint
<1>6. QED
  BY <1>1, <1>2, <1>5, AddIsWhole DEF Sound

LEMMA RangeFacts ==
  ASSUME NEW media \in Media, NEW range \in Ranges(media)
  PROVE  /\ range[1] \in Nat /\ range[2] \in Nat /\ range[1] < range[2]
         /\ KindOf[media] = "text" => range[1] = 0
<1>1. CASE KindOf[media] = "text"
  <2>1. PICK n \in TextDurations : range = <<0, n>>
    BY <1>1 DEF Ranges
  <2>2. n \in Nat /\ n > 0
    BY TimelineAssumption
  <2>3. QED
    BY <2>1, <2>2
<1>2. CASE KindOf[media] # "text"
  BY <1>2, TimelineAssumption DEF Ranges
<1>3. QED
  BY <1>1, <1>2

LEMMA NewClipFacts ==
  ASSUME NEW d, NEW media \in Media, NEW t \in Tracks, t \in d.tracks, NEW start \in Nat,
         NEW range \in InsertRanges(media), NEW c, c = NewClip(media, t, start, range)
  PROVE  /\ Suits(d, c) /\ c.track = t /\ c.start = start /\ c.dur = range[2] - range[1]
         /\ c.trans = 0 /\ range[2] - range[1] \in Nat
<1>1. PICK a, b : a = range[1] /\ b = range[2]
  OBVIOUS
<1>2. a \in Nat /\ b \in Nat /\ a < b /\ (KindOf[media] = "text" => a = 0)
      /\ (KindOf[media] # "text" => b - a >= MinDuration)
  BY <1>1, RangeFacts DEF InsertRanges
<1>3. b - a \in Nat \ {0} /\ MinDuration \in Nat
  BY <1>2, TimelineAssumption
<1>4. PICK k : k = [track |-> t, media |-> media, start |-> start, dur |-> b - a,
                    in |-> a, out |-> b, trans |-> 0]
  OBVIOUS
<1>5. k \in Clip
  BY <1>2, <1>3, <1>4 DEF Clip
<1>6. c = NormalClip(k)
  BY <1>1, <1>4 DEF NewClip
<1>7. CASE KindOf[media] = "text"
  <2>1. c = [k EXCEPT !.in = 0, !.out = b - a]
    BY <1>4, <1>6, <1>7 DEF NormalClip
  <2>2. k.dur = b - a /\ k.media = media /\ k.track = t /\ k.start = start /\ k.trans = 0
    BY <1>4
  <2>3. c \in Clip
    <3>1. PICK n \in Nat : n = b - a
      BY <1>3
    <3>2. c = [k EXCEPT !.in = 0, !.out = n]
      BY <2>1, <3>1
    <3>3. c = [track |-> t, media |-> media, start |-> start, dur |-> b - a,
               in |-> 0, out |-> n, trans |-> 0]
      BY <1>4, <3>2
    <3>4. QED
      BY <1>3, <3>3 DEF Clip
  <2>4. /\ c.dur = k.dur /\ c.media = k.media /\ c.track = k.track /\ c.start = k.start
        /\ c.trans = k.trans
    BY <1>5, <2>1 DEF Clip
  <2>5. Suits(d, c)
    BY <1>7, <2>2, <2>3, <2>4 DEF Suits
  <2>6. QED
    BY <1>1, <1>3, <2>2, <2>4, <2>5
<1>8. CASE KindOf[media] # "text"
  <2>1. (IF b - a < MinDuration THEN MinDuration ELSE b - a) = b - a
    BY <1>2, <1>3, <1>8
  <2>2. PICK o : o = IF a = 0 /\ b < b - a THEN b - a ELSE b
    OBVIOUS
  <2>3. o = b
    BY <1>2, <2>2
  <2>4. PICK n : n = IF k.dur < MinDuration THEN MinDuration ELSE k.dur
    OBVIOUS
  <2>5. k.dur = b - a /\ k.in = a /\ k.out = b /\ k.media = media
    BY <1>4
  <2>6. c = [k EXCEPT !.dur = n, !.out = IF k.in = 0 /\ k.out < n THEN n ELSE k.out]
    BY <1>6, <1>8, <2>4, <2>5 DEF NormalClip
  <2>7. n = b - a
    BY <2>1, <2>4, <2>5
  <2>8. c = [k EXCEPT !.dur = b - a, !.out = o]
    BY <2>2, <2>5, <2>6, <2>7
  <2>9. c = k
    BY <1>4, <2>3, <2>8
  <2>10. c.out - c.in = c.dur
    BY <1>4, <2>9
  <2>11. QED
    BY <1>1, <1>3, <1>4, <1>5, <2>9, <2>10 DEF Suits
<1>9. QED
  BY <1>7, <1>8

\* The documents a clip of length n may be put into at start: nothing has moved, or what
\* starts there or later has made room.
Opened(d, t, start, n) == {d, Rippled(d, t, start, n, 0)}

LEMMA OpenedFacts ==
  ASSUME NEW d, Sound(d), NEW t, NEW start \in Nat, NEW n \in Nat, NEW r \in Opened(d, t, start, n)
  PROVE  /\ Sound(r) /\ r.tracks = d.tracks /\ Present(r) = Present(d) /\ 0 \notin Present(d)
         /\ r = d \/ Shifts(r, d, t, start, n, 0)
<1>1. IsDoc(d) /\ Whole(d) /\ Disjoint(d) /\ 0 \notin Present(d)
  BY DEF Sound, Whole, IsDoc, ClipIds
<1>2. CASE r = Rippled(d, t, start, n, 0)
  <2>1. Shifts(r, d, t, start, n, 0)
    BY <1>1, <1>2, RippledFacts
  <2>2. Whole(r) /\ Disjoint(r)
    BY <1>1, <1>2, RippledIsWhole, OpeningIsDisjoint
  <2>3. QED
    BY <1>1, <2>1, <2>2 DEF Sound, Shifts
<1>3. CASE r = d
  BY <1>1, <1>3
<1>4. QED
  BY <1>2, <1>3 DEF Opened

Inserting(media, t, range) ==
  \/ InsertAppend(media, t, range)
  \/ \E start \in Times, ripple \in BOOLEAN : InsertAtTime(media, t, range, start, ripple)
  \/ \E next \in ClipIds : InsertAtIndex(media, t, range, next)

\* Every insertion puts a sound clip where there is room, if need be after making some.
LEMMA InsertFacts ==
  ASSUME Sound(doc), NEW media \in Media, NEW t \in Tracks, NEW range \in InsertRanges(media),
         Inserting(media, t, range)
  PROVE  \E start \in Nat, n \in Nat, i \in ClipIds \ Present(doc), c \in Clip :
           /\ Suits(doc, c) /\ c.track = t /\ c.start = start /\ c.dur = n /\ c.trans = 0
           /\ \E d \in Opened(doc, t, start, n) : IsFree(d, t, start, n, 0) /\ doc' = AddClip(d, i, c)
<1>1. IsDoc(doc) /\ Whole(doc) /\ Disjoint(doc) /\ 0 \notin Present(doc)
  BY DEF Sound, Whole, IsDoc, ClipIds
<1>2. PICK n : n = range[2] - range[1]
  OBVIOUS
<1>3. t \in doc.tracks
  BY DEF Inserting, InsertAppend, InsertAtTime, InsertAtIndex, Insertable
<1>4. n \in Nat
  <2>1. range \in Ranges(media)
    BY DEF InsertRanges
  <2>2. QED
    BY <1>2, <2>1, RangeFacts
<1>5. ASSUME NEW start \in Nat, NEW i \in ClipIds \ Present(doc), NEW d \in Opened(doc, t, start, n),
             IsFree(d, t, start, n, 0), doc' = AddClip(d, i, NewClip(media, t, start, range))
      PROVE  \E c \in Clip :
               /\ Suits(doc, c) /\ c.track = t /\ c.start = start /\ c.dur = n /\ c.trans = 0
               /\ IsFree(d, t, start, n, 0) /\ doc' = AddClip(d, i, c)
  <2>1. PICK c : c = NewClip(media, t, start, range)
    OBVIOUS
  <2>2. Suits(doc, c) /\ c.track = t /\ c.start = start /\ c.dur = n /\ c.trans = 0
    BY <1>2, <1>3, <2>1, NewClipFacts
  <2>3. c \in Clip
    BY <2>2 DEF Suits
  <2>4. QED
    BY <1>5, <2>1, <2>2, <2>3
<1>6. CASE InsertAppend(media, t, range)
  <2>1. PICK i \in ClipIds, e \in Times :
          /\ i \notin Present(doc) /\ TrackEnd(doc, t, e)
          /\ doc' = AddClip(doc, i, NewClip(media, t, e, range))
    BY <1>6 DEF InsertAppend, NewId, Edited
  <2>2. e \in Nat
    BY TimelineAssumption DEF Times
  <2>3. IsFree(doc, t, e, n, 0) /\ doc \in Opened(doc, t, e, n)
    BY <2>1 DEF TrackEnd, IsFree, Opened
  <2>4. QED
    BY <1>4, <1>5, <2>1, <2>2, <2>3
<1>7. CASE \E start \in Times, ripple \in BOOLEAN : InsertAtTime(media, t, range, start, ripple)
  <2>1. PICK start \in Times, ripple \in BOOLEAN : InsertAtTime(media, t, range, start, ripple)
    BY <1>7
  <2>2. start \in Nat
    BY TimelineAssumption DEF Times
  <2>3. PICK d : d = IF ripple THEN Rippled(doc, t, start, n, 0) ELSE doc
    OBVIOUS
  <2>4. IsFree(d, t, start, n, 0)
        /\ \E i \in ClipIds : i \notin Present(d) /\ doc' = AddClip(d, i, NewClip(media, t, start, range))
    BY <1>2, <2>1, <2>3 DEF InsertAtTime, NewId, Edited
  <2>5. d \in Opened(doc, t, start, n)
    BY <2>3 DEF Opened
  <2>6. PICK i \in ClipIds \ Present(doc) : doc' = AddClip(d, i, NewClip(media, t, start, range))
    BY <1>4, <2>2, <2>4, <2>5, OpenedFacts
  <2>7. QED
    BY <1>4, <1>5, <2>2, <2>4, <2>5, <2>6
<1>8. CASE \E next \in ClipIds : InsertAtIndex(media, t, range, next)
  <2>1. PICK next \in ClipIds : InsertAtIndex(media, t, range, next)
    BY <1>8
  <2>2. PICK start : start = doc.clips[next].start
    OBVIOUS
  <2>3. next \in Present(doc) /\ doc.clips[next].track = t /\ start \in Nat
    BY <1>1, <2>1, <2>2, ClipFields DEF InsertAtIndex, TrackClips
  <2>4. PICK d : d = Rippled(doc, t, start, n, 0)
    OBVIOUS
  <2>5. d \in Opened(doc, t, start, n)
    BY <2>4 DEF Opened
  <2>6. \E i \in ClipIds : i \notin Present(d) /\ doc' = AddClip(d, i, NewClip(media, t, start, range))
    BY <1>2, <2>1, <2>2, <2>4 DEF InsertAtIndex, NewId, Edited
  <2>7. Shifts(d, doc, t, start, n, 0)
    BY <1>1, <1>4, <2>3, <2>4, RippledFacts
  <2>8. IsFree(d, t, start, n, 0)
    <3> SUFFICES ASSUME NEW j \in Present(doc), doc.clips[j].track = t
                 PROVE  EndOf(d.clips[j]) <= start \/ start + n <= d.clips[j].start
      BY <2>7 DEF Shifts, Alike, IsFree, TrackClips
    <3>1. PICK s, l : s = doc.clips[j].start /\ l = doc.clips[j].dur
      OBVIOUS
    <3>2. s \in Nat /\ l \in Nat /\ l > 0 /\ doc.clips[next].dur \in Nat /\ doc.clips[next].dur > 0
      BY <1>1, <2>3, <3>1, ClipFields
    <3>3. EndOf(d.clips[j]) = d.clips[j].start + l
      BY <2>7, <3>1 DEF Shifts, Alike, EndOf
    <3>4. CASE s >= start
      <4>1. d.clips[j].start = Max0(s + n)
        BY <1>1, <2>7, <3>1, <3>4 DEF Shifts
      <4>2. QED
        BY <1>4, <2>3, <3>2, <3>4, <4>1 DEF Max0
    <3>5. CASE s < start
      <4>1. d.clips[j].start = s
        BY <2>3, <2>7, <3>1, <3>2, <3>5 DEF Shifts
      <4>2. j # next
        BY <2>2, <2>3, <3>1, <3>2, <3>5
      <4>3. s + l <= start \/ start + doc.clips[next].dur <= s
        BY <1>1, <2>2, <2>3, <3>1, <4>2 DEF Disjoint, EndOf
      <4>4. s + l <= start
        BY <2>3, <3>2, <3>5, <4>3
      <4>5. QED
        BY <3>3, <4>1, <4>4
    <3>6. QED
      BY <2>3, <3>2, <3>4, <3>5
  <2>9. PICK i \in ClipIds \ Present(doc) : doc' = AddClip(d, i, NewClip(media, t, start, range))
    BY <2>6, <2>7 DEF Shifts
  <2>10. QED
    BY <1>4, <1>5, <2>3, <2>5, <2>8, <2>9
<1>9. QED
  BY <1>6, <1>7, <1>8 DEF Inserting

LEMMA InsertedIsSound ==
  ASSUME Sound(doc), NEW media \in Media, NEW t \in Tracks, NEW range \in InsertRanges(media),
         Inserting(media, t, range)
  PROVE  Sound(doc')
<1>1. PICK start \in Nat, n \in Nat, i \in ClipIds \ Present(doc), c \in Clip :
        /\ Suits(doc, c) /\ c.track = t /\ c.start = start /\ c.dur = n /\ c.trans = 0
        /\ \E d \in Opened(doc, t, start, n) : IsFree(d, t, start, n, 0) /\ doc' = AddClip(d, i, c)
  BY InsertFacts
<1>2. PICK d \in Opened(doc, t, start, n) : IsFree(d, t, start, n, 0) /\ doc' = AddClip(d, i, c)
  BY <1>1
<1>3. Sound(d) /\ d.tracks = doc.tracks /\ Present(d) = Present(doc) /\ 0 \notin Present(doc)
  BY <1>2, OpenedFacts
<1>4. Suits(d, c) /\ i \in ClipIds \ Present(d)
  BY <1>1, <1>3 DEF Suits
<1>5. \A j \in TrackClips(d, c.track) : EndOf(d.clips[j]) <= c.start \/ c.start + c.dur <= d.clips[j].start
  BY <1>1, <1>2, <1>3 DEF IsFree, TrackClips
<1>6. QED
  BY <1>1, <1>2, <1>3, <1>4, <1>5, AddIsSound

\* The document after a change of clip i's length to n, before the clip itself is changed:
\* what starts behind it is shifted, or nothing is.
LEMMA RegappedFacts ==
  ASSUME NEW d, Sound(d), NEW i \in Present(d), NEW n \in Nat, NEW delta, delta = n - d.clips[i].dur,
         NEW ripple \in BOOLEAN,
         NEW r, r = IF ripple THEN Rippled(d, d.clips[i].track, d.clips[i].start, delta, i) ELSE d
  PROVE  /\ Whole(r) /\ OthersApart(r, i) /\ Present(r) = Present(d) /\ r.tracks = d.tracks
         /\ ripple \/ n <= d.clips[i].dur => IsFree(r, d.clips[i].track, d.clips[i].start, n, i)
<1>1. IsDoc(d) /\ Whole(d) /\ Disjoint(d)
  BY DEF Sound, Whole
<1>2. /\ d.clips[i].dur \in Nat /\ d.clips[i].start \in Nat
      /\ delta \in Int
  BY <1>1, ClipFields
<1>3. CASE ripple
  <2>1. r = Rippled(d, d.clips[i].track, d.clips[i].start, delta, i)
    BY <1>3
  <2>2. Whole(r)
    BY <1>1, <1>2, <2>1, RippledIsWhole
  <2>3. Shifts(r, d, d.clips[i].track, d.clips[i].start, delta, i)
    BY <1>1, <1>2, <2>1, RippledFacts
  <2>4. OthersApart(r, i) /\ IsFree(r, d.clips[i].track, d.clips[i].start, n, i)
    BY <1>1, <2>1, ResizingIsFree
  <2>5. QED
    BY <2>2, <2>3, <2>4 DEF Shifts
<1>4. CASE ~ripple
  <2>1. OthersApart(d, i)
    BY <1>1 DEF Disjoint, OthersApart
  <2>2. ASSUME n <= d.clips[i].dur
        PROVE  IsFree(d, d.clips[i].track, d.clips[i].start, n, i)
    <3> SUFFICES ASSUME NEW j \in Present(d) \ {i}, d.clips[j].track = d.clips[i].track
                 PROVE  EndOf(d.clips[j]) <= d.clips[i].start \/ d.clips[i].start + n <= d.clips[j].start
      BY DEF IsFree, TrackClips
    <3>1. EndOf(d.clips[j]) <= d.clips[i].start \/ d.clips[i].start + d.clips[i].dur <= d.clips[j].start
      BY <1>1 DEF Disjoint, EndOf
    <3>2. d.clips[j].start \in Nat
      BY <1>1, ClipFields
    <3>3. QED
      BY <1>2, <2>2, <3>1, <3>2
  <2>3. QED
    BY <1>1, <1>4, <2>1, <2>2
<1>5. QED
  BY <1>3, <1>4

LEMMA DeletedIsSound ==
  ASSUME Sound(doc), NEW i \in Present(doc), NEW ripple \in BOOLEAN, Delete(i, ripple)
  PROVE  Sound(doc')
<1>1. IsDoc(doc) /\ Whole(doc) /\ Disjoint(doc) /\ 0 \notin Present(doc)
  BY DEF Sound, Whole, IsDoc, ClipIds
<1>2. PICK t, th, delta : t = doc.clips[i].track /\ th = doc.clips[i].start /\ delta = -doc.clips[i].dur
  OBVIOUS
<1>3. th \in Nat /\ delta \in Int /\ delta = 0 - doc.clips[i].dur
  BY <1>1, <1>2, ClipFields
<1>4. PICK d : d = DropClip(doc, i)
  OBVIOUS
<1>5. /\ Whole(d) /\ IsDoc(d) /\ Present(d) = Present(doc) \ {i}
      /\ \A j \in Present(d) : d.clips[j] = doc.clips[j]
  BY <1>1, <1>4, DroppedIsWhole, DropClipFacts
<1>6. PICK r : r = IF ripple THEN Rippled(d, t, th, delta, 0) ELSE d
  OBVIOUS
<1>7. doc' = Cleared(r, {t})
  BY <1>2, <1>4, <1>6 DEF Delete, Edited
<1>8. CASE ripple
  <2>1. Whole(r) /\ Shifts(r, d, t, th, delta, 0)
    BY <1>3, <1>5, <1>6, <1>8, RippledIsWhole, RippledFacts
  <2>2. PICK q : q = Rippled(doc, t, th, delta, i)
    OBVIOUS
  <2>3. OthersApart(q, i) /\ Shifts(q, doc, t, th, delta, i)
    BY <1>1, <1>2, <1>3, <2>2, RegappedFacts, RippledFacts
  <2>4. ASSUME NEW j \in Present(d)
        PROVE  /\ r.clips[j].track = q.clips[j].track /\ r.clips[j].start = q.clips[j].start
               /\ EndOf(r.clips[j]) = EndOf(q.clips[j])
    <3>1. j \in Present(doc) /\ j # 0 /\ j # i /\ d.clips[j] = doc.clips[j]
      BY <1>1, <1>5
    <3>2. QED
      BY <2>1, <2>3, <3>1 DEF Shifts, Alike, EndOf
  <2>5. Disjoint(r)
    BY <1>5, <2>1, <2>3, <2>4 DEF Disjoint, OthersApart, Shifts
  <2>6. QED
    BY <1>7, <2>1, <2>5, ClearedIsSound DEF Sound
<1>9. CASE ~ripple
  <2>1. Disjoint(d)
    BY <1>1, <1>5 DEF Disjoint
  <2>2. QED
    BY <1>5, <1>6, <1>7, <1>9, <2>1, ClearedIsSound DEF Sound
<1>10. QED
  BY <1>8, <1>9

LEMMA MovedIsSound ==
  ASSUME Sound(doc), NEW i \in Present(doc), NEW t \in Tracks, NEW start \in Times, NEW ripple \in BOOLEAN,
         Move(i, t, start, ripple)
  PROVE  Sound(doc')
<1>1. IsDoc(doc) /\ Whole(doc) /\ start \in Nat
  BY TimelineAssumption DEF Sound, Whole, Times
<1>2. PICK c, delta, moved : /\ c = doc.clips[i] /\ delta = -c.dur
                             /\ moved = (ripple /\ (t # c.track \/ start # c.start)) /\ moved \in BOOLEAN
  OBVIOUS
<1>3. delta = 0 - c.dur
  BY <1>1, <1>2, ClipFields
<1>4. PICK d : d = IF moved THEN Rippled(doc, c.track, c.start, delta, i) ELSE doc
  OBVIOUS
<1>5. PICK k : k = [c EXCEPT !.track = t, !.start = start]
  OBVIOUS
<1>6. t \in doc.tracks /\ IsFree(d, t, start, c.dur, i) /\ doc' = Cleared(SetClip(d, i, k), {c.track, t})
  BY <1>2, <1>4, <1>5 DEF Move, Edited
<1>7. Whole(d) /\ OthersApart(d, i) /\ Present(d) = Present(doc) /\ d.tracks = doc.tracks
  <2>1. CASE moved
    BY <1>2, <1>3, <1>4, <2>1, RegappedFacts
  <2>2. CASE ~moved
    BY <1>2, <1>3, <1>4, <2>2, RegappedFacts
  <2>3. QED
    BY <1>2, <2>1, <2>2
<1>8. Suits(doc, c)
  BY <1>1, <1>2, WholeMeansSuits
<1>9. Suits(d, k) /\ k.track = t /\ k.start = start /\ k.dur = c.dur
  BY <1>1, <1>5, <1>6, <1>7, <1>8 DEF Suits, Clip
<1>10. Sound(SetClip(d, i, k))
  BY <1>6, <1>7, <1>9, SetIsSound
<1>11. QED
  BY <1>6, <1>10, ClearedIsSound

LEMMA TrimmedIsSound ==
  ASSUME Sound(doc), NEW i \in Present(doc), NEW ripple \in BOOLEAN,
         NEW range \in Ranges(doc.clips[i].media), Trim(i, range, ripple)
  PROVE  Sound(doc')
<1>1. IsDoc(doc) /\ Whole(doc)
  BY DEF Sound, Whole
<1>2. PICK c, a, b, n : c = doc.clips[i] /\ a = range[1] /\ b = range[2] /\ n = b - a
  OBVIOUS
<1>3. Suits(doc, c)
  BY <1>1, <1>2, WholeMeansSuits
<1>4. a \in Nat /\ b \in Nat /\ a < b
  BY <1>2, <1>3, RangeFacts DEF Suits, Clip
<1>5. n \in Nat \ {0}
  BY <1>2, <1>4
<1>6. PICK d, delta : /\ delta = n - c.dur
                      /\ d = IF ripple THEN Rippled(doc, c.track, c.start, delta, i) ELSE doc
  OBVIOUS
<1>7. PICK k : k = [c EXCEPT !.in = a, !.out = b, !.dur = n]
  OBVIOUS
<1>8. RoomFor(i, n, ripple) /\ doc' = SetClip(d, i, k)
  BY <1>2, <1>6, <1>7 DEF Trim, Edited, Resized
<1>9. /\ Whole(d) /\ OthersApart(d, i) /\ Present(d) = Present(doc) /\ d.tracks = doc.tracks
      /\ ripple \/ n <= c.dur => IsFree(d, c.track, c.start, n, i)
  BY <1>2, <1>5, <1>6, RegappedFacts
<1>10. Suits(d, k) /\ k.track = c.track /\ k.start = c.start /\ k.dur = n
  <2>1. c \in Clip /\ c.track \in d.tracks
    BY <1>3, <1>9 DEF Suits
  <2>2. k \in Clip
    BY <1>4, <1>5, <1>7, <2>1 DEF Clip
  <2>3. k.track = c.track /\ k.start = c.start /\ k.dur = n /\ k.in = a /\ k.out = b
    BY <1>7, <2>1 DEF Clip
  <2>4. k.out - k.in = k.dur
    BY <1>2, <2>3
  <2>5. QED
    BY <2>1, <2>2, <2>3, <2>4 DEF Suits
<1>11. IsFree(d, c.track, c.start, n, i)
  <2>1. CASE ripple \/ n <= c.dur
    BY <1>9, <2>1
  <2>2. CASE ~ripple /\ n > c.dur
    BY <1>2, <1>6, <1>8, <2>2 DEF RoomFor
  <2>3. c.dur \in Nat
    BY <1>3 DEF Suits, Clip
  <2>4. QED
    BY <1>5, <2>1, <2>2, <2>3
<1>12. QED
  BY <1>8, <1>9, <1>10, <1>11, SetIsSound

LEMMA RetimedIsSound ==
  ASSUME Sound(doc), NEW i \in Present(doc), NEW ripple \in BOOLEAN, NEW start \in Times,
         NEW dur \in TextDurations \union {doc.clips[i].dur}, SetTime(i, start, dur, ripple)
  PROVE  Sound(doc')
<1>1. IsDoc(doc) /\ Whole(doc) /\ Disjoint(doc) /\ start \in Nat
  BY TimelineAssumption DEF Sound, Whole, Times
<1>2. PICK c : c = doc.clips[i]
  OBVIOUS
<1>3. Suits(doc, c)
  BY <1>1, <1>2, WholeMeansSuits
<1>4. c.dur \in Nat \ {0} /\ dur \in Nat \ {0}
  BY <1>2, <1>3, TimelineAssumption DEF Suits, Clip
<1>5. PICK r : r = SetDuration(i, dur, ripple)
  OBVIOUS
<1>6. Sound(r) /\ Present(r) = Present(doc)
  <2>1. CASE KindOf[c.media] # "text"
    BY <1>2, <1>5, <2>1 DEF SetDuration
  <2>2. CASE KindOf[c.media] = "text"
    <3>1. PICK d, delta : /\ delta = dur - c.dur
                          /\ d = IF ripple THEN Rippled(doc, c.track, c.start, delta, i) ELSE doc
      OBVIOUS
    <3>2. PICK k : k = [c EXCEPT !.dur = dur, !.in = 0, !.out = dur]
      OBVIOUS
    <3>3. r = SetClip(d, i, k)
      BY <1>2, <1>5, <2>2, <3>1, <3>2 DEF SetDuration, Resized
    <3>4. dur # c.dur => RoomFor(i, dur, ripple)
      BY <1>2 DEF SetTime
    <3>5. /\ Whole(d) /\ OthersApart(d, i) /\ Present(d) = Present(doc) /\ d.tracks = doc.tracks
          /\ ripple \/ dur <= c.dur => IsFree(d, c.track, c.start, dur, i)
      BY <1>2, <1>4, <3>1, RegappedFacts
    <3>6. Suits(d, k) /\ k.track = c.track /\ k.start = c.start /\ k.dur = dur
      BY <1>3, <1>4, <2>2, <3>2, <3>5 DEF Suits, Clip
    <3>7. IsFree(d, c.track, c.start, dur, i)
      <4>1. CASE ripple \/ dur <= c.dur
        BY <3>5, <4>1
      <4>2. CASE ~ripple /\ dur > c.dur
        BY <1>2, <1>4, <3>1, <3>4, <4>2 DEF RoomFor
      <4>3. QED
        BY <1>4, <4>1, <4>2
    <3>8. Sound(r)
      BY <3>3, <3>5, <3>6, <3>7, SetIsSound
    <3>9. k \in Clip /\ IsDoc(d)
      BY <3>5, <3>6 DEF Suits, Whole
    <3>10. QED
      BY <3>3, <3>5, <3>8, <3>9, SetClipFacts
  <2>3. QED
    BY <2>1, <2>2
<1>7. PICK e, delta, moved : /\ e = r.clips[i] /\ delta = -e.dur
                             /\ moved = (ripple /\ start # e.start) /\ moved \in BOOLEAN
  OBVIOUS
<1>8. Suits(r, e)
  BY <1>6, <1>7, WholeMeansSuits DEF Sound
<1>9. e.dur \in Nat /\ delta = 0 - e.dur
  BY <1>7, <1>8 DEF Suits, Clip
<1>10. PICK d : d = IF moved THEN Rippled(r, e.track, e.start, delta, i) ELSE r
  OBVIOUS
<1>11. PICK k : k = [e EXCEPT !.start = start]
  OBVIOUS
<1>12. d = SetStart(r, i, start, ripple)
  BY <1>7, <1>10 DEF SetStart
<1>13. doc' = SetClip(d, i, k) /\ (start # e.start => IsFree(d, e.track, start, e.dur, i))
  BY <1>5, <1>7, <1>11, <1>12 DEF SetTime, Edited
<1>14. Whole(d) /\ OthersApart(d, i) /\ Present(d) = Present(r) /\ d.tracks = r.tracks
  <2>1. CASE moved
    BY <1>6, <1>7, <1>9, <1>10, <2>1, RegappedFacts
  <2>2. CASE ~moved
    BY <1>6, <1>7, <1>9, <1>10, <2>2, RegappedFacts
  <2>3. QED
    BY <1>7, <2>1, <2>2
<1>15. Suits(d, k) /\ k.track = e.track /\ k.start = start /\ k.dur = e.dur
  BY <1>1, <1>8, <1>11, <1>14 DEF Suits, Clip
<1>16. ASSUME start = e.start
       PROVE  IsFree(d, e.track, start, e.dur, i)
  <2>1. d = r
    BY <1>7, <1>10, <1>16
  <2>2. e.dur <= e.dur
    BY <1>9
  <2>3. QED
    BY <1>6, <1>7, <1>9, <1>16, <2>1, <2>2, RegappedFacts
<1>17. QED
  BY <1>6, <1>13, <1>14, <1>15, <1>16, SetIsSound

\* The two pieces of clip c, n of it in front.
Pieces(c, n, front, back) ==
  /\ front.track = c.track /\ front.media = c.media /\ front.start = c.start /\ front.dur = n
  /\ back.track = c.track /\ back.media = c.media /\ back.start = c.start + n /\ back.dur = c.dur - n
  /\ front.trans = 0 /\ back.trans = c.trans
  /\ KindOf[c.media] # "text" => front.in = c.in /\ back.in = c.in + n

LEMMA SplitFacts ==
  ASSUME Sound(doc), NEW i \in Present(doc), NEW at \in Times, Split(i, at)
  PROVE  \E j \in ClipIds \ Present(doc), n \in Nat, front \in Clip, back \in Clip :
           /\ doc' = AddClip(SetClip(doc, i, front), j, back)
           /\ Suits(doc, front) /\ Suits(doc, back)
           /\ n > 0 /\ n < doc.clips[i].dur /\ Pieces(doc.clips[i], n, front, back)
<1>1. IsDoc(doc) /\ Whole(doc) /\ at \in Nat
  BY TimelineAssumption DEF Sound, Whole, Times
<1>2. PICK c, n : c = doc.clips[i] /\ n = at - c.start
  OBVIOUS
<1>3. Suits(doc, c)
  BY <1>1, <1>2, WholeMeansSuits
<1>4. /\ c \in Clip /\ c.start \in Nat /\ c.dur \in Nat /\ c.in \in Nat /\ c.out \in Nat
      /\ KindOf[c.media] # "text" => c.out - c.in = c.dur
  BY <1>3 DEF Suits, Clip
<1>5. c.start < at /\ at < c.start + c.dur
  BY <1>2 DEF Split, EndOf
<1>6. n \in Nat /\ n > 0 /\ n < c.dur /\ at = c.start + n /\ c.dur - n \in Nat /\ c.dur - n > 0
  BY <1>1, <1>2, <1>4, <1>5
<1>7. PICK fo, bi, bo : /\ fo = IF KindOf[c.media] = "text" THEN n ELSE c.in + n
                        /\ bi = IF KindOf[c.media] = "text" THEN 0 ELSE c.in + n
                        /\ bo = IF KindOf[c.media] = "text" THEN c.dur - n ELSE c.out
  OBVIOUS
<1>8. fo \in Nat /\ bi \in Nat /\ bo \in Nat
      /\ (KindOf[c.media] # "text" => fo - c.in = n /\ bo - bi = c.dur - n)
  BY <1>4, <1>6, <1>7
<1>9. PICK front : front = [c EXCEPT !.dur = n, !.trans = 0, !.out = fo]
  OBVIOUS
<1>10. PICK back : back = [c EXCEPT !.start = at, !.dur = @ - n, !.in = bi, !.out = bo]
  OBVIOUS
<1>11. PICK j \in ClipIds : j \notin Present(doc) /\ doc' = AddClip(SetClip(doc, i, front), j, back)
  <2>1. CASE KindOf[c.media] = "text"
    BY <1>2, <1>7, <1>9, <1>10, <2>1 DEF Split, Edited, NewId
  <2>2. CASE KindOf[c.media] # "text"
    BY <1>2, <1>7, <1>9, <1>10, <2>2 DEF Split, Edited, NewId
  <2>3. QED
    BY <2>1, <2>2
<1>12. front \in Clip /\ back \in Clip
  <2>1. front \in Clip
    <3>1. n \in Nat \ {0} /\ 0 \in Nat
      BY <1>6
    <3>2. QED
      BY <1>4, <1>8, <1>9, <3>1 DEF Clip
  <2>2. PICK m : m = c.dur - n
    OBVIOUS
  <2>3. m \in Nat \ {0}
    BY <1>6, <2>2
  <2>4. back = [c EXCEPT !.start = at, !.dur = m, !.in = bi, !.out = bo]
    BY <1>4, <1>10, <2>2 DEF Clip
  <2>5. back \in Clip
    BY <1>1, <1>4, <1>8, <2>3, <2>4 DEF Clip
  <2>6. QED
    BY <2>1, <2>5
<1>13. /\ front.track = c.track /\ front.media = c.media /\ front.start = c.start /\ front.dur = n
       /\ front.in = c.in /\ front.out = fo /\ front.trans = 0
       /\ back.track = c.track /\ back.media = c.media /\ back.start = at /\ back.dur = c.dur - n
       /\ back.in = bi /\ back.out = bo /\ back.trans = c.trans
  BY <1>4, <1>9, <1>10 DEF Clip
<1>14. Suits(doc, front) /\ Suits(doc, back)
  BY <1>3, <1>8, <1>12, <1>13 DEF Suits
<1>15. Pieces(c, n, front, back)
  BY <1>6, <1>7, <1>13 DEF Pieces
<1>16. QED
  BY <1>2, <1>6, <1>11, <1>12, <1>14, <1>15

LEMMA SplitIsSound ==
  ASSUME Sound(doc), NEW i \in Present(doc), NEW at \in Times, Split(i, at)
  PROVE  Sound(doc')
<1>1. IsDoc(doc) /\ Whole(doc) /\ Disjoint(doc)
  BY DEF Sound, Whole
<1>2. PICK c : c = doc.clips[i]
  OBVIOUS
<1>3. PICK j \in ClipIds \ Present(doc), n \in Nat, front \in Clip, back \in Clip :
        /\ doc' = AddClip(SetClip(doc, i, front), j, back)
        /\ Suits(doc, front) /\ Suits(doc, back)
        /\ n > 0 /\ n < c.dur /\ Pieces(c, n, front, back)
  BY <1>2, SplitFacts
<1>4. PICK d : d = SetClip(doc, i, front)
  OBVIOUS
<1>5. c.dur \in Nat /\ c.start \in Nat
  BY <1>1, <1>2, ClipFields
<1>6. PICK delta, ripple : delta = n - c.dur /\ ripple = FALSE
  OBVIOUS
<1>7. OthersApart(doc, i) /\ IsFree(doc, c.track, c.start, n, i)
  <2>1. n <= c.dur
    BY <1>3, <1>5
  <2>2. ripple \in BOOLEAN
    BY <1>6
  <2>3. QED
    BY <1>2, <1>6, <2>1, <2>2, RegappedFacts
<1>8. Sound(d)
  BY <1>1, <1>3, <1>4, <1>7, SetIsSound DEF Pieces
<1>9. front \in Clip
  BY <1>3 DEF Suits
<1>10. /\ IsDoc(d) /\ Present(d) = Present(doc) /\ d.tracks = doc.tracks /\ d.clips[i] = front
       /\ \A k \in Present(doc) \ {i} : d.clips[k] = doc.clips[k]
  BY <1>1, <1>4, <1>9, SetClipFacts
<1>11. Suits(d, back)
  BY <1>3, <1>10 DEF Suits
<1>12. ASSUME NEW k \in TrackClips(d, back.track)
       PROVE  EndOf(d.clips[k]) <= back.start \/ back.start + back.dur <= d.clips[k].start
  <2>1. k \in Present(doc) /\ d.clips[k].track = c.track
    BY <1>3, <1>10, <1>12 DEF TrackClips, Pieces
  <2>2. CASE k = i
    BY <1>3, <1>5, <1>10, <2>2 DEF EndOf, Pieces
  <2>3. CASE k # i
    <3>1. d.clips[k] = doc.clips[k]
      BY <1>10, <2>1, <2>3
    <3>2. PICK s, l : s = doc.clips[k].start /\ l = doc.clips[k].dur
      OBVIOUS
    <3>3. s \in Nat /\ l \in Nat
      BY <1>1, <2>1, <3>2, ClipFields
    <3>4. s + l <= c.start \/ c.start + c.dur <= s
      BY <1>1, <1>2, <2>1, <2>3, <3>1, <3>2 DEF Disjoint, EndOf
    <3>5. s + l <= c.start + n \/ (c.start + n) + (c.dur - n) <= s
      BY <1>3, <1>5, <3>3, <3>4
    <3>6. QED
      BY <1>3, <3>1, <3>2, <3>5 DEF EndOf, Pieces
  <2>4. QED
    BY <2>2, <2>3
<1>13. j \in ClipIds \ Present(d)
  BY <1>10
<1>14. QED
  BY <1>3, <1>4, <1>8, <1>11, <1>12, <1>13, AddIsSound

\* An edit that leaves every clip where it is.
LEMMA JoinedIsSound ==
  ASSUME Sound(doc), NEW i \in Present(doc), NEW n \in Nat, AddTransition(i, n)
  PROVE  Sound(doc')
<1>1. IsDoc(doc) /\ Whole(doc)
  BY DEF Sound, Whole
<1>2. PICK c, k : c = doc.clips[i] /\ k = [c EXCEPT !.trans = n]
  OBVIOUS
<1>3. Suits(doc, c)
  BY <1>1, <1>2, WholeMeansSuits
<1>4. Suits(doc, k) /\ k.track = c.track /\ k.start = c.start /\ k.dur = c.dur
  BY <1>2, <1>3 DEF Suits, Clip
<1>5. c.dur \in Nat /\ c.dur <= c.dur
  BY <1>3 DEF Suits, Clip
<1>6. PICK delta, ripple : delta = c.dur - c.dur /\ ripple = FALSE
  OBVIOUS
<1>7. ripple \in BOOLEAN
  BY <1>6
<1>8. OthersApart(doc, i) /\ IsFree(doc, c.track, c.start, c.dur, i)
  BY <1>2, <1>5, <1>6, <1>7, RegappedFacts
<1>9. doc' = SetClip(doc, i, k)
  BY <1>2 DEF AddTransition, Edited
<1>10. QED
  BY <1>1, <1>4, <1>8, <1>9, SetIsSound

\* Tracks are added, or one without clips is removed.
LEMMA RetrackedIsSound ==
  ASSUME Sound(doc), NEW T, T \subseteq Tracks, \A i \in Present(doc) : doc.clips[i].track \in T,
         doc' = WithTracks(doc, T)
  PROVE  Sound(doc')
<1>1. IsDoc(doc) /\ Whole(doc) /\ Disjoint(doc)
  BY DEF Sound, Whole
<1>2. PICK U, f : doc = [tracks |-> U, clips |-> f]
  BY <1>1 DEF IsDoc
<1>3. PICK r : r = WithTracks(doc, T)
  OBVIOUS
<1>4. r = [tracks |-> T, clips |-> f]
  BY <1>2, <1>3 DEF WithTracks
<1>5. r.tracks = T /\ r.clips = doc.clips
  BY <1>2, <1>4
<1>6. Present(r) = Present(doc)
  BY <1>5 DEF Present
<1>7. IsDoc(r)
  BY <1>1, <1>4, <1>5, <1>6 DEF IsDoc
<1>8. Whole(r)
  BY <1>1, <1>5, <1>6, <1>7 DEF Whole, OnTracks, RangesMatch
<1>9. Disjoint(r)
  BY <1>1, <1>5, <1>6 DEF Disjoint
<1>10. QED
  BY <1>3, <1>8, <1>9 DEF Sound

\* The normalisation of a tidy document changes no place, no length and no transition.
Normalises(r, d) ==
  /\ IsDoc(r) /\ Present(r) = Present(d) /\ r.tracks = d.tracks
  /\ \A j \in Present(d) :
       /\ r.clips[j].track = d.clips[j].track /\ r.clips[j].media = d.clips[j].media
       /\ r.clips[j].start = d.clips[j].start /\ r.clips[j].dur = d.clips[j].dur
       /\ r.clips[j].trans = d.clips[j].trans

LEMMA NormalFacts ==
  ASSUME NEW d, Tidy(d)
  PROVE  Normalises(Normal(d), d) /\ Tidy(Normal(d))
<1>1. IsDoc(d) /\ Whole(d) /\ Disjoint(d) /\ ~ShortPiece(d)
  BY DEF Tidy, Whole
<1>2. ASSUME NEW j \in Present(d)
      PROVE  LET c == d.clips[j]
                 n == NormalClip(c)
             IN  /\ Suits(d, n) /\ n.track = c.track /\ n.media = c.media /\ n.start = c.start
                 /\ n.dur = c.dur /\ n.trans = c.trans
  <2>1. PICK c, n : c = d.clips[j] /\ n = NormalClip(c)
    OBVIOUS
  <2>2. Suits(d, c)
    BY <1>1, <2>1, WholeMeansSuits
  <2>3. /\ c.dur \in Nat /\ c.in \in Nat /\ c.out \in Nat /\ MinDuration \in Nat
        /\ KindOf[c.media] # "text" => c.dur >= MinDuration
    BY <1>1, <2>1, <2>2, TimelineAssumption DEF Suits, Clip, ShortPiece
  <2>4. CASE KindOf[c.media] = "text"
    <3>1. n = [c EXCEPT !.in = 0, !.out = c.dur]
      BY <2>1, <2>4 DEF NormalClip
    <3>2. c \in Clip
      BY <2>2 DEF Suits
    <3>3. /\ n \in Clip /\ n.track = c.track /\ n.media = c.media /\ n.start = c.start
          /\ n.dur = c.dur /\ n.trans = c.trans
      BY <2>3, <3>1, <3>2 DEF Clip
    <3>4. QED
      BY <2>1, <2>2, <2>4, <3>3 DEF Suits
  <2>5. CASE KindOf[c.media] # "text"
    <3>1. PICK dur, o : /\ dur = IF c.dur < MinDuration THEN MinDuration ELSE c.dur
                        /\ o = IF c.in = 0 /\ c.out < dur THEN dur ELSE c.out
      OBVIOUS
    <3>2. dur = c.dur /\ c.out - c.in = c.dur
      BY <2>2, <2>3, <2>5, <3>1 DEF Suits
    <3>3. o = c.out
      BY <2>3, <3>1, <3>2
    <3>4. n = [c EXCEPT !.dur = dur, !.out = o]
      BY <2>1, <2>5, <3>1 DEF NormalClip
    <3>5. n = c
      BY <2>2, <3>2, <3>3, <3>4 DEF Suits, Clip
    <3>6. QED
      BY <2>1, <2>2, <3>5
  <2>6. QED
    BY <2>4, <2>5
<1>3. PICK f : f = [j \in Present(d) |-> NormalClip(d.clips[j])]
  OBVIOUS
<1>4. \A j \in Present(d) : NormalClip(d.clips[j]) \in Clip
  BY <1>2 DEF Suits
<1>5. f \in [Present(d) -> Clip]
  BY <1>3, <1>4
<1>6. PICK r : r = Normal(d)
  OBVIOUS
<1>7. r = WithClips(d, f)
  BY <1>3, <1>6 DEF Normal
<1>8. Present(d) \subseteq ClipIds
  BY <1>1 DEF IsDoc
<1>9. IsDoc(r) /\ Present(r) = Present(d) /\ r.tracks = d.tracks /\ r.clips = f
  BY <1>1, <1>5, <1>7, <1>8, ClipsMakeADoc
<1>10. \A j \in Present(d) : r.clips[j] = NormalClip(d.clips[j])
  BY <1>3, <1>9
<1>11. Normalises(r, d)
  BY <1>2, <1>9, <1>10 DEF Normalises
<1>12. \A j \in Present(r) : Suits(r, r.clips[j])
  BY <1>2, <1>9, <1>10 DEF Suits
<1>13. Whole(r)
  BY <1>9, <1>12, WholeMeansSuits
<1>14. Disjoint(r)
  BY <1>1, <1>11 DEF Normalises, Disjoint, EndOf
<1>15. ~ShortPiece(r)
  BY <1>1, <1>11 DEF Normalises, ShortPiece
<1>16. QED
  BY <1>6, <1>11, <1>13, <1>14, <1>15 DEF Tidy

Edit == Insert \/ Retime \/ EditClip \/ EditTracks \/ Annotate

LEMMA EditsAreEdited ==
  ASSUME Edit
  PROVE  odd = {} /\ (odd' = {} => ~ShortPiece(doc'))
<1>1. SUFFICES \E d : Edited(d)
  BY DEF Edited
<1>2. CASE Insert
  <2>1. PICK media \in Media, t \in Tracks : \E range \in InsertRanges(media) :
          \/ InsertAppend(media, t, range)
          \/ \E start \in Times, ripple \in BOOLEAN : InsertAtTime(media, t, range, start, ripple)
          \/ \E next \in ClipIds : InsertAtIndex(media, t, range, next)
    BY <1>2 DEF Insert
  <2>2. QED
    BY <2>1 DEF InsertAppend, InsertAtTime, InsertAtIndex
<1>3. CASE Retime
  <2>1. PICK i \in Present(doc), ripple \in BOOLEAN :
          \/ \E range \in Ranges(doc.clips[i].media) : Trim(i, range, ripple)
          \/ \E start \in Times, dur \in TextDurations \union {doc.clips[i].dur} :
               SetTime(i, start, dur, ripple)
    BY <1>3 DEF Retime
  <2>2. QED
    BY <2>1 DEF Trim, SetTime
<1>4. CASE EditClip
  <2>1. PICK i \in Present(doc) :
          \/ \E ripple \in BOOLEAN : Delete(i, ripple)
          \/ \E t \in Tracks, start \in Times, ripple \in BOOLEAN : Move(i, t, start, ripple)
          \/ \E at \in Times : Split(i, at)
          \/ \E n \in 0 .. 1 : AddTransition(i, n)
    BY <1>4 DEF EditClip
  <2>2. QED
    BY <2>1 DEF Delete, Move, Split, AddTransition
<1>5. CASE EditTracks
  BY <1>5 DEF EditTracks, AddTrack, RemoveTrack
<1>6. CASE Annotate
  BY <1>6 DEF Annotate
<1>7. QED
  BY <1>2, <1>3, <1>4, <1>5, <1>6 DEF Edit

LEMMA LegacyIsOdd ==
  ASSUME Legacy
  PROVE  odd' # {}
<1>1. \A d : EditedByLegacyOp(d) => odd' # {}
  BY DEF EditedByLegacyOp
<1>2. PICK media \in LegacyMedia : \E range \in Ranges(media) :
        \/ \E t \in Seed, start \in LegacyStarts : LegacyInsert(media, t, range, start)
        \/ \E i \in ClipIds : LegacyReplace(i, media, range)
  BY DEF Legacy
<1>3. PICK range \in Ranges(media) :
        \/ \E t \in Seed, start \in LegacyStarts : LegacyInsert(media, t, range, start)
        \/ \E i \in ClipIds : LegacyReplace(i, media, range)
  BY <1>2
<1>4. QED
  BY <1>1, <1>3 DEF LegacyInsert, LegacyReplace

LEMMA EditsStaySound ==
  ASSUME Sound(doc), Edit
  PROVE  Sound(doc')
<1>1. CASE Insert
  BY <1>1, InsertedIsSound DEF Insert, Inserting
<1>2. CASE Retime
  BY <1>2, TrimmedIsSound, RetimedIsSound DEF Retime
<1>3. CASE EditClip
  <2>1. PICK i \in Present(doc) :
          \/ \E ripple \in BOOLEAN : Delete(i, ripple)
          \/ \E t \in Tracks, start \in Times, ripple \in BOOLEAN : Move(i, t, start, ripple)
          \/ \E at \in Times : Split(i, at)
          \/ \E n \in 0 .. 1 : AddTransition(i, n)
    BY <1>3 DEF EditClip
  <2>2. CASE \E ripple \in BOOLEAN : Delete(i, ripple)
    BY <2>2, DeletedIsSound
  <2>3. CASE \E t \in Tracks, start \in Times, ripple \in BOOLEAN : Move(i, t, start, ripple)
    BY <2>3, MovedIsSound
  <2>4. CASE \E at \in Times : Split(i, at)
    BY <2>4, SplitIsSound
  <2>5. CASE \E n \in 0 .. 1 : AddTransition(i, n)
    <3>1. PICK n \in 0 .. 1 : AddTransition(i, n)
      BY <2>5
    <3>2. n \in Nat
      OBVIOUS
    <3>3. QED
      BY <3>1, <3>2, JoinedIsSound
  <2>6. QED
    BY <2>1, <2>2, <2>3, <2>4, <2>5
<1>4. CASE EditTracks
  <2>1. doc.tracks \subseteq Tracks /\ \A i \in Present(doc) : doc.clips[i].track \in doc.tracks
    BY DEF Sound, Whole, IsDoc, OnTracks
  <2>2. PICK t \in Tracks : AddTrack(t) \/ RemoveTrack(t)
    BY <1>4 DEF EditTracks
  <2>3. CASE AddTrack(t)
    <3>1. doc' = WithTracks(doc, doc.tracks \union {t})
      BY <2>3 DEF AddTrack, Edited
    <3>2. doc.tracks \union {t} \subseteq Tracks
          /\ \A i \in Present(doc) : doc.clips[i].track \in doc.tracks \union {t}
      BY <2>1
    <3>3. QED
      BY <3>1, <3>2, RetrackedIsSound
  <2>4. CASE RemoveTrack(t)
    <3>1. doc' = WithTracks(doc, doc.tracks \ {t}) /\ TrackClips(doc, t) = {}
      BY <2>4 DEF RemoveTrack, Edited
    <3>2. doc.tracks \ {t} \subseteq Tracks
          /\ \A i \in Present(doc) : doc.clips[i].track \in doc.tracks \ {t}
      BY <2>1, <3>1 DEF TrackClips
    <3>3. QED
      BY <3>1, <3>2, RetrackedIsSound
  <2>5. QED
    BY <2>2, <2>3, <2>4
<1>5. CASE Annotate
  BY <1>5 DEF Annotate, Edited
<1>6. QED
  BY <1>1, <1>2, <1>3, <1>4, <1>5 DEF Edit

-----------------------------------------------------------------------------
(* The invariant.                                                          *)

LEMMA TimelineInitInv == TimelineInit => TimelineInv
<1> SUFFICES ASSUME TimelineInit
             PROVE  Tidy(doc)
  BY DEF TimelineInv
<1>1. PICK f : f = <<>>
  OBVIOUS
<1>2. f \in [{} -> Clip] /\ DOMAIN f = {}
  BY <1>1
<1>3. doc = [tracks |-> Seed, clips |-> f]
  BY <1>1 DEF TimelineInit
<1>4. doc.tracks = Seed /\ doc.clips = f /\ Present(doc) = {}
  BY <1>2, <1>3 DEF Present
<1>5. IsDoc(doc)
  BY <1>2, <1>3, <1>4, TimelineAssumption DEF IsDoc
<1>6. QED
  BY <1>4, <1>5 DEF Tidy, Whole, OnTracks, RangesMatch, Disjoint, ShortPiece

LEMMA TimelineStep == TimelineInv /\ [TimelineNext]_timelineVars => TimelineInv'
<1> SUFFICES ASSUME TimelineInv, [TimelineNext]_timelineVars, odd' = {}
             PROVE  Tidy(doc')
  BY DEF TimelineInv
<1>1. CASE Edit
  <2>1. odd = {} /\ ~ShortPiece(doc')
    BY <1>1, EditsAreEdited
  <2>2. Sound(doc')
    BY <1>1, <2>1, EditsStaySound DEF TimelineInv, Tidy, Sound
  <2>3. QED
    BY <2>1, <2>2 DEF Tidy, Sound
<1>2. CASE Legacy
  BY <1>2, LegacyIsOdd
<1>3. CASE EndBatch
  BY <1>3, NormalFacts DEF EndBatch, TimelineInv
<1>4. CASE UNCHANGED timelineVars
  BY <1>4 DEF timelineVars, TimelineInv
<1>5. QED
  BY <1>1, <1>2, <1>3, <1>4 DEF TimelineNext, Edit

LEMMA TimelineAlways == TimelineSpec => []TimelineInv
<1>1. QED
  BY TimelineInitInv, TimelineStep, PTL DEF TimelineSpec

\* Until a legacy op or too short a piece comes in, the project passes the validation of the
\* whole after each single op of lumerai/patches.py, if the clips it inserts are as long as their
\* source ranges: _ripple_shift, _ensure_no_overlap and the ranges the ops set agree with
\* validate_project.
THEOREM EditsKeepTheProjectValid == TimelineSpec => []EditsFitTogether
<1>1. TimelineInv => EditsFitTogether
  BY DEF TimelineInv, EditsFitTogether, Tidy, Whole, Valid
<1>2. QED
  BY <1>1, TimelineAlways, PTL

-----------------------------------------------------------------------------
(* What is seen and heard.                                                 *)

At(c, k) == <<c.track, c.start + k, c.media, IF KindOf[c.media] = "text" THEN 0 ELSE c.in + k>>
Span(c) == {At(c, k) : k \in 0 .. c.dur - 1}

LEMMA ShownFacts ==
  ASSUME NEW d, NEW x
  PROVE  x \in Shown(d) <=> \E i \in Present(d) : x \in Span(d.clips[i])
BY DEF Shown, Span, At

LEMMA PiecesShowTheSame ==
  ASSUME NEW c \in Clip, NEW n \in Nat, n > 0, n < c.dur, NEW front, NEW back,
         Pieces(c, n, front, back)
  PROVE  Span(c) = Span(front) \union Span(back)
<1>1. c.start \in Nat /\ c.dur \in Nat /\ c.in \in Nat
  BY DEF Clip
<1>2. \A k \in Nat : At(front, k) = At(c, k)
  BY DEF Pieces, At
<1>3. ASSUME NEW k \in Nat
      PROVE  At(back, k) = At(c, n + k)
  <2>1. (c.start + n) + k = c.start + (n + k) /\ (c.in + n) + k = c.in + (n + k)
    BY <1>1
  <2>2. QED
    BY <2>1 DEF Pieces, At
<1>4. front.dur = n /\ back.dur = c.dur - n
  BY DEF Pieces
<1>5. ASSUME NEW x \in Span(c)
      PROVE  x \in Span(front) \union Span(back)
  <2>1. PICK k \in 0 .. c.dur - 1 : x = At(c, k)
    BY DEF Span
  <2>2. CASE k < n
    <3>1. k \in Nat /\ k \in 0 .. front.dur - 1
      BY <1>1, <1>4, <2>2
    <3>2. QED
      BY <1>2, <2>1, <3>1 DEF Span
  <2>3. CASE k >= n
    <3>1. PICK m : m = k - n
      OBVIOUS
    <3>2. m \in Nat /\ m \in 0 .. back.dur - 1 /\ n + m = k
      BY <1>1, <1>4, <2>3, <3>1
    <3>3. x = At(back, m)
      BY <1>3, <2>1, <3>2
    <3>4. QED
      BY <3>2, <3>3 DEF Span
  <2>4. QED
    BY <1>1, <2>2, <2>3
<1>6. ASSUME NEW x \in Span(front)
      PROVE  x \in Span(c)
  <2>1. PICK k \in 0 .. front.dur - 1 : x = At(front, k)
    BY DEF Span
  <2>2. k \in Nat /\ k \in 0 .. c.dur - 1
    BY <1>1, <1>4
  <2>3. QED
    BY <1>2, <2>1, <2>2 DEF Span
<1>7. ASSUME NEW x \in Span(back)
      PROVE  x \in Span(c)
  <2>1. PICK k \in 0 .. back.dur - 1 : x = At(back, k)
    BY DEF Span
  <2>2. PICK m : m = n + k
    OBVIOUS
  <2>3. k \in Nat /\ m \in 0 .. c.dur - 1
    BY <1>1, <1>4, <2>2
  <2>4. x = At(c, m)
    BY <1>3, <2>1, <2>2, <2>3
  <2>5. QED
    BY <2>3, <2>4 DEF Span
<1>8. QED
  BY <1>5, <1>6, <1>7

LEMMA SplitKeepsWhatIsShown ==
  ASSUME Sound(doc), NEW i \in Present(doc), NEW at \in Times, Split(i, at)
  PROVE  Shown(doc') = Shown(doc)
<1>1. IsDoc(doc)
  BY DEF Sound, Whole
<1>2. PICK c : c = doc.clips[i]
  OBVIOUS
<1>3. PICK j \in ClipIds \ Present(doc), n \in Nat, front \in Clip, back \in Clip :
        /\ doc' = AddClip(SetClip(doc, i, front), j, back)
        /\ n > 0 /\ n < c.dur /\ Pieces(c, n, front, back)
  BY <1>2, SplitFacts
<1>4. PICK d : d = SetClip(doc, i, front)
  OBVIOUS
<1>5. /\ IsDoc(d) /\ Present(d) = Present(doc) /\ d.clips[i] = front
      /\ \A k \in Present(doc) \ {i} : d.clips[k] = doc.clips[k]
  BY <1>1, <1>4, SetClipFacts
<1>6. PICK r : r = AddClip(d, j, back)
  OBVIOUS
<1>7. /\ Present(r) = Present(doc) \union {j} /\ r.clips[j] = back /\ r.clips[i] = front
      /\ \A k \in Present(doc) \ {i} : r.clips[k] = doc.clips[k]
  BY <1>5, <1>6, AddClipFacts
<1>8. c \in Clip
  BY <1>1, <1>2, ClipFields
<1>9. Span(c) = Span(front) \union Span(back)
  BY <1>3, <1>8, PiecesShowTheSame
<1>10. ASSUME NEW x
       PROVE  x \in Shown(r) <=> x \in Shown(doc)
  <2>1. ASSUME x \in Shown(r)
        PROVE  x \in Shown(doc)
    <3>1. PICK k \in Present(r) : x \in Span(r.clips[k])
      BY <2>1, ShownFacts
    <3>2. CASE k \in Present(doc) \ {i}
      BY <1>7, <3>1, <3>2, ShownFacts
    <3>3. CASE k = i \/ k = j
      <4>1. x \in Span(c)
        BY <1>7, <1>9, <3>1, <3>3
      <4>2. QED
        BY <1>2, <4>1, ShownFacts
    <3>4. QED
      BY <1>7, <3>2, <3>3
  <2>2. ASSUME x \in Shown(doc)
        PROVE  x \in Shown(r)
    <3>1. PICK k \in Present(doc) : x \in Span(doc.clips[k])
      BY <2>2, ShownFacts
    <3>2. CASE k # i
      BY <1>7, <3>1, <3>2, ShownFacts
    <3>3. CASE k = i
      <4>1. x \in Span(r.clips[i]) \/ x \in Span(r.clips[j])
        BY <1>2, <1>7, <1>9, <3>1, <3>3
      <4>2. QED
        BY <1>7, <4>1, ShownFacts
    <3>4. QED
      BY <3>2, <3>3
  <2>3. QED
    BY <2>1, <2>2
<1>11. QED
  BY <1>3, <1>4, <1>6, <1>10

\* split_clip keeps what is where: at each time of the track its pieces stand at the position
\* of the source at which the clip stood.
THEOREM SplitsDoNotShow == TimelineSpec => SplitShowsTheSame
<1>1. TimelineInv /\ [TimelineNext]_timelineVars =>
        [Present(doc') # Present(doc) /\ (\E i \in Present(doc), at \in Times : Split(i, at))
           => Shown(doc') = Shown(doc)]_timelineVars
  <2> SUFFICES ASSUME TimelineInv, NEW i \in Present(doc), NEW at \in Times, Split(i, at)
               PROVE  Shown(doc') = Shown(doc)
    OBVIOUS
  <2>1. odd = {}
    BY DEF Split, Edited
  <2>2. QED
    BY <2>1, SplitKeepsWhatIsShown DEF TimelineInv, Tidy, Sound
<1>2. QED
  BY <1>1, TimelineAlways, PTL DEF SplitShowsTheSame, TimelineSpec

-----------------------------------------------------------------------------
(* Transitions.                                                            *)

\* Clip j of i's track starts where i ends.
Abuts(d, i, j) == d.clips[j].track = d.clips[i].track /\ d.clips[j].start = EndOf(d.clips[i])

\* Where clips do not overlap, the one that starts where i ends is the next.
LEMMA JoinedMeansFollowed ==
  ASSUME NEW d, Sound(d), NEW i \in Present(d)
  PROVE  ButtJoined(d, i) <=> \E j \in Present(d) : Abuts(d, i, j)
<1>1. IsDoc(d) /\ Disjoint(d)
  BY DEF Sound, Whole
<1>2. ASSUME ButtJoined(d, i)
      PROVE  \E j \in Present(d) : Abuts(d, i, j)
  BY <1>2 DEF ButtJoined, IsNext, Successors, TrackClips, Abuts
<1>3. ASSUME NEW j \in Present(d), Abuts(d, i, j)
      PROVE  ButtJoined(d, i)
  <2>1. d.clips[j].start > d.clips[i].start
    BY <1>1, <1>3, ClipFields DEF Abuts
  <2>2. j \in Successors(d, i)
    BY <1>3, <2>1 DEF Successors, TrackClips, Before, Abuts
  <2>3. ASSUME NEW k \in Successors(d, i), k # j
        PROVE  Before(d, j, k)
    <3>1. k \in Present(d) /\ d.clips[k].track = d.clips[i].track /\ Before(d, i, k)
      BY <2>3 DEF Successors, TrackClips
    <3>2. PICK si, di, sj, dj, sk, dk : /\ si = d.clips[i].start /\ di = d.clips[i].dur
                                        /\ sj = d.clips[j].start /\ dj = d.clips[j].dur
                                        /\ sk = d.clips[k].start /\ dk = d.clips[k].dur
      OBVIOUS
    <3>3. /\ si \in Nat /\ sj \in Nat /\ sk \in Nat /\ di \in Nat /\ dj \in Nat /\ dk \in Nat
          /\ di > 0 /\ dj > 0 /\ dk > 0
      BY <1>1, <3>1, <3>2, ClipFields
    <3>4. si <= sk /\ sj = si + di
      BY <1>3, <3>1, <3>2, <3>3 DEF Before, Abuts, EndOf
    <3>5. k # i
      <4>1. i \in Int
        BY <1>1, TimelineAssumption DEF IsDoc, ClipIds
      <4>2. QED
        BY <3>1, <3>2, <3>3, <4>1 DEF Before
    <3>6. si + di <= sk \/ sk + dk <= si
      BY <1>1, <3>1, <3>2, <3>5 DEF Disjoint, EndOf
    <3>7. sj + dj <= sk \/ sk + dk <= sj
      BY <1>1, <1>3, <2>3, <3>1, <3>2 DEF Disjoint, EndOf, Abuts
    <3>8. sj < sk
      BY <3>3, <3>4, <3>6, <3>7
    <3>9. QED
      BY <3>2, <3>8 DEF Before
  <2>4. QED
    BY <1>3, <2>2, <2>3 DEF ButtJoined, IsNext, Abuts
<1>4. QED
  BY <1>2, <1>3

LEMMA HonestMeansFollowed ==
  ASSUME NEW d, Sound(d)
  PROVE  Honest(d) <=> \A i \in Present(d) : d.clips[i].trans > 0 => \E j \in Present(d) : Abuts(d, i, j)
BY JoinedMeansFollowed DEF Honest

\* Track t has the same clips in the same places.
SameTrack(d, e, t) ==
  /\ TrackClips(d, t) = TrackClips(e, t)
  /\ \A i \in TrackClips(d, t) :
       d.clips[i].start = e.clips[i].start /\ EndOf(d.clips[i]) = EndOf(e.clips[i])

LEMMA JoinsAreLocal ==
  ASSUME NEW d, NEW e, NEW t, SameTrack(d, e, t), NEW i \in TrackClips(d, t), ButtJoined(d, i)
  PROVE  ButtJoined(e, i)
<1>1. \A k \in TrackClips(d, t) : k \in TrackClips(e, t) /\ k \in Present(e)
        /\ d.clips[k].track = t /\ e.clips[k].track = t
  BY DEF SameTrack, TrackClips
<1>2. \A j, k \in TrackClips(d, t) : Before(d, j, k) <=> Before(e, j, k)
  BY DEF SameTrack, Before
<1>3. Successors(d, i) = {j \in TrackClips(d, t) : Before(d, i, j)}
      /\ Successors(e, i) = {j \in TrackClips(d, t) : Before(e, i, j)}
  BY <1>1 DEF Successors, SameTrack
<1>4. Successors(d, i) = Successors(e, i) /\ Successors(d, i) \subseteq TrackClips(d, t)
  BY <1>2, <1>3
<1>5. PICK j \in Present(d) : IsNext(d, i, j) /\ EndOf(d.clips[i]) = d.clips[j].start
  BY DEF ButtJoined
<1>6. j \in TrackClips(d, t) /\ IsNext(e, i, j)
  BY <1>2, <1>4, <1>5 DEF IsNext
<1>7. EndOf(e.clips[i]) = e.clips[j].start
  BY <1>5, <1>6 DEF SameTrack
<1>8. QED
  BY <1>1, <1>6, <1>7 DEF ButtJoined

\* Once the stale transitions of tracks ts are cleared, the document is honest if the other
\* tracks are.
LEMMA ClearedIsHonest ==
  ASSUME NEW d, IsDoc(d), NEW ts,
         \A i \in Present(d) : d.clips[i].trans > 0 /\ d.clips[i].track \notin ts => ButtJoined(d, i)
  PROVE  Honest(Cleared(d, ts))
<1>1. PICK r : r = Cleared(d, ts)
  OBVIOUS
<1>2. Clears(r, d, ts)
  BY <1>1, ClearedFacts
<1>3. \A t : SameTrack(d, r, t)
  BY <1>2 DEF Clears, SameTrack, TrackClips, Alike, EndOf
<1>4. ASSUME NEW i \in Present(r), r.clips[i].trans > 0
      PROVE  ButtJoined(r, i)
  <2>1. i \in Present(d) /\ i \in TrackClips(d, d.clips[i].track)
    BY <1>2 DEF Clears, TrackClips
  <2>2. ButtJoined(d, i)
    BY <1>2, <1>4, <2>1 DEF Clears
  <2>3. QED
    BY <1>3, <2>1, <2>2, JoinsAreLocal
<1>5. QED
  BY <1>1, <1>4 DEF Honest

\* Every transition of d is one of e, on a track with the same clips in the same places.
LEMMA HonestyIsKept ==
  ASSUME NEW d, NEW e, Honest(d),
         \A i \in Present(e) : e.clips[i].trans > 0 =>
           /\ i \in Present(d) /\ d.clips[i].trans > 0 /\ d.clips[i].track = e.clips[i].track
           /\ SameTrack(d, e, e.clips[i].track)
  PROVE  Honest(e)
BY JoinsAreLocal DEF Honest, TrackClips

LEMMA InsertsStayHonest ==
  ASSUME Sound(doc), Sound(doc'), Honest(doc),
         NEW media \in Media, NEW t \in Tracks, NEW range \in InsertRanges(media), Inserting(media, t, range)
  PROVE  Honest(doc')
<1>1. PICK start \in Nat, n \in Nat, new \in ClipIds \ Present(doc), c \in Clip :
        /\ c.track = t /\ c.start = start /\ c.dur = n /\ c.trans = 0
        /\ \E d \in Opened(doc, t, start, n) : IsFree(d, t, start, n, 0) /\ doc' = AddClip(d, new, c)
  BY InsertFacts
<1>2. PICK d \in Opened(doc, t, start, n) : IsFree(d, t, start, n, 0) /\ doc' = AddClip(d, new, c)
  BY <1>1
<1>3. IsDoc(d) /\ Present(d) = Present(doc) /\ 0 \notin Present(doc) /\ IsDoc(doc)
      /\ (d = doc \/ Shifts(d, doc, t, start, n, 0))
  BY OpenedFacts DEF Sound, Whole
<1>4. PICK r : r = doc'
  OBVIOUS
<1>5. /\ Present(r) = Present(doc) \union {new} /\ r.clips[new] = c
      /\ \A k \in Present(doc) : r.clips[k] = d.clips[k]
  BY <1>2, <1>3, <1>4, AddClipFacts
<1>6. ASSUME NEW i \in Present(doc), doc.clips[i].trans > 0
      PROVE  \E j \in Present(r) : Abuts(r, i, j)
  <2>1. PICK j \in Present(doc) : Abuts(doc, i, j)
    BY <1>6, HonestMeansFollowed
  <2>2. CASE d = doc
    BY <1>5, <2>1, <2>2 DEF Abuts
  <2>3. CASE Shifts(d, doc, t, start, n, 0)
    <3>1. PICK si, l, sj, ri, rj : /\ si = doc.clips[i].start /\ l = doc.clips[i].dur /\ sj = doc.clips[j].start
                                   /\ ri = r.clips[i].start /\ rj = r.clips[j].start
      OBVIOUS
    <3>2. si \in Nat /\ l \in Nat /\ l > 0 /\ sj = si + l
      BY <1>3, <2>1, <3>1, ClipFields DEF Abuts, EndOf
    <3>3. /\ r.clips[i].track = doc.clips[i].track /\ r.clips[j].track = doc.clips[i].track
          /\ EndOf(r.clips[i]) = ri + l
      BY <1>5, <2>1, <2>3, <3>1 DEF Shifts, Alike, Abuts, EndOf
    <3>4. CASE doc.clips[i].track # t
      <4>1. ri = si /\ rj = sj
        BY <1>5, <2>1, <2>3, <3>1, <3>4 DEF Shifts, Abuts
      <4>2. QED
        BY <1>5, <3>1, <3>2, <3>3, <4>1 DEF Abuts
    <3>5. CASE doc.clips[i].track = t
      <4>1. i # 0 /\ j # 0 /\ doc.clips[j].track = t
        BY <1>3, <2>1, <3>5 DEF Abuts
      <4>2. /\ ri = IF si >= start THEN Max0(si + n) ELSE si
            /\ rj = IF sj >= start THEN Max0(sj + n) ELSE sj
        BY <1>5, <2>3, <3>1, <3>5, <4>1 DEF Shifts
      <4>3. CASE si >= start \/ sj < start
        <5>1. ri + l = rj
          BY <1>1, <3>2, <4>2, <4>3 DEF Max0
        <5>2. QED
          BY <1>5, <3>1, <3>3, <5>1 DEF Abuts
      <4>4. CASE si < start /\ sj >= start
        <5>1. ri + l <= start \/ start + n <= ri
          <6>1. i \in TrackClips(d, t) \ {0}
            BY <1>3, <1>5, <3>3, <3>5, <4>1 DEF TrackClips
          <6>2. EndOf(d.clips[i]) <= start \/ start + n <= d.clips[i].start
            BY <1>2, <6>1 DEF IsFree
          <6>3. QED
            BY <1>5, <3>1, <3>3, <6>2
        <5>2. ri + l = start
          BY <1>1, <3>2, <4>2, <4>4, <5>1
        <5>3. Abuts(r, i, new)
          BY <1>1, <1>5, <3>3, <3>5, <5>2 DEF Abuts
        <5>4. QED
          BY <1>5, <5>3
      <4>5. QED
        BY <1>1, <3>2, <4>3, <4>4
    <3>6. QED
      BY <3>4, <3>5
  <2>4. QED
    BY <1>3, <2>2, <2>3
<1>7. ASSUME NEW i \in Present(r), r.clips[i].trans > 0
      PROVE  \E j \in Present(r) : Abuts(r, i, j)
  <2>1. i # new
    BY <1>1, <1>5, <1>7
  <2>2. i \in Present(doc) /\ r.clips[i] = d.clips[i]
    BY <1>5, <2>1
  <2>3. doc.clips[i].trans > 0
    BY <1>3, <1>7, <2>2 DEF Shifts
  <2>4. QED
    BY <1>6, <2>2, <2>3
<1>8. QED
  BY <1>4, <1>7, HonestMeansFollowed

LEMMA DeletesStayHonest ==
  ASSUME Sound(doc), Honest(doc), NEW i \in Present(doc), NEW ripple \in BOOLEAN, Delete(i, ripple)
  PROVE  Honest(doc')
<1>1. IsDoc(doc) /\ Whole(doc)
  BY DEF Sound, Whole
<1>2. PICK t, th, delta : t = doc.clips[i].track /\ th = doc.clips[i].start /\ delta = -doc.clips[i].dur
  OBVIOUS
<1>3. th \in Nat /\ delta \in Int
  BY <1>1, <1>2, ClipFields
<1>4. PICK d : d = DropClip(doc, i)
  OBVIOUS
<1>5. /\ IsDoc(d) /\ Present(d) = Present(doc) \ {i}
      /\ \A j \in Present(d) : d.clips[j] = doc.clips[j]
  BY <1>1, <1>4, DropClipFacts
<1>6. PICK r : r = IF ripple THEN Rippled(d, t, th, delta, 0) ELSE d
  OBVIOUS
<1>7. doc' = Cleared(r, {t})
  BY <1>2, <1>4, <1>6 DEF Delete, Edited
<1>8. /\ IsDoc(r) /\ Present(r) = Present(doc) \ {i}
      /\ \A j \in Present(r) :
           /\ r.clips[j].track = doc.clips[j].track /\ r.clips[j].trans = doc.clips[j].trans
           /\ doc.clips[j].track # t =>
                r.clips[j].start = doc.clips[j].start /\ EndOf(r.clips[j]) = EndOf(doc.clips[j])
  <2>1. CASE ripple
    <3>1. Shifts(r, d, t, th, delta, 0)
      BY <1>3, <1>5, <1>6, <2>1, RippledFacts
    <3>2. QED
      BY <1>5, <3>1 DEF Shifts, Alike, EndOf
  <2>2. CASE ~ripple
    BY <1>5, <1>6, <2>2
  <2>3. QED
    BY <2>1, <2>2
<1>9. \A u : u # t => SameTrack(doc, r, u)
  BY <1>2, <1>8 DEF SameTrack, TrackClips
<1>10. ASSUME NEW j \in Present(r), r.clips[j].trans > 0 /\ r.clips[j].track \notin {t}
       PROVE  ButtJoined(r, j)
  <2>1. j \in Present(doc) /\ doc.clips[j].trans > 0 /\ doc.clips[j].track # t
    BY <1>8, <1>10
  <2>2. ButtJoined(doc, j) /\ j \in TrackClips(doc, doc.clips[j].track)
    BY <2>1 DEF Honest, TrackClips
  <2>3. PICK u : u = doc.clips[j].track
    OBVIOUS
  <2>4. SameTrack(doc, r, u) /\ j \in TrackClips(doc, u)
    BY <1>9, <2>1, <2>2, <2>3
  <2>5. QED
    BY <2>2, <2>4, JoinsAreLocal
<1>11. QED
  BY <1>7, <1>8, <1>10, ClearedIsHonest

LEMMA MovesStayHonest ==
  ASSUME Sound(doc), Honest(doc), NEW i \in Present(doc), NEW t \in Tracks, NEW start \in Times,
         NEW ripple \in BOOLEAN, Move(i, t, start, ripple)
  PROVE  Honest(doc')
<1>1. IsDoc(doc) /\ Whole(doc) /\ start \in Nat
  BY TimelineAssumption DEF Sound, Whole, Times
<1>2. PICK c, delta, moved : /\ c = doc.clips[i] /\ delta = -c.dur
                             /\ moved = (ripple /\ (t # c.track \/ start # c.start)) /\ moved \in BOOLEAN
  OBVIOUS
<1>3. c \in Clip /\ c.start \in Nat /\ delta \in Int
  BY <1>1, <1>2, ClipFields
<1>4. PICK d : d = IF moved THEN Rippled(doc, c.track, c.start, delta, i) ELSE doc
  OBVIOUS
<1>5. PICK k : k = [c EXCEPT !.track = t, !.start = start]
  OBVIOUS
<1>6. k \in Clip /\ k.track = t
  BY <1>1, <1>3, <1>5 DEF Clip
<1>7. PICK r : r = SetClip(d, i, k)
  OBVIOUS
<1>8. doc' = Cleared(r, {c.track, t})
  BY <1>2, <1>4, <1>5, <1>7 DEF Move, Edited
<1>9. /\ IsDoc(d) /\ Present(d) = Present(doc)
      /\ \A j \in Present(d) :
           /\ d.clips[j].track = doc.clips[j].track /\ d.clips[j].trans = doc.clips[j].trans
           /\ doc.clips[j].track # c.track =>
                d.clips[j].start = doc.clips[j].start /\ EndOf(d.clips[j]) = EndOf(doc.clips[j])
  <2>1. CASE moved
    <3>1. Shifts(d, doc, c.track, c.start, delta, i)
      BY <1>1, <1>3, <1>4, <2>1, RippledFacts
    <3>2. QED
      BY <3>1 DEF Shifts, Alike, EndOf
  <2>2. CASE ~moved
    BY <1>1, <1>4, <2>2
  <2>3. QED
    BY <1>2, <2>1, <2>2
<1>10. /\ IsDoc(r) /\ Present(r) = Present(doc) /\ r.clips[i] = k
       /\ \A j \in Present(doc) \ {i} : r.clips[j] = d.clips[j]
  BY <1>6, <1>7, <1>9, SetClipFacts
<1>11. ASSUME NEW u, u # t, u # c.track
       PROVE  SameTrack(doc, r, u)
  <2>1. \A j \in Present(doc) : doc.clips[j].track = u \/ r.clips[j].track = u =>
          j # i /\ r.clips[j] = d.clips[j]
    BY <1>2, <1>6, <1>10, <1>11
  <2>2. QED
    BY <1>9, <1>10, <1>11, <2>1 DEF SameTrack, TrackClips
<1>12. ASSUME NEW j \in Present(r), r.clips[j].trans > 0 /\ r.clips[j].track \notin {c.track, t}
       PROVE  ButtJoined(r, j)
  <2>1. j # i /\ r.clips[j] = d.clips[j] /\ j \in Present(doc)
    BY <1>6, <1>10, <1>12
  <2>2. doc.clips[j].trans > 0 /\ doc.clips[j].track # c.track /\ doc.clips[j].track # t
    BY <1>9, <1>12, <2>1
  <2>3. ButtJoined(doc, j) /\ j \in TrackClips(doc, doc.clips[j].track)
    BY <2>1, <2>2 DEF Honest, TrackClips
  <2>4. QED
    BY <1>11, <2>2, <2>3, JoinsAreLocal
<1>13. QED
  BY <1>8, <1>10, <1>12, ClearedIsHonest

LEMMA SplitsStayHonest ==
  ASSUME Sound(doc), Sound(doc'), Honest(doc), NEW i \in Present(doc), NEW at \in Times, Split(i, at)
  PROVE  Honest(doc')
<1>1. IsDoc(doc)
  BY DEF Sound, Whole
<1>2. PICK c : c = doc.clips[i]
  OBVIOUS
<1>3. PICK new \in ClipIds \ Present(doc), n \in Nat, front \in Clip, back \in Clip :
        /\ doc' = AddClip(SetClip(doc, i, front), new, back)
        /\ n > 0 /\ n < c.dur /\ Pieces(c, n, front, back)
  BY <1>2, SplitFacts
<1>4. PICK d : d = SetClip(doc, i, front)
  OBVIOUS
<1>5. /\ IsDoc(d) /\ Present(d) = Present(doc) /\ d.clips[i] = front
      /\ \A k \in Present(doc) \ {i} : d.clips[k] = doc.clips[k]
  BY <1>1, <1>4, SetClipFacts
<1>6. PICK r : r = doc'
  OBVIOUS
<1>7. /\ Present(r) = Present(doc) \union {new} /\ r.clips[new] = back /\ r.clips[i] = front
      /\ \A k \in Present(doc) \ {i} : r.clips[k] = doc.clips[k]
  BY <1>3, <1>4, <1>5, <1>6, AddClipFacts
<1>8. c.start \in Nat /\ c.dur \in Nat /\ c.dur > 0
  BY <1>1, <1>2, ClipFields
<1>9. ASSUME NEW k \in Present(doc), doc.clips[k].trans > 0
      PROVE  \E j \in Present(doc) : Abuts(doc, k, j)
  BY <1>9, HonestMeansFollowed
<1>10. EndOf(back) = EndOf(c)
  BY <1>3, <1>8 DEF Pieces, EndOf
<1>11. ASSUME NEW k \in Present(r), r.clips[k].trans > 0
       PROVE  \E j \in Present(r) : Abuts(r, k, j)
  <2>1. CASE k = new
    <3>1. c.trans > 0
      BY <1>3, <1>7, <1>11, <2>1 DEF Pieces
    <3>2. PICK j \in Present(doc) : Abuts(doc, i, j)
      BY <1>2, <1>9, <3>1
    <3>3. j # i
      BY <1>2, <1>8, <3>2 DEF Abuts, EndOf
    <3>4. Abuts(r, new, j)
      BY <1>2, <1>3, <1>7, <1>10, <3>2, <3>3 DEF Abuts, Pieces
    <3>5. QED
      BY <1>7, <2>1, <3>4
  <2>2. CASE k \in Present(doc) \ {i}
    <3>1. PICK j \in Present(doc) : Abuts(doc, k, j)
      BY <1>7, <1>9, <1>11, <2>2
    <3>2. r.clips[j].track = doc.clips[j].track /\ r.clips[j].start = doc.clips[j].start
      BY <1>2, <1>3, <1>7 DEF Pieces
    <3>3. QED
      BY <1>7, <2>2, <3>1, <3>2 DEF Abuts
  <2>3. k # i
    BY <1>3, <1>7, <1>11 DEF Pieces
  <2>4. QED
    BY <1>7, <2>1, <2>2, <2>3
<1>12. QED
  BY <1>6, <1>11, HonestMeansFollowed

LEMMA TransitionsJoinNeighbours ==
  ASSUME Sound(doc), Sound(doc'), Honest(doc), NEW i \in Present(doc), NEW n \in Nat, AddTransition(i, n)
  PROVE  Honest(doc')
<1>1. IsDoc(doc)
  BY DEF Sound, Whole
<1>2. PICK c, k : c = doc.clips[i] /\ k = [c EXCEPT !.trans = n]
  OBVIOUS
<1>3. c \in Clip
  BY <1>1, <1>2, ClipFields
<1>4. k \in Clip /\ k.track = c.track /\ k.start = c.start /\ k.dur = c.dur /\ k.trans = n
  BY <1>2, <1>3 DEF Clip
<1>5. PICK r : r = doc'
  OBVIOUS
<1>6. r = SetClip(doc, i, k)
  BY <1>2, <1>5 DEF AddTransition, Edited
<1>7. /\ Present(r) = Present(doc) /\ r.clips[i] = k
      /\ \A j \in Present(doc) \ {i} : r.clips[j] = doc.clips[j]
  BY <1>1, <1>4, <1>6, SetClipFacts
<1>8. \A j \in Present(doc) : /\ r.clips[j].track = doc.clips[j].track /\ r.clips[j].start = doc.clips[j].start
                              /\ EndOf(r.clips[j]) = EndOf(doc.clips[j])
  BY <1>2, <1>4, <1>7 DEF EndOf
<1>9. ASSUME NEW j \in Present(r), r.clips[j].trans > 0
      PROVE  \E f \in Present(r) : Abuts(r, j, f)
  <2>1. \E f \in Present(doc) : Abuts(doc, j, f)
    <3>1. CASE j = i
      <4>1. n > 0
        BY <1>4, <1>7, <1>9, <3>1
      <4>2. PICK f \in TrackClips(doc, c.track) : EndOf(c) = doc.clips[f].start
        BY <1>2, <4>1 DEF AddTransition
      <4>3. QED
        BY <1>2, <3>1, <4>2 DEF Abuts, TrackClips
    <3>2. CASE j # i
      BY <1>7, <1>9, <3>2, HonestMeansFollowed
    <3>3. QED
      BY <3>1, <3>2
  <2>2. QED
    BY <1>7, <1>8, <2>1 DEF Abuts
<1>10. QED
  BY <1>5, <1>9, HonestMeansFollowed

LEMMA TracksStayHonest ==
  ASSUME Sound(doc), Honest(doc), NEW T, doc' = WithTracks(doc, T)
  PROVE  Honest(doc')
<1>1. PICK U, f : doc = [tracks |-> U, clips |-> f]
  BY DEF Sound, Whole, IsDoc
<1>2. PICK r : r = WithTracks(doc, T)
  OBVIOUS
<1>3. r = [tracks |-> T, clips |-> f]
  BY <1>1, <1>2 DEF WithTracks
<1>4. r.clips = doc.clips
  BY <1>1, <1>3
<1>5. Present(r) = Present(doc) /\ \A t : SameTrack(doc, r, t)
  BY <1>4 DEF Present, SameTrack, TrackClips
<1>6. QED
  BY <1>2, <1>4, <1>5, HonestyIsKept

LEMMA EditsStayHonest ==
  ASSUME Sound(doc), Sound(doc'), Honest(doc), Insert \/ EditClip \/ EditTracks \/ Annotate
  PROVE  Honest(doc')
<1>1. CASE Insert
  BY <1>1, InsertsStayHonest DEF Insert, Inserting
<1>2. CASE EditClip
  <2>1. PICK i \in Present(doc) :
          \/ \E ripple \in BOOLEAN : Delete(i, ripple)
          \/ \E t \in Tracks, start \in Times, ripple \in BOOLEAN : Move(i, t, start, ripple)
          \/ \E at \in Times : Split(i, at)
          \/ \E n \in 0 .. 1 : AddTransition(i, n)
    BY <1>2 DEF EditClip
  <2>2. CASE \E ripple \in BOOLEAN : Delete(i, ripple)
    BY <2>2, DeletesStayHonest
  <2>3. CASE \E t \in Tracks, start \in Times, ripple \in BOOLEAN : Move(i, t, start, ripple)
    BY <2>3, MovesStayHonest
  <2>4. CASE \E at \in Times : Split(i, at)
    BY <2>4, SplitsStayHonest
  <2>5. CASE \E n \in 0 .. 1 : AddTransition(i, n)
    <3>1. PICK n \in 0 .. 1 : AddTransition(i, n)
      BY <2>5
    <3>2. n \in Nat
      OBVIOUS
    <3>3. QED
      BY <3>1, <3>2, TransitionsJoinNeighbours
  <2>6. QED
    BY <2>1, <2>2, <2>3, <2>4, <2>5
<1>3. CASE EditTracks
  <2>1. \E T : doc' = WithTracks(doc, T)
    BY <1>3 DEF EditTracks, AddTrack, RemoveTrack, Edited
  <2>2. QED
    BY <2>1, TracksStayHonest
<1>4. CASE Annotate
  BY <1>4 DEF Annotate, Edited
<1>5. QED
  BY <1>1, <1>2, <1>3, <1>4

LEMMA NormalStaysHonest ==
  ASSUME Tidy(doc), Honest(doc)
  PROVE  Honest(Normal(doc))
<1>1. PICK r : r = Normal(doc)
  OBVIOUS
<1>2. Normalises(r, doc)
  BY <1>1, NormalFacts
<1>3. \A t : SameTrack(doc, r, t)
  BY <1>2 DEF Normalises, SameTrack, TrackClips, EndOf
<1>4. QED
  BY <1>1, <1>2, <1>3, HonestyIsKept DEF Normalises

\* Of all steps, normalisation on load included, only trim_clip and set_clip_time part two
\* clips and leave the transition between them: insertions put the new clip where they tear,
\* delete_clip and move_clip clear what they part, split_clip hands the transition on.
THEOREM OnlyRetimingLeavesTransitions == TimelineSpec => TransitionsStayHonest
<1>1. TimelineInv /\ TimelineInv' /\ [TimelineNext]_timelineVars =>
        [odd' = {} /\ Honest(doc) /\ ~Honest(doc') => Retime]_timelineVars
  <2> SUFFICES ASSUME TimelineInv, TimelineInv', TimelineNext, odd' = {}, Honest(doc), ~Retime
               PROVE  Honest(doc')
    OBVIOUS
  <2>1. CASE Edit
    <3>1. Sound(doc) /\ Sound(doc')
      BY <2>1, EditsAreEdited DEF TimelineInv, Tidy, Sound
    <3>2. QED
      BY <2>1, <3>1, EditsStayHonest DEF Edit
  <2>2. CASE Legacy
    BY <2>2, LegacyIsOdd
  <2>3. CASE EndBatch
    BY <2>3, NormalStaysHonest DEF EndBatch, TimelineInv
  <2>4. QED
    BY <2>1, <2>2, <2>3 DEF TimelineNext, Edit
<1>2. QED
  BY <1>1, TimelineAlways, PTL DEF TransitionsStayHonest, TimelineSpec
=============================================================================
