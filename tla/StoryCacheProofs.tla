-------------------------- MODULE StoryCacheProofs --------------------------
(***************************************************************************)
(* What holds of the audio on the phone for any cities and stories, any    *)
(* sizes, any number of operations in flight and any failures.             *)
(***************************************************************************)
EXTENDS StoryCache, FiniteSetTheorems, TLAPS

-----------------------------------------------------------------------------
(***************************************************************************)
(* The invariants.                                                         *)
(***************************************************************************)
JobRecord == [kind : Fetchers \cup Keepers \cup {"none"}, at : Stages, city : Cities,
              story : Stories \cup {NoStory}, todo : Seq(Stories), found : BOOLEAN,
              listed : SUBSET Stories, excess : Int, left : SUBSET Cities,
              here : BOOLEAN, cut : BOOLEAN, lost : BOOLEAN, hasty : BOOLEAN]
HookRecord == [mounted : BOOLEAN, city : Cities, cancelled : BOOLEAN,
               active : JobIds \cup {0}, manager : {"none", "opening", "open"}]

Typed ==
    /\ rows \in SUBSET Stories /\ IsFiniteSet(rows) /\ files \in [Stories -> FileStates]
    /\ jobs \in [JobIds -> JobRecord] /\ hook \in HookRecord
    /\ status \in [Cities -> Statuses] /\ downloaded \in SUBSET Cities
    /\ crossed \in SUBSET Stories /\ stale \in SUBSET Stories /\ abandoned \in SUBSET Cities
    /\ starts \in 0..MaxStarts /\ faults \in 0..MaxFaults

\* Where an operation of each kind can wait, and what it has then.
ItemStages == {"lookup", "check", "touch", "begin", "transfer", "stats", "list", "evict"}
Shape(r) ==
    /\ r.kind = "none" <=> r.at = "done"
    /\ r.kind = "fetch" => r.at \in ItemStages
    /\ r.kind = "city" => r.at \in ItemStages \cup {"manifest", "open"}
    /\ r.kind = "remove" => r.at \in {"select", "wipe", "drop", "dropAll"}
    /\ r.kind = "reconcile" =>
         r.at \in {"rows", "sweep", "orphans", "cities", "lookup", "check"}
    /\ r.at \in ItemStages => r.story \in Stories
    /\ r.kind # "city" => ~r.here
    /\ r.at \in {"manifest", "open"} => r.story = NoStory
    /\ r.at = "evict" => IsFiniteSet(r.listed)
Shaped == /\ \A j \in JobIds : Shape(jobs[j])
          /\ \A j \in JobIds : jobs[j].kind = "reconcile" => j = 1

\* The handle of the mounted hook is that of one of its loops at an item.
Held ==
    /\ hook.active # 0 => /\ jobs[hook.active].kind = "city" /\ jobs[hook.active].here
                          /\ jobs[hook.active].at \in ItemStages
    /\ ~hook.mounted => hook.active = 0 /\ \A j \in JobIds : ~jobs[j].here

Base == Typed /\ Shaped /\ Held

\* What Typed says of the rest.
Rest ==
    /\ rows \in SUBSET Stories /\ IsFiniteSet(rows) /\ files \in [Stories -> FileStates]
    /\ status \in [Cities -> Statuses] /\ downloaded \in SUBSET Cities
    /\ crossed \in SUBSET Stories /\ stale \in SUBSET Stories /\ abandoned \in SUBSET Cities
    /\ starts \in 0..MaxStarts /\ faults \in 0..MaxFaults

\* The stories an operation works on are no other's, or crossed; while an
\* operation that deletes runs, every story worked on is crossed.
Apart ==
    /\ \A i, j \in JobIds : i # j => Working(i) \cap Working(j) \subseteq crossed
    /\ Keeping => \A j \in JobIds : Working(j) \subseteq crossed

\* Operation r waits without a row for its story.
Rowless(r) == \/ r.at = "check" /\ ~r.found
              \/ r.at \in {"begin", "transfer"}

\* What operation r knows is still so, for stories that are not crossed: R are
\* the rows, F the files, C the crossed stories.
Fits(r, R, F, C) ==
    /\ Rowless(r) /\ r.story \in R => r.story \in C
    /\ r.kind \in Fetchers /\ r.at = "check" /\ r.found /\ r.story \notin C
         => F[r.story] # "part"
    /\ r.at = "wipe" => /\ r.listed \subseteq StoriesOf(r.city)
                        /\ R \cap StoriesOf(r.city) \subseteq r.listed \cup C
    /\ r.at = "orphans" => /\ R \subseteq r.listed \cup C
                           /\ \A s \in r.listed \ (R \cup C) : F[s] = "none"
FitAll == \A j \in JobIds : Fits(jobs[j], rows, files, crossed)

\* A row has its whole file, or none and is stale.
RowFiles == \A s \in rows \ crossed : files[s] = "whole" \/ (files[s] = "none" /\ s \in stale)

CacheInv == Apart /\ FitAll /\ RowFiles /\ NoOrphans

\* Whoever holds a path has its whole file, but for the crossed stories and
\* those whose file was taken.
HeldWhole == \A j \in JobIds : Holding(j) /\ jobs[j].story \notin crossed \cup taken
                                 => files[jobs[j].story] = "whole"
HoldInv == taken \in SUBSET Stories /\ HeldWhole

\* A loop the hook would let go on has had no download cut, unless it is hasty.
Uncancelled ==
    \A j \in JobIds : jobs[j].kind = "city" /\ jobs[j].here /\ ~jobs[j].hasty /\ ~hook.cancelled
                        => Whole(j)

\* A loop that stops without a word leaves no city busy that is not abandoned.
Busy == {"fetching", "downloading"}
Silent ==
    \A j \in JobIds : jobs[j].kind = "city" =>
        /\ ~jobs[j].here => jobs[j].city \in abandoned
        /\ hook.cancelled => status[jobs[j].city] \notin Busy \/ jobs[j].city \in abandoned
LoopInv == Uncancelled /\ Silent /\ BusyMeansLoop

\* The cache is within its limit, or an eviction is under way that will find
\* what there is too much: it has yet to ask for the size, or knows the excess
\* of all the rows, or of those it has listed.
Light == Total(rows) <= MaxCache
Asks(j) == jobs[j].at = "stats"
Knows(j) == jobs[j].at = "list" /\ Total(rows) <= MaxCache + jobs[j].excess
Clears(j) == /\ jobs[j].at = "evict" /\ rows \subseteq jobs[j].listed
             /\ Total(jobs[j].listed) <= MaxCache + jobs[j].excess
InHand == faults = 0 => Light \/ \E j \in JobIds : Asks(j) \/ Knows(j) \/ Clears(j)

-----------------------------------------------------------------------------
(***************************************************************************)
(* The size of the cache.  Total folds over a set: it takes the elements   *)
(* in the order CHOOSE picks them.  That this is the sum in any order is   *)
(* proved by induction over the subsets of a finite set, which are well    *)
(* founded by inclusion.                                                   *)
(***************************************************************************)
First(s) == CHOOSE x \in s : TRUE
Sums(g, S) == g = [s \in SUBSET S |->
                     IF s = {} THEN 0 ELSE Size[First(s)] + g[s \ {First(s)}]]

\* What follows for a set from its proper subsets holds of all finite sets.
LEMMA SubsetsInduct ==
  ASSUME NEW S, IsFiniteSet(S), NEW A,
         \A T \in SUBSET S : (\A U \in SUBSET T : U # T => U \in A) => T \in A
  PROVE  SUBSET S \subseteq A
<1> DEFINE B == (SUBSET S) \ A
<1>1. SUFFICES ASSUME B # {} PROVE FALSE
  OBVIOUS
<1>2. IsWellFoundedOn(StrictSubsetOrdering(S), SUBSET S)
  <2>1. FiniteSubsetsOf(S) = SUBSET S
    BY FS_FiniteSubsetsOfFinite
  <2>2. IsWellFoundedOn(StrictSubsetOrdering(S), FiniteSubsetsOf(S))
    BY FS_StrictSubsetOrderingWellFounded
  <2> QED
    BY <2>1, <2>2
<1>3. PICK x \in B : \A y \in B : ~ (<<y, x>> \in StrictSubsetOrdering(S))
  <2> HIDE DEF B
  <2>1. B \subseteq SUBSET S
    BY DEF B
  <2> QED
    BY <1>1, <1>2, <2>1, WFMin
<1>4. \A U \in SUBSET x : U # x => U \in A
  BY <1>3 DEF StrictSubsetOrdering
<1> QED
  BY <1>3, <1>4

\* The element the fold takes first is one of the set.
LEMMA FirstIsIn == ASSUME NEW s, s # {} PROVE First(s) \in s
  BY DEF First

\* A set has one such function, whichever larger set it is restricted from.
LEMMA SumsUnique ==
  ASSUME NEW S, NEW U \in SUBSET S, IsFiniteSet(U), NEW g, NEW h, Sums(g, S), Sums(h, U)
  PROVE  \A s \in SUBSET U : g[s] = h[s]
<1> DEFINE A == {s \in SUBSET U : g[s] = h[s]}
<1>1. ASSUME NEW T \in SUBSET U, \A V \in SUBSET T : V # T => V \in A
      PROVE  T \in A
  <2>1. CASE T = {}
    <3>1. g[T] = 0 /\ h[T] = 0
      BY <2>1 DEF Sums
    <3> QED
      BY <3>1
  <2>2. CASE T # {}
    <3>1. First(T) \in T
      BY <2>2, FirstIsIn
    <3>2. T \ {First(T)} \in A
      BY <1>1, <3>1
    <3>3. /\ g[T] = Size[First(T)] + g[T \ {First(T)}]
          /\ h[T] = Size[First(T)] + h[T \ {First(T)}]
      BY <2>2 DEF Sums
    <3> QED
      BY <3>2, <3>3
  <2> QED
    BY <2>1, <2>2
<1>2. SUBSET U \subseteq A
  <2> HIDE DEF A
  <2> QED
    BY <1>1, SubsetsInduct
<1> QED
  BY <1>2

\* The function of a set and that of the set without its first element.
LEMMA SumsStep ==
  ASSUME NEW S, IsFiniteSet(S), S # {}, NEW g, Sums(g, S), NEW h, Sums(h, S \ {First(S)})
  PROVE  g[S] = Size[First(S)] + h[S \ {First(S)}]
<1>1. S \ {First(S)} \in SUBSET S /\ IsFiniteSet(S \ {First(S)})
  BY FS_Subset
<1>2. ASSUME NEW U \in SUBSET S, IsFiniteSet(U), Sums(h, U)
      PROVE  g[U] = h[U]
  BY <1>2, SumsUnique
<1>3. g[S \ {First(S)}] = h[S \ {First(S)}]
  BY <1>1, <1>2
<1> QED
  BY <1>3 DEF Sums

\* A finite set has such a function.
LEMMA SumsExist ==
  ASSUME NEW S, IsFiniteSet(S)
  PROVE  \E g : Sums(g, S)
<1> DEFINE A == {T \in SUBSET S : \E g : Sums(g, T)}
           G(T) == CHOOSE g : Sums(g, T)
<1>1. ASSUME NEW T \in SUBSET S, \A U \in SUBSET T : U # T => U \in A
      PROVE  T \in A
  <2>1. \A U \in SUBSET T : U # T => Sums(G(U), U)
    BY <1>1
  <2> DEFINE g == [s \in SUBSET T |->
                     IF s = {} THEN 0
                     ELSE Size[First(s)] + G(s \ {First(s)})[s \ {First(s)}]]
  <2> HIDE DEF G
  <2>2. ASSUME NEW s \in SUBSET T, s # {}
        PROVE  g[s \ {First(s)}] = G(s \ {First(s)})[s \ {First(s)}]
    <3> DEFINE r == s \ {First(s)}
    <3>1. r \in SUBSET T /\ r # T
      BY <2>2, FirstIsIn
    <3>2. Sums(G(r), r)
      BY <2>1, <3>1
    <3>3. CASE r = {}
      <4>1. G(r)[r] = 0 /\ g[r] = 0
        BY <3>1, <3>2, <3>3 DEF Sums
      <4> QED
        BY <4>1
    <3>4. CASE r # {}
      <4>1. r \ {First(r)} \in SUBSET T /\ r \ {First(r)} # T /\ IsFiniteSet(r)
        BY <3>1, <3>4, FirstIsIn, FS_Subset
      <4>2. Sums(G(r \ {First(r)}), r \ {First(r)})
        BY <2>1, <4>1
      <4>3. G(r)[r] = Size[First(r)] + G(r \ {First(r)})[r \ {First(r)}]
        BY <3>2, <3>4, <4>1, <4>2, SumsStep
      <4>4. g[r] = Size[First(r)] + G(r \ {First(r)})[r \ {First(r)}]
        BY <3>1, <3>4
      <4> QED
        BY <4>3, <4>4
    <3> QED
      BY <3>3, <3>4
  <2>3. g = [s \in SUBSET T |-> IF s = {} THEN 0 ELSE Size[First(s)] + g[s \ {First(s)}]]
    BY <2>2
  <2>4. Sums(g, T)
    BY <2>3 DEF Sums
  <2> QED
    BY <2>4
<1>2. SUBSET S \subseteq A
  <2> HIDE DEF A
  <2> QED
    BY <1>1, SubsetsInduct
<1> QED
  BY <1>2

\* Total is the value of any such function.
LEMMA TotalIs ==
  ASSUME NEW S, IsFiniteSet(S), NEW U \in SUBSET S, NEW g, Sums(g, S)
  PROVE  Total(U) = g[U]
<1>1. IsFiniteSet(U)
  BY FS_Subset
<1> DEFINE h == CHOOSE k : Sums(k, U)
<1>2. Sums(h, U)
  BY <1>1, SumsExist
<1>3. Total(U) = h[U]
  BY DEF Total, MapThenSumSet, MapThenFoldSet, Sums, First
<1> HIDE DEF h
<1> QED
  BY <1>1, <1>2, <1>3, SumsUnique

\* What the fold computes, one element at a time.
LEMMA TotalUnfolds ==
  ASSUME NEW S, IsFiniteSet(S)
  PROVE  /\ Total({}) = 0
         /\ S # {} => Total(S) = Size[First(S)] + Total(S \ {First(S)})
<1>1. PICK g : Sums(g, S)
  BY SumsExist
<1>2. Total({}) = g[{}] /\ Total(S) = g[S] /\ Total(S \ {First(S)}) = g[S \ {First(S)}]
  BY <1>1, TotalIs
<1> QED
  BY <1>1, <1>2 DEF Sums

\* The size of a set of stories is a number of bytes.
LEMMA TotalType ==
  ASSUME NEW S \in SUBSET Stories, IsFiniteSet(S)
  PROVE  Total(S) \in Nat
<1> DEFINE A == {T \in SUBSET S : Total(T) \in Nat}
<1>1. ASSUME NEW T \in SUBSET S, \A U \in SUBSET T : U # T => U \in A
      PROVE  T \in A
  <2>1. IsFiniteSet(T)
    BY FS_Subset
  <2>2. CASE T = {}
    <3>1. Total({}) = 0
      BY <2>1, TotalUnfolds
    <3> QED
      BY <2>2, <3>1
  <2>3. CASE T # {}
    <3>1. First(T) \in T /\ Size[First(T)] \in Nat
      BY <2>3, FirstIsIn, StoryAssumption
    <3>2. Total(T \ {First(T)}) \in Nat
      BY <1>1, <3>1
    <3>3. Total(T) = Size[First(T)] + Total(T \ {First(T)})
      BY <2>1, <2>3, TotalUnfolds
    <3> QED
      BY <3>1, <3>2, <3>3
  <2> QED
    BY <2>2, <2>3
<1>2. SUBSET S \subseteq A
  <2> HIDE DEF A
  <2> QED
    BY <1>1, SubsetsInduct
<1> QED
  BY <1>2

\* Taking one story away takes its size away, whichever it is.
LEMMA TotalLess ==
  ASSUME NEW S \in SUBSET Stories, IsFiniteSet(S)
  PROVE  \A s \in S : Total(S) = Size[s] + Total(S \ {s})
<1> DEFINE A == {T \in SUBSET S : \A s \in T : Total(T) = Size[s] + Total(T \ {s})}
<1>1. ASSUME NEW T \in SUBSET S, \A U \in SUBSET T : U # T => U \in A
      PROVE  T \in A
  <2> SUFFICES ASSUME NEW s \in T
               PROVE  Total(T) = Size[s] + Total(T \ {s})
    OBVIOUS
  <2> DEFINE c == First(T)
  <2>1. c \in T
    BY FirstIsIn
  <2>2. IsFiniteSet(T)
    BY FS_Subset
  <2>3. Total(T) = Size[c] + Total(T \ {c})
    BY <2>2, TotalUnfolds
  <2> HIDE DEF c
  <2>4. CASE s # c
    <3> DEFINE r == T \ {s, c}
    <3>1. /\ T \ {c} \in A /\ s \in T \ {c} /\ (T \ {c}) \ {s} = r
          /\ T \ {s} \in A /\ c \in T \ {s} /\ (T \ {s}) \ {c} = r
      BY <1>1, <2>1, <2>4
    <3>2. Total(T \ {c}) = Size[s] + Total(r) /\ Total(T \ {s}) = Size[c] + Total(r)
      BY <3>1
    <3>3. Size[s] \in Nat /\ Size[c] \in Nat
      BY <2>1, StoryAssumption
    <3>4. Total(r) \in Nat
      <4>1. r \in SUBSET Stories /\ IsFiniteSet(r)
        BY <2>2, FS_Subset
      <4> QED
        BY <4>1, TotalType
    <3> QED
      BY <2>3, <3>2, <3>3, <3>4
  <2> QED
    BY <2>3, <2>4
<1>2. SUBSET S \subseteq A
  <2> HIDE DEF A
  <2> QED
    BY <1>1, SubsetsInduct
<1> QED
  BY <1>2

\* A part of the cache is not larger than all of it.
LEMMA TotalGrows ==
  ASSUME NEW S \in SUBSET Stories, IsFiniteSet(S)
  PROVE  \A U \in SUBSET S : Total(U) <= Total(S)
<1> DEFINE A == {T \in SUBSET S : \A U \in SUBSET T : Total(U) <= Total(T)}
<1>1. ASSUME NEW T \in SUBSET S, \A U \in SUBSET T : U # T => U \in A
      PROVE  T \in A
  <2> SUFFICES ASSUME NEW U \in SUBSET T
               PROVE  Total(U) <= Total(T)
    OBVIOUS
  <2>1. T \in SUBSET Stories /\ IsFiniteSet(T) /\ U \in SUBSET Stories /\ IsFiniteSet(U)
    BY FS_Subset
  <2>2. Total(T) \in Nat /\ Total(U) \in Nat
    BY <2>1, TotalType
  <2>3. CASE U # T
    <3>1. PICK s \in T : s \notin U
      BY <2>3
    <3>2. T \ {s} \in A /\ U \in SUBSET (T \ {s})
      BY <1>1, <3>1
    <3>3. Total(U) <= Total(T \ {s})
      BY <3>2
    <3>4. Total(T) = Size[s] + Total(T \ {s}) /\ Size[s] \in Nat
      BY <2>1, TotalLess, StoryAssumption
    <3>5. Total(T \ {s}) \in Nat
      <4>1. T \ {s} \in SUBSET Stories /\ IsFiniteSet(T \ {s})
        BY <2>1, FS_Subset
      <4> QED
        BY <4>1, TotalType
    <3> QED
      BY <2>2, <3>3, <3>4, <3>5
  <2> QED
    BY <2>2, <2>3
<1>2. SUBSET S \subseteq A
  <2> HIDE DEF A
  <2> QED
    BY <1>1, SubsetsInduct
<1> QED
  BY <1>2

-----------------------------------------------------------------------------
(***************************************************************************)
(* What a step does to the operations.                                     *)
(***************************************************************************)
\* Operation j becomes q and no other changes.
Moved(j, q) == /\ q \in JobRecord /\ jobs' \in [JobIds -> JobRecord]
               /\ jobs'[j] = q /\ \A i \in JobIds \ {j} : jobs'[i] = jobs[i]

\* q is the operation r further on; it was cut as often.
Kept(q, r) == /\ q \in JobRecord /\ q.kind = r.kind /\ q.city = r.city
              /\ q.here = r.here /\ q.hasty = r.hasty
Uncut(q, r) == q.cut = r.cut /\ q.lost = r.lost

\* An assignment to one operation.
LEMMA PutMoves ==
  ASSUME jobs \in [JobIds -> JobRecord], NEW j \in JobIds, NEW q \in JobRecord, Put(j, q)
  PROVE  Moved(j, q)
  BY DEF Put, Moved

\* Operation r when it takes up story s and leaves t to do.
Taken(r, s, t, e, f) ==
    [r EXCEPT !.at = "lookup", !.story = s, !.todo = t, !.listed = {}, !.excess = e,
              !.found = FALSE, !.cut = FALSE, !.lost = f]

\* It is an operation.
LEMMA TakenType ==
  ASSUME NEW r \in JobRecord, NEW s \in Stories, NEW t \in Seq(Stories), NEW e \in Int,
         NEW f \in BOOLEAN
  PROVE  Taken(r, s, t, e, f) \in JobRecord
<1>0. PICK a \in Stages, l \in SUBSET Stories, b \in BOOLEAN :
             a = "lookup" /\ l = {} /\ b = FALSE
  BY DEF Stages
<1>1. Taken(r, s, t, e, f) = [r EXCEPT !.at = a, !.story = s, !.todo = t, !.listed = l,
                                       !.excess = e, !.found = b, !.cut = b, !.lost = f]
  BY <1>0 DEF Taken
<1>2. [r EXCEPT !.at = a, !.story = s, !.todo = t, !.listed = l, !.excess = e,
                !.found = b, !.cut = b, !.lost = f] \in JobRecord
  BY DEF JobRecord
<1> QED
  BY <1>1, <1>2

\* What a download begins as is an operation.
LEMMA BegunType ==
  ASSUME NEW r \in JobRecord, NEW k \in Fetchers, NEW a \in Stages, NEW b \in BOOLEAN,
         NEW c \in Cities, NEW t \in Seq(Stories)
  PROVE  [r EXCEPT !.kind = k, !.at = a, !.here = b, !.city = c, !.todo = t] \in JobRecord
  BY DEF JobRecord

\* The operation that does not exist.
LEMMA FreeIs ==
  /\ Free \in JobRecord /\ Free.kind = "none" /\ Free.at = "done" /\ ~Free.here
  /\ Free.story = NoStory
  BY StoryAssumption DEF Free, JobRecord, Stages

\* An operation that ends leaves a free slot.
LEMMA Releases ==
  ASSUME jobs \in [JobIds -> JobRecord], NEW j \in JobIds, Release(j)
  PROVE  Moved(j, Free)
  BY FreeIs, PutMoves DEF Release

\* An operation goes on to another stage with all it knows.
LEMMA GoesOn ==
  ASSUME jobs \in [JobIds -> JobRecord], NEW j \in JobIds, NEW a \in Stages, Goto(j, a)
  PROVE  \E q : /\ Moved(j, q) /\ Kept(q, jobs[j]) /\ Uncut(q, jobs[j]) /\ q.at = a
                /\ q.story = jobs[j].story /\ q.found = jobs[j].found
                /\ q.listed = jobs[j].listed /\ q.excess = jobs[j].excess
                /\ q.todo = jobs[j].todo
<1> DEFINE r == jobs[j]
           q == [r EXCEPT !.at = a]
<1>1. r \in JobRecord
  OBVIOUS
<1>2. q \in JobRecord
  BY <1>1 DEF JobRecord
<1>3. Put(j, q)
  BY DEF Goto, Put
<1>4. /\ q.kind = r.kind /\ q.city = r.city /\ q.here = r.here /\ q.hasty = r.hasty
      /\ q.cut = r.cut /\ q.lost = r.lost /\ q.at = a /\ q.story = r.story
      /\ q.found = r.found /\ q.listed = r.listed /\ q.excess = r.excess /\ q.todo = r.todo
  BY <1>1 DEF JobRecord
<1>5. Moved(j, q)
  BY <1>2, <1>3, PutMoves
<1> QED
  BY <1>2, <1>4, <1>5 DEF Kept, Uncut

\* The lookup has been answered.
LEMMA LooksUp ==
  ASSUME jobs \in [JobIds -> JobRecord], NEW j \in JobIds, Lookup(j)
  PROVE  \E q : /\ Moved(j, q) /\ Kept(q, jobs[j]) /\ Uncut(q, jobs[j]) /\ q.at = "check"
                /\ q.story = jobs[j].story /\ (q.found <=> jobs[j].story \in rows)
<1>0. (jobs[j].story \in rows) \in BOOLEAN
  OBVIOUS
<1> PICK f \in BOOLEAN : f = (jobs[j].story \in rows)
  BY <1>0, Zenon
<1> DEFINE r == jobs[j]
           q == [r EXCEPT !.at = "check", !.found = f]
<1>1. r \in JobRecord /\ "check" \in Stages
  BY DEF Stages
<1>2. q \in JobRecord
  BY <1>1 DEF JobRecord
<1>3. Put(j, q)
  BY DEF Lookup, Put
<1>4. /\ q.kind = r.kind /\ q.city = r.city /\ q.here = r.here /\ q.hasty = r.hasty
      /\ q.cut = r.cut /\ q.lost = r.lost /\ q.at = "check" /\ q.story = r.story
      /\ q.found = f
  BY <1>1 DEF JobRecord
<1>5. Moved(j, q)
  BY <1>2, <1>3, PutMoves
<1> QED
  BY <1>2, <1>4, <1>5 DEF Kept, Uncut

\* The loop takes its next item.
LEMMA TakesItem ==
  ASSUME jobs \in [JobIds -> JobRecord], NEW j \in JobIds, NEW h, TakeItem(j, h),
         jobs[j].todo # <<>>
  PROVE  \E q : /\ Moved(j, q) /\ Kept(q, jobs[j]) /\ q.at = "lookup"
                /\ q.story \in Stories /\ ~q.cut
                /\ q.lost <=> jobs[j].lost \/ jobs[j].cut
                /\ Contest(j, q.story)
<1> PICK f \in BOOLEAN : f = (jobs[j].lost \/ jobs[j].cut)
  OBVIOUS
<1> PICK e \in Int : e = 0
  OBVIOUS
<1> DEFINE r == jobs[j]
           q == [r EXCEPT !.at = "lookup", !.story = Head(r.todo), !.todo = Tail(r.todo),
                          !.listed = {}, !.excess = e, !.found = FALSE, !.cut = FALSE,
                          !.lost = f]
<1>1. r \in JobRecord /\ "lookup" \in Stages
  BY DEF Stages
<1>2. r.todo \in Seq(Stories) /\ r.todo # <<>>
  BY <1>1 DEF JobRecord
<1>3. Head(r.todo) \in Stories /\ Tail(r.todo) \in Seq(Stories)
  BY <1>2
<1>4. q \in JobRecord
  <2>1. Taken(r, Head(r.todo), Tail(r.todo), e, f) \in JobRecord
    BY <1>1, <1>3, TakenType
  <2> QED
    BY <2>1 DEF Taken
<1>5. Put(j, q)
  BY DEF TakeItem
<1>6. /\ q.kind = r.kind /\ q.city = r.city /\ q.here = r.here /\ q.hasty = r.hasty
      /\ q.cut = FALSE /\ q.lost = f /\ q.at = "lookup" /\ q.story = Head(r.todo)
  BY <1>1 DEF JobRecord
<1>7. Moved(j, q)
  BY <1>4, <1>5, PutMoves
<1> QED
  BY <1>3, <1>4, <1>6, <1>7 DEF Kept, TakeItem

\* The eviction notes by how much the cache is over its limit, then what there
\* is, and deletes one story after the other.
LEMMA Weighs ==
  ASSUME Typed, NEW j \in JobIds,
         Put(j, [jobs[j] EXCEPT !.at = "list", !.excess = Total(rows) - MaxCache])
  PROVE  \E q : /\ Moved(j, q) /\ Kept(q, jobs[j]) /\ Uncut(q, jobs[j]) /\ q.at = "list"
                /\ q.story = jobs[j].story /\ q.excess = Total(rows) - MaxCache
<1>1. Total(rows) \in Nat /\ MaxCache \in Nat
  BY TotalType, StoryAssumption DEF Typed
<1> PICK e \in Int : e = Total(rows) - MaxCache
  BY <1>1
<1> DEFINE r == jobs[j]
           q == [r EXCEPT !.at = "list", !.excess = e]
<1>2. r \in JobRecord /\ "list" \in Stages
  BY DEF Stages, Typed
<1>3. q \in JobRecord
  BY <1>2 DEF JobRecord
<1>4. Put(j, q)
  OBVIOUS
<1>5. /\ q.kind = r.kind /\ q.city = r.city /\ q.here = r.here /\ q.hasty = r.hasty
      /\ q.cut = r.cut /\ q.lost = r.lost /\ q.at = "list" /\ q.story = r.story
      /\ q.excess = e
  BY <1>2 DEF JobRecord
<1>6. Moved(j, q)
  BY <1>3, <1>4, PutMoves DEF Typed
<1> QED
  BY <1>3, <1>5, <1>6 DEF Kept, Uncut

\* q is operation r with a list.
Notes(q, r, l) == q.story = r.story /\ q.listed = l /\ q.excess = r.excess

\* An operation that takes a list of rows knows that list and no more than before.
LEMMA Lists ==
  ASSUME Typed, NEW j \in JobIds, NEW a \in Stages, NEW l \in SUBSET Stories,
         Put(j, [jobs[j] EXCEPT !.at = a, !.listed = l])
  PROVE  \E q : /\ Moved(j, q) /\ Kept(q, jobs[j]) /\ Uncut(q, jobs[j]) /\ q.at = a
                /\ Notes(q, jobs[j], l)
<1> DEFINE r == jobs[j]
           q == [r EXCEPT !.at = a, !.listed = l]
<1>1. r \in JobRecord
  BY DEF Typed
<1>2. q \in JobRecord
  BY <1>1 DEF JobRecord
<1>3. Put(j, q)
  OBVIOUS
<1>4. /\ q.kind = r.kind /\ q.city = r.city /\ q.here = r.here /\ q.hasty = r.hasty
      /\ q.cut = r.cut /\ q.lost = r.lost /\ q.at = a /\ q.story = r.story
      /\ q.excess = r.excess /\ q.listed = l
  BY <1>1 DEF JobRecord
<1>5. Moved(j, q)
  BY <1>2, <1>3, PutMoves DEF Typed
<1> QED
  BY <1>2, <1>4, <1>5 DEF Kept, Uncut, Notes

\* An eviction crosses a row off its list and its size off the excess.
LEMMA Drops ==
  ASSUME Typed, NEW j \in JobIds, NEW s \in Stories,
         Put(j, [jobs[j] EXCEPT !.listed = @ \ {s}, !.excess = @ - Size[s]])
  PROVE  \E q : /\ Moved(j, q) /\ Kept(q, jobs[j]) /\ Uncut(q, jobs[j]) /\ q.at = jobs[j].at
                /\ q.story = jobs[j].story /\ q.listed = jobs[j].listed \ {s}
                /\ q.excess = jobs[j].excess - Size[s]
<1> DEFINE r == jobs[j]
<1>1. r \in JobRecord /\ r.excess \in Int /\ r.listed \in SUBSET Stories /\ Size[s] \in Nat
  BY StoryAssumption DEF Typed, JobRecord
<1> PICK e \in Int : e = r.excess - Size[s]
  BY <1>1
<1> DEFINE q == [r EXCEPT !.listed = r.listed \ {s}, !.excess = e]
<1>2. q \in JobRecord
  BY <1>1 DEF JobRecord
<1>3. q = [r EXCEPT !.listed = @ \ {s}, !.excess = @ - Size[s]]
  BY <1>1 DEF JobRecord
<1>4. Put(j, q)
  BY <1>3
<1>5. /\ q.kind = r.kind /\ q.city = r.city /\ q.here = r.here /\ q.hasty = r.hasty
      /\ q.cut = r.cut /\ q.lost = r.lost /\ q.at = r.at /\ q.story = r.story
      /\ q.excess = e /\ q.listed = r.listed \ {s}
  BY <1>1 DEF JobRecord
<1>6. Moved(j, q)
  BY <1>2, <1>4, PutMoves DEF Typed
<1> QED
  BY <1>2, <1>5, <1>6 DEF Kept, Uncut

\* The sweep of every start crosses a row off its list.
LEMMA Sweeps ==
  ASSUME Typed, NEW j \in JobIds, NEW s \in Stories,
         Put(j, [jobs[j] EXCEPT !.listed = @ \ {s}])
  PROVE  \E q : Moved(j, q) /\ Kept(q, jobs[j]) /\ Uncut(q, jobs[j]) /\ q.at = jobs[j].at
                /\ q.story = jobs[j].story
<1> DEFINE r == jobs[j]
           q == [r EXCEPT !.listed = r.listed \ {s}]
<1>1. r \in JobRecord /\ r.listed \ {s} \in SUBSET Stories
  BY DEF Typed, JobRecord
<1>2. q \in JobRecord
  BY <1>1 DEF JobRecord
<1>3. q = [r EXCEPT !.listed = @ \ {s}]
  BY <1>1 DEF JobRecord
<1>4. Put(j, q)
  BY <1>3
<1>5. /\ q.kind = r.kind /\ q.city = r.city /\ q.here = r.here /\ q.hasty = r.hasty
      /\ q.cut = r.cut /\ q.lost = r.lost /\ q.at = r.at /\ q.story = r.story
  BY <1>1 DEF JobRecord
<1>6. Moved(j, q)
  BY <1>2, <1>4, PutMoves DEF Typed
<1> QED
  BY <1>2, <1>5, <1>6 DEF Kept, Uncut

\* The reconciliation at the head of its second loop, and in it.
LEMMA Recounts ==
  ASSUME Typed, NEW j \in JobIds, NEW a \in Stages, NEW l \in SUBSET Cities,
         Put(j, [jobs[j] EXCEPT !.at = a, !.listed = {}, !.left = l])
  PROVE  \E q : Moved(j, q) /\ Kept(q, jobs[j]) /\ Uncut(q, jobs[j]) /\ q.at = a
<1> DEFINE r == jobs[j]
           q == [r EXCEPT !.at = a, !.listed = {}, !.left = l]
<1>1. r \in JobRecord
  BY DEF Typed
<1>2. q \in JobRecord
  BY <1>1 DEF JobRecord
<1>3. Put(j, q)
  OBVIOUS
<1>4. /\ q.kind = r.kind /\ q.city = r.city /\ q.here = r.here /\ q.hasty = r.hasty
      /\ q.cut = r.cut /\ q.lost = r.lost /\ q.at = a
  BY <1>1 DEF JobRecord
<1>5. Moved(j, q)
  BY <1>2, <1>3, PutMoves DEF Typed
<1> QED
  BY <1>2, <1>4, <1>5 DEF Kept, Uncut

\* The reconciliation takes up the first story of a city of its list.
LEMMA PicksCity ==
  ASSUME Typed, NEW j \in JobIds, NEW c \in Cities, Items[c] # <<>>,
         Put(j, [[jobs[j] EXCEPT !.left = @ \ {c}]
                   EXCEPT !.at = "lookup", !.city = c,
                          !.story = Head(Items[c]), !.todo = Tail(Items[c])])
  PROVE  \E q : /\ Moved(j, q) /\ q.kind = jobs[j].kind /\ q.here = jobs[j].here
                /\ q.at = "lookup" /\ q.story \in Stories
<1> DEFINE r == jobs[j]
           p == [r EXCEPT !.left = r.left \ {c}]
           q == [p EXCEPT !.at = "lookup", !.city = c,
                          !.story = Head(Items[c]), !.todo = Tail(Items[c])]
<1>1. r \in JobRecord /\ r.left \ {c} \in SUBSET Cities /\ "lookup" \in Stages
  BY DEF Typed, JobRecord, Stages
<1>2. Items[c] \in Seq(Stories)
  BY StoryAssumption
<1>3. Head(Items[c]) \in Stories /\ Tail(Items[c]) \in Seq(Stories)
  BY <1>2
<1>4. p \in JobRecord
  BY <1>1 DEF JobRecord
<1>5. p = [r EXCEPT !.left = @ \ {c}]
  BY <1>1 DEF JobRecord
<1>6. p.kind = r.kind /\ p.here = r.here
  BY <1>1 DEF JobRecord
<1> HIDE DEF p
<1>7. q \in JobRecord
  BY <1>1, <1>3, <1>4 DEF JobRecord
<1>8. Put(j, q)
  BY <1>5
<1>9. q.kind = p.kind /\ q.here = p.here /\ q.at = "lookup" /\ q.story = Head(Items[c])
  BY <1>4 DEF JobRecord
<1>10. Moved(j, q)
  BY <1>7, <1>8, PutMoves DEF Typed
<1> QED
  BY <1>3, <1>6, <1>9, <1>10

\* The reconciliation passes over a city without stories.
LEMMA SkipsCity ==
  ASSUME Typed, NEW j \in JobIds, NEW c \in Cities,
         Put(j, [jobs[j] EXCEPT !.left = @ \ {c}])
  PROVE  \E q : Moved(j, q) /\ Kept(q, jobs[j]) /\ Uncut(q, jobs[j]) /\ q.at = jobs[j].at
<1> DEFINE r == jobs[j]
           q == [r EXCEPT !.left = r.left \ {c}]
<1>1. r \in JobRecord /\ r.left \ {c} \in SUBSET Cities
  BY DEF Typed, JobRecord
<1>2. q \in JobRecord
  BY <1>1 DEF JobRecord
<1>3. q = [r EXCEPT !.left = @ \ {c}]
  BY <1>1 DEF JobRecord
<1>4. Put(j, q)
  BY <1>3
<1>5. /\ q.kind = r.kind /\ q.city = r.city /\ q.here = r.here /\ q.hasty = r.hasty
      /\ q.cut = r.cut /\ q.lost = r.lost /\ q.at = r.at
  BY <1>1 DEF JobRecord
<1>6. Moved(j, q)
  BY <1>2, <1>4, PutMoves DEF Typed
<1> QED
  BY <1>2, <1>5, <1>6 DEF Kept, Uncut

\* The reconciliation goes on to the next story of its city.
LEMMA NextStory ==
  ASSUME Typed, NEW j \in JobIds, jobs[j].todo # <<>>,
         Put(j, [jobs[j] EXCEPT !.at = "lookup", !.story = Head(jobs[j].todo),
                                !.todo = Tail(jobs[j].todo)])
  PROVE  \E q : Moved(j, q) /\ Kept(q, jobs[j]) /\ Uncut(q, jobs[j]) /\ q.at = "lookup"
                /\ q.story \in Stories
<1> DEFINE r == jobs[j]
           q == [r EXCEPT !.at = "lookup", !.story = Head(r.todo), !.todo = Tail(r.todo)]
<1>1. r \in JobRecord /\ "lookup" \in Stages
  BY DEF Typed, Stages
<1>2. r.todo \in Seq(Stories) /\ r.todo # <<>>
  BY <1>1 DEF JobRecord
<1>3. Head(r.todo) \in Stories /\ Tail(r.todo) \in Seq(Stories)
  BY <1>2
<1>4. q \in JobRecord
  BY <1>1, <1>3 DEF JobRecord
<1>5. Put(j, q)
  OBVIOUS
<1>6. /\ q.kind = r.kind /\ q.city = r.city /\ q.here = r.here /\ q.hasty = r.hasty
      /\ q.cut = r.cut /\ q.lost = r.lost /\ q.at = "lookup" /\ q.story = Head(r.todo)
  BY <1>1 DEF JobRecord
<1>7. Moved(j, q)
  BY <1>4, <1>5, PutMoves DEF Typed
<1> QED
  BY <1>3, <1>4, <1>6, <1>7 DEF Kept, Uncut

-----------------------------------------------------------------------------
(***************************************************************************)
(* Operations that begin, and the hook.                                    *)
(***************************************************************************)
\* A prefetch or the player's fetch, a removal, a clearing.
LEMMA Fetches ==
  ASSUME jobs \in [JobIds -> JobRecord], NEW j \in JobIds, NEW s \in Stories,
         Put(j, [Free EXCEPT !.kind = "fetch", !.at = "lookup", !.story = s])
  PROVE  \E q : Moved(j, q) /\ q.kind = "fetch" /\ q.at = "lookup" /\ q.story = s /\ ~q.here
<1> DEFINE q == [Free EXCEPT !.kind = "fetch", !.at = "lookup", !.story = s]
<1>1. Free \in JobRecord /\ "lookup" \in Stages /\ "fetch" \in Fetchers /\ ~Free.here
  BY FreeIs DEF Stages, Fetchers
<1>2. q \in JobRecord
  BY <1>1 DEF JobRecord
<1>3. q.kind = "fetch" /\ q.at = "lookup" /\ q.story = s /\ q.here = Free.here
  BY <1>1 DEF JobRecord
<1>4. Moved(j, q)
  BY <1>2, PutMoves
<1> QED
  BY <1>1, <1>3, <1>4

\* A removal of a city begins in a free slot.
LEMMA Removes ==
  ASSUME jobs \in [JobIds -> JobRecord], NEW j \in JobIds, NEW c \in Cities,
         Put(j, [Free EXCEPT !.kind = "remove", !.at = "select", !.city = c])
  PROVE  \E q : Moved(j, q) /\ q.kind = "remove" /\ q.at = "select" /\ ~q.here
<1> DEFINE q == [Free EXCEPT !.kind = "remove", !.at = "select", !.city = c]
<1>1. Free \in JobRecord /\ "select" \in Stages /\ "remove" \in Keepers /\ ~Free.here
  BY FreeIs DEF Stages, Keepers
<1>2. q \in JobRecord
  BY <1>1 DEF JobRecord
<1>3. q.kind = "remove" /\ q.at = "select" /\ q.here = Free.here
  BY <1>1 DEF JobRecord
<1>4. Moved(j, q)
  BY <1>2, PutMoves
<1> QED
  BY <1>1, <1>3, <1>4

\* A removal of everything begins in a free slot.
LEMMA Clearing ==
  ASSUME jobs \in [JobIds -> JobRecord], NEW j \in JobIds,
         Put(j, [Free EXCEPT !.kind = "remove", !.at = "dropAll"])
  PROVE  \E q : Moved(j, q) /\ q.kind = "remove" /\ q.at = "dropAll" /\ ~q.here
<1> DEFINE q == [Free EXCEPT !.kind = "remove", !.at = "dropAll"]
<1>1. Free \in JobRecord /\ "dropAll" \in Stages /\ "remove" \in Keepers /\ ~Free.here
  BY FreeIs DEF Stages, Keepers
<1>2. q \in JobRecord
  BY <1>1 DEF JobRecord
<1>3. q.kind = "remove" /\ q.at = "dropAll" /\ q.here = Free.here
  BY <1>1 DEF JobRecord
<1>4. Moved(j, q)
  BY <1>2, PutMoves
<1> QED
  BY <1>1, <1>3, <1>4

\* A process starts with the reconciliation and nothing else.
LEMMA Boots ==
  /\ Booting \in [JobIds -> JobRecord]
  /\ \A j \in JobIds : /\ ~Booting[j].here /\ Booting[j].story = NoStory
                       /\ Booting[j].kind # "city"
                       /\ j = 1 => Booting[j].kind = "reconcile" /\ Booting[j].at = "rows"
                       /\ j # 1 => Booting[j].kind = "none" /\ Booting[j].at = "done"
<1>1. Free \in JobRecord /\ "rows" \in Stages /\ "reconcile" \in Keepers /\ ~Free.here
      /\ Free.kind = "none" /\ Free.at = "done" /\ Free.story = NoStory
  BY FreeIs DEF Stages, Keepers
<1>2. Reconciling \in JobRecord
  BY <1>1 DEF JobRecord, Reconciling
<1>3. Reconciling.kind = "reconcile" /\ Reconciling.at = "rows" /\ ~Reconciling.here
      /\ Reconciling.story = NoStory
  BY <1>1 DEF JobRecord, Reconciling
<1>4. \A j \in JobIds : j = 1 => Booting[j] = Reconciling
  BY DEF Booting
<1>5. \A j \in JobIds : j # 1 => Booting[j] = Free
  BY DEF Booting
<1>6. Booting \in [JobIds -> JobRecord]
  BY <1>1, <1>2 DEF Booting
<1>7. \A j \in JobIds : ~Booting[j].here /\ Booting[j].story = NoStory
                        /\ Booting[j].kind # "city"
  BY <1>1, <1>3, <1>4, <1>5
<1> QED
  BY <1>1, <1>3, <1>4, <1>5, <1>6, <1>7

\* The hook gets a handle, or has none.
LEMMA HookHolds ==
  ASSUME NEW h \in HookRecord, NEW a \in JobIds \cup {0}
  PROVE  /\ [h EXCEPT !.active = a] \in HookRecord
         /\ [h EXCEPT !.active = a].active = a
         /\ [h EXCEPT !.active = a].mounted = h.mounted
         /\ [h EXCEPT !.active = a].cancelled = h.cancelled
         /\ [h EXCEPT !.active = a].city = h.city
         /\ [h EXCEPT !.active = a].manager = h.manager
  BY DEF HookRecord

\* The hook without an operation is the hook it was otherwise.
LEMMA HookDrops ==
  ASSUME NEW h \in HookRecord
  PROVE  /\ [h EXCEPT !.active = 0] \in HookRecord
         /\ [h EXCEPT !.active = 0].active = 0
         /\ [h EXCEPT !.active = 0].mounted = h.mounted
         /\ [h EXCEPT !.active = 0].cancelled = h.cancelled
<1> PICK e \in JobIds \cup {0} : e = 0
  OBVIOUS
<1> QED
  BY HookHolds

\* The hook of no screen.
LEMMA NoHookIs ==
  /\ NoHook \in HookRecord /\ ~NoHook.mounted /\ NoHook.active = 0 /\ ~NoHook.cancelled
  BY StoryAssumption DEF NoHook, HookRecord

\* r and q are the same operation at the same point.
SameWork(q, r) == /\ q.kind = r.kind /\ q.at = r.at /\ q.city = r.city /\ q.story = r.story
                  /\ q.todo = r.todo /\ q.found = r.found /\ q.listed = r.listed
                  /\ q.excess = r.excess

\* Cancelling the active handle.
LEMMA Cuts ==
  ASSUME Typed
  PROVE  /\ CutActive \in [JobIds -> JobRecord]
         /\ \A i \in JobIds : /\ SameWork(CutActive[i], jobs[i])
                              /\ CutActive[i].here = jobs[i].here
                              /\ CutActive[i].hasty = jobs[i].hasty
                              /\ ~jobs[i].here => (Held => CutActive[i] = jobs[i])
<1>1. CASE hook.active = 0
  BY <1>1 DEF CutActive, SameWork, Typed
<1>2. CASE hook.active # 0
  <2> DEFINE a == hook.active
  <2>1. a \in JobIds
    BY <1>2 DEF Typed, HookRecord
  <2> HIDE DEF a
  <2>2. CutActive = [jobs EXCEPT ![a] = [jobs[a] EXCEPT !.cut = TRUE]]
    BY <1>2 DEF CutActive, a
  <2> DEFINE q == [jobs[a] EXCEPT !.cut = TRUE]
  <2>3. jobs[a] \in JobRecord
    BY <2>1 DEF Typed
  <2>4. q \in JobRecord
    BY <2>3 DEF JobRecord
  <2>5. SameWork(q, jobs[a]) /\ q.here = jobs[a].here /\ q.hasty = jobs[a].hasty
    BY <2>3 DEF JobRecord, SameWork
  <2> HIDE DEF q
  <2>6. CutActive \in [JobIds -> JobRecord] /\ CutActive[a] = q
        /\ \A i \in JobIds \ {a} : CutActive[i] = jobs[i]
    BY <2>1, <2>2, <2>4 DEF Typed, q
  <2>7. Held => jobs[a].here
    BY <1>2 DEF Held, a
  <2> QED
    BY <2>5, <2>6, <2>7 DEF SameWork
<1> QED
  BY <1>1, <1>2

\* Marking the operations of the hook as hasty, or as those of no hook.
LEMMA Marks ==
  ASSUME NEW r \in JobRecord, NEW f \in BOOLEAN, NEW x, x = [r EXCEPT !.hasty = f]
  PROVE  /\ x \in JobRecord /\ x.hasty = f /\ SameWork(x, r) /\ x.here = r.here
         /\ x.cut = r.cut /\ x.lost = r.lost
  BY DEF JobRecord, SameWork

\* An operation whose screen is gone does the same work.
LEMMA Leaves ==
  ASSUME NEW r \in JobRecord
  PROVE  /\ [r EXCEPT !.here = FALSE] \in JobRecord /\ ~[r EXCEPT !.here = FALSE].here
         /\ SameWork([r EXCEPT !.here = FALSE], r)
  BY DEF JobRecord, SameWork

-----------------------------------------------------------------------------
(***************************************************************************)
(* What a step of one operation, which becomes q, may do.                  *)
(***************************************************************************)
\* To the hook.
HookStep(j, q) ==
    /\ hook' \in HookRecord /\ hook'.mounted = hook.mounted /\ hook'.cancelled = hook.cancelled
    /\ hook'.active # 0 =>
         \/ hook'.active = j /\ q.kind = "city" /\ q.here /\ q.at \in ItemStages
         \/ hook'.active = hook.active /\ hook.active # j
    /\ q.here => hook.mounted

\* To the operations.
JobStep(j, q) == /\ Moved(j, q) /\ Shape(q) /\ HookStep(j, q)
                 /\ q.kind = "reconcile" => jobs[j].kind = "reconcile"

\* To the statuses of the cities.
LoopStep(j, q) ==
    /\ abandoned' = abandoned
    /\ \A c \in Cities : status'[c] \in Busy =>
         \/ status[c] \in Busy
         \/ q.kind = "city" /\ c = q.city /\ q.here /\ ~hook.cancelled
    /\ q.kind = "city" => /\ jobs[j].kind = "city" /\ q.city = jobs[j].city
                          /\ q.here = jobs[j].here /\ q.hasty = jobs[j].hasty
                          /\ q.cut \/ q.lost => jobs[j].cut \/ jobs[j].lost
    /\ jobs[j].kind = "city" /\ q.kind # "city" =>
         \/ status'[jobs[j].city] \notin Busy
         \/ status' = status /\ Cancelled(j)
    /\ \A c \in downloaded' \ downloaded : j \in Finishes(c) /\ ~Cancelled(j)

\* To the stories that are crossed.
Follows(j, q) ==
    /\ crossed \subseteq crossed'
    /\ q.kind \in Fetchers => \/ q.story = NoStory
                              \/ jobs[j].kind \in Fetchers /\ q.story = jobs[j].story
                              \/ Contest(j, q.story)
    /\ q.kind \in Keepers => jobs[j].kind \in Keepers \/ CrossAll

\* To rows and files: only those of the stories W come into being.
Tame(W) ==
    /\ crossed \subseteq crossed' /\ rows' \ rows \subseteq W
    /\ \A s \in Stories \ W : files'[s] = files[s] \/ files'[s] = "none"
    /\ \A s \in rows \ rows' : s \in crossed' \/ files'[s] = "none"

\* Such a step keeps the types and shapes.
LEMMA StepsKeepBase ==
  ASSUME Base, NEW j \in JobIds, NEW q, JobStep(j, q), Rest'
  PROVE  Base'
<1> USE DEF JobStep
<1>1. Typed'
  BY DEF Rest, Typed, HookStep, Moved
<1>2. Shaped'
  <2>1. ASSUME NEW i \in JobIds PROVE Shape(jobs'[i]) /\ (jobs'[i].kind = "reconcile" => i = 1)
    <3>1. CASE i = j
      BY <3>1 DEF Base, Shaped, Moved
    <3>2. CASE i # j
      BY <3>2 DEF Base, Shaped, Moved
    <3> QED
      BY <3>1, <3>2
  <2> QED
    BY <2>1 DEF Shaped, Shape
<1>3. Held'
  <2>1. hook'.active # 0 => /\ jobs'[hook'.active].kind = "city" /\ jobs'[hook'.active].here
                            /\ jobs'[hook'.active].at \in ItemStages
    BY <1>1 DEF Base, Held, HookStep, Moved, Typed, HookRecord
  <2>2. ~hook'.mounted => hook'.active = 0 /\ \A i \in JobIds : ~jobs'[i].here
    BY DEF Base, Held, HookStep, Moved
  <2> QED
    BY <2>1, <2>2 DEF Held
<1> QED
  BY <1>1, <1>2, <1>3 DEF Base

\* It keeps what is known of the loops.
LEMMA StepsKeepLoops ==
  ASSUME Base, LoopInv, NEW j \in JobIds, NEW q, JobStep(j, q), LoopStep(j, q)
  PROVE  /\ LoopInv'
         /\ \A c \in downloaded' \ downloaded :
              \E i \in Finishes(c) : Whole(i) \/ jobs[i].hasty
<1> USE DEF JobStep
<1>1. Uncancelled'
  <2> SUFFICES ASSUME NEW i \in JobIds, jobs'[i].kind = "city", jobs'[i].here,
                      ~jobs'[i].hasty, ~hook'.cancelled
               PROVE  ~jobs'[i].cut /\ ~jobs'[i].lost
    BY DEF Uncancelled, Whole
  <2>1. CASE i = j
    BY <2>1 DEF LoopInv, Uncancelled, Whole, LoopStep, Moved, HookStep
  <2>2. CASE i # j
    BY <2>2 DEF LoopInv, Uncancelled, Whole, Moved, HookStep
  <2> QED
    BY <2>1, <2>2
<1>2. Silent'
  <2> SUFFICES ASSUME NEW i \in JobIds, jobs'[i].kind = "city"
               PROVE  /\ ~jobs'[i].here => jobs'[i].city \in abandoned
                      /\ hook'.cancelled => \/ status'[jobs'[i].city] \notin Busy
                                            \/ jobs'[i].city \in abandoned
    BY DEF Silent, LoopStep
  <2>1. /\ jobs[i].kind = "city" /\ jobs'[i].city = jobs[i].city /\ jobs'[i].here = jobs[i].here
        /\ jobs[i].city \in Cities
    <3>1. jobs[i].city \in Cities
      BY DEF Base, Typed, JobRecord
    <3>2. CASE i = j
      BY <3>1, <3>2 DEF Moved, LoopStep
    <3>3. CASE i # j
      BY <3>1, <3>3 DEF Moved
    <3> QED
      BY <3>2, <3>3
  <2> QED
    BY <2>1 DEF LoopInv, Silent, LoopStep, HookStep
<1>3. BusyMeansLoop'
  <2> SUFFICES ASSUME NEW c \in Cities, c \notin abandoned, status'[c] \in Busy
               PROVE  \E i \in JobIds : jobs'[i].kind = "city" /\ jobs'[i].city = c
    BY DEF BusyMeansLoop, LoopStep, Busy
  <2>1. CASE q.kind = "city" /\ c = q.city
    BY <2>1 DEF Moved
  <2>2. CASE status[c] \in Busy /\ ~(q.kind = "city" /\ c = q.city)
    <3>1. PICK i \in JobIds : jobs[i].kind = "city" /\ jobs[i].city = c
      BY <2>2 DEF LoopInv, BusyMeansLoop, Busy
    <3>2. i # j
      <4> SUFFICES ASSUME i = j PROVE FALSE
        OBVIOUS
      <4>1. q.kind # "city"
        BY <2>2, <3>1 DEF LoopStep
      <4>2. status' = status /\ Cancelled(j)
        BY <3>1, <4>1 DEF LoopStep
      <4> QED
        BY <2>2, <3>1, <4>2 DEF LoopInv, Silent, Cancelled
    <3> QED
      BY <3>1, <3>2 DEF Moved
  <2> QED
    BY <2>1, <2>2 DEF LoopStep
<1>4. ASSUME NEW c \in downloaded' \ downloaded
      PROVE  \E i \in Finishes(c) : Whole(i) \/ jobs[i].hasty
  <2>1. j \in Finishes(c) /\ ~Cancelled(j)
    BY <1>4 DEF LoopStep
  <2>2. Whole(j) \/ jobs[j].hasty
    BY <2>1 DEF Finishes, LoopInv, Uncancelled, Cancelled
  <2> QED
    BY <2>1, <2>2
<1> QED
  BY <1>1, <1>2, <1>3, <1>4 DEF LoopInv

\* It keeps the operations apart.
LEMMA StepsKeepApart ==
  ASSUME Base, Apart, NEW j \in JobIds, NEW q, JobStep(j, q), Follows(j, q)
  PROVE  Apart'
<1> USE DEF JobStep
<1> DEFINE W == IF q.kind \in Fetchers THEN {q.story} \ {NoStory} ELSE {}
<1>1. Working(j)' = W /\ \A i \in JobIds \ {j} : Working(i)' = Working(i)
  BY DEF Working, Moved
<1>2. ASSUME NEW i \in JobIds, i # j PROVE W \cap Working(i) \subseteq crossed'
  <2>1. CASE q.kind \in Fetchers /\ jobs[j].kind \in Fetchers /\ q.story = jobs[j].story
    <3>1. W = Working(j)
      BY <2>1 DEF Working
    <3> QED
      BY <1>2, <3>1 DEF Apart, Follows
  <2>2. CASE q.kind \in Fetchers /\ Contest(j, q.story)
    BY <1>2, <2>2 DEF Contest
  <2> QED
    BY <2>1, <2>2 DEF Follows
<1>3. ASSUME NEW i \in JobIds, NEW k \in JobIds, i # k
      PROVE  Working(i)' \cap Working(k)' \subseteq crossed'
  <2>1. CASE i = j
    BY <1>1, <1>2, <1>3, <2>1
  <2>2. CASE k = j
    BY <1>1, <1>2, <1>3, <2>2
  <2>3. CASE i # j /\ k # j
    BY <1>1, <1>3, <2>3 DEF Apart, Follows
  <2> QED
    BY <2>1, <2>2, <2>3
<1>4. ASSUME NEW i \in JobIds, jobs'[i].kind \in Keepers, NEW k \in JobIds
      PROVE  Working(k)' \subseteq crossed'
  <2>1. CASE Keeping
    <3>1. CASE k # j
      BY <1>1, <2>1, <3>1 DEF Apart, Follows
    <3>2. CASE k = j
      <4>1. CASE q.kind \in Fetchers /\ jobs[j].kind \in Fetchers /\ q.story = jobs[j].story
        <5>1. W = Working(j)
          BY <4>1 DEF Working
        <5> QED
          BY <1>1, <2>1, <3>2, <5>1 DEF Apart, Follows
      <4>2. CASE q.kind \in Fetchers /\ Contest(j, q.story)
        BY <1>1, <2>1, <3>2, <4>2 DEF Contest
      <4> QED
        BY <1>1, <3>2, <4>1, <4>2 DEF Follows
    <3> QED
      BY <3>1, <3>2
  <2>2. CASE ~Keeping
    <3>1. i = j /\ jobs[j].kind \notin Keepers /\ q.kind \in Keepers
      BY <1>4, <2>2 DEF Keeping, Moved
    <3>2. CrossAll /\ q.kind \notin Fetchers
      BY <3>1 DEF Follows, Keepers, Fetchers
    <3>3. Working(k) \subseteq crossed'
      BY <3>2 DEF CrossAll
    <3> QED
      BY <1>1, <3>2, <3>3
  <2> QED
    BY <2>1, <2>2
<1> QED
  BY <1>3, <1>4 DEF Apart, Keeping

\* An operation that does not work on the stories W does not notice.
LEMMA OthersFit ==
  ASSUME Typed, Typed', NEW W, Tame(W), NEW r \in JobRecord, Shape(r),
         Fits(r, rows, files, crossed),
         r.kind \in Fetchers => (r.story \in W => r.story \in crossed),
         r.kind \in Keepers => W \subseteq crossed
  PROVE  Fits(r, rows', files', crossed')
<1>0. /\ rows' \subseteq Stories /\ rows \subseteq Stories
      /\ crossed \subseteq crossed' /\ rows' \ rows \subseteq W
      /\ r.listed \subseteq Stories
  BY DEF Tame, Typed, JobRecord
<1>1. Rowless(r) /\ r.story \in rows' => r.story \in crossed'
  <2>1. Rowless(r) => r.kind \in Fetchers \cup Keepers
    BY DEF Shape, Rowless, ItemStages, Fetchers, Keepers, JobRecord
  <2> QED
    BY <1>0, <2>1 DEF Fits
<1>2. r.kind \in Fetchers /\ r.at = "check" /\ r.found /\ r.story \notin crossed'
        => files'[r.story] # "part"
  <2> SUFFICES ASSUME r.kind \in Fetchers, r.at = "check", r.found, r.story \notin crossed'
               PROVE  files'[r.story] # "part"
    OBVIOUS
  <2>1. r.story \in Stories
    BY DEF Shape, ItemStages
  <2>2. r.story \notin W /\ files[r.story] # "part"
    BY <1>0 DEF Fits
  <2> QED
    BY <2>1, <2>2 DEF Tame
<1>3. r.at = "wipe" =>
        /\ r.listed \subseteq StoriesOf(r.city)
        /\ rows' \cap StoriesOf(r.city) \subseteq r.listed \cup crossed'
  <2>1. r.at = "wipe" => W \subseteq crossed
    BY DEF Shape, ItemStages, Keepers, JobRecord, Fetchers
  <2> QED
    BY <1>0, <2>1 DEF Fits
<1>4. r.at = "orphans" => /\ rows' \subseteq r.listed \cup crossed'
                          /\ \A s \in r.listed \ (rows' \cup crossed') : files'[s] = "none"
  <2> SUFFICES ASSUME r.at = "orphans"
               PROVE  /\ rows' \subseteq r.listed \cup crossed'
                      /\ \A s \in r.listed \ (rows' \cup crossed') : files'[s] = "none"
    OBVIOUS
  <2>1. W \subseteq crossed
    BY DEF Shape, ItemStages, Keepers, JobRecord, Fetchers
  <2>2. ASSUME NEW s \in r.listed \ (rows' \cup crossed') PROVE files'[s] = "none"
    <3>1. s \in Stories \ W
      BY <1>0, <2>1, <2>2
    <3>2. CASE s \in rows
      BY <2>2, <3>2 DEF Tame
    <3>3. CASE s \notin rows
      <4>1. files[s] = "none"
        BY <1>0, <2>2, <3>3 DEF Fits
      <4> QED
        BY <3>1, <4>1 DEF Tame
    <3> QED
      BY <3>2, <3>3
  <2> QED
    BY <1>0, <2>1, <2>2 DEF Fits
<1> QED
  BY <1>1, <1>2, <1>3, <1>4 DEF Fits

\* A step of one operation disturbs what no other knows.
LEMMA StepsKeepFit ==
  ASSUME Base, Typed', Apart, FitAll, NEW j \in JobIds, NEW q, JobStep(j, q),
         NEW W, Tame(W), W \subseteq Working(j), Fits(q, rows', files', crossed')
  PROVE  FitAll'
<1> USE DEF JobStep
<1>1. ASSUME NEW i \in JobIds PROVE Fits(jobs'[i], rows', files', crossed')
  <2>1. CASE i = j
    BY <2>1 DEF Moved
  <2>2. CASE i # j
    <3>1. /\ jobs'[i] = jobs[i] /\ jobs[i] \in JobRecord /\ Shape(jobs[i])
          /\ Fits(jobs[i], rows, files, crossed)
      BY <2>2 DEF Moved, Base, Typed, Shaped, FitAll
    <3>2. jobs[i].kind \in Fetchers => (jobs[i].story \in W => jobs[i].story \in crossed)
      <4> SUFFICES ASSUME jobs[i].kind \in Fetchers, jobs[i].story \in W
                   PROVE  jobs[i].story \in crossed
        OBVIOUS
      <4>1. jobs[i].story \in Working(j)
        OBVIOUS
      <4>2. jobs[i].story \in Working(i)
        BY <4>1 DEF Working
      <4> QED
        BY <2>2, <4>1, <4>2 DEF Apart
    <3>3. jobs[i].kind \in Keepers => W \subseteq crossed
      BY DEF Apart, Keeping
    <3>4. Fits(jobs[i], rows', files', crossed')
      BY <3>1, <3>2, <3>3, OthersFit DEF Base
    <3> QED
      BY <3>1, <3>4
  <2> QED
    BY <2>1, <2>2
<1> QED
  BY <1>1 DEF FitAll

-----------------------------------------------------------------------------
(***************************************************************************)
(* The end of an item, and of a loop.                                      *)
(***************************************************************************)
\* Operation j is at an end, or its loop at the next item.
Passes(j, q) ==
    /\ JobStep(j, q) /\ LoopStep(j, q) /\ Follows(j, q) /\ q.at \in {"done", "lookup"}
    /\ status' \in [Cities -> Statuses] /\ downloaded' \in SUBSET Cities
    /\ crossed' \in SUBSET Stories

\* An operation that ends is no operation.
LEMMA Frees ==
  ASSUME Base, NEW j \in JobIds, Release(j), UNCHANGED crossed, HookStep(j, Free)
  PROVE  JobStep(j, Free) /\ Follows(j, Free) /\ Free.at = "done" /\ Free.kind = "none"
<1>1. Moved(j, Free)
  BY Releases DEF Base, Typed
<1>2. Free.kind = "none" /\ Free.at = "done" /\ ~Free.here
  BY FreeIs
<1>3. Shape(Free)
  BY <1>2 DEF Shape, ItemStages
<1>4. Follows(j, Free)
  BY <1>2 DEF Follows, Fetchers, Keepers
<1> QED
  BY <1>1, <1>2, <1>3, <1>4 DEF JobStep

\* The hook forgets the handle it held, if it was that of operation j.
LEMMA Forgets ==
  ASSUME Base, NEW j \in JobIds, NEW q, ~q.here,
         NEW h \in HookRecord, h.mounted = hook.mounted, h.cancelled = hook.cancelled,
         h.active # 0 => h.active = hook.active /\ h.active # j, hook' = h
  PROVE  HookStep(j, q)
  BY DEF HookStep

\* Nothing held, nothing kept: the hook as it is.
LEMMA HookStands ==
  ASSUME Base, NEW j \in JobIds, NEW q, UNCHANGED hook, q.here => jobs[j].here,
         hook.active = j => q.kind = "city" /\ q.here /\ q.at \in ItemStages
  PROVE  HookStep(j, q)
  BY DEF HookStep, Base, Typed, Held

\* Taking an item contests it.
LEMMA Contests ==
  ASSUME Typed, NEW j \in JobIds, NEW s \in Stories, Contest(j, s)
  PROVE  crossed \subseteq crossed' /\ crossed' \in SUBSET Stories
  BY DEF Contest, Typed

\* The loop takes an item.
LEMMA TakingPasses ==
  ASSUME Base, NEW j \in JobIds, jobs[j].kind = "city", ~Cancelled(j), jobs[j].todo # <<>>,
         NEW h \in HookRecord, h.mounted = hook.mounted, h.cancelled = hook.cancelled,
         TakeItem(j, h), UNCHANGED <<downloaded, abandoned>>,
         status' \in [Cities -> Statuses],
         \A c \in Cities : status'[c] \in Busy => status[c] \in Busy \/ c = jobs[j].city
  PROVE  \E q : Passes(j, q)
<1>1. PICK q : /\ Moved(j, q) /\ Kept(q, jobs[j]) /\ q.at = "lookup"
               /\ q.story \in Stories /\ ~q.cut
               /\ q.lost <=> jobs[j].lost \/ jobs[j].cut
               /\ Contest(j, q.story)
  BY TakesItem DEF Base, Typed
<1>2. q.kind = "city" /\ q.city = jobs[j].city /\ q.here /\ jobs[j].here /\ ~hook.cancelled
  BY <1>1 DEF Kept, Cancelled, Base, Typed, JobRecord
<1>3. hook' = [h EXCEPT !.active = j]
  BY DEF TakeItem
<1>4. HookStep(j, q)
  <2>1. hook' \in HookRecord /\ hook'.active = j /\ hook'.mounted = h.mounted
        /\ hook'.cancelled = h.cancelled
    BY <1>3, HookHolds
  <2> QED
    BY <1>1, <1>2, <2>1 DEF HookStep, ItemStages, Base, Held
<1>5. Shape(q)
  BY <1>1, <1>2 DEF Shape, ItemStages
<1>6. JobStep(j, q)
  BY <1>1, <1>2, <1>4, <1>5 DEF JobStep
<1>7. crossed \subseteq crossed' /\ crossed' \in SUBSET Stories
  BY <1>1, Contests DEF Base
<1>8. Follows(j, q)
  BY <1>1, <1>2, <1>7 DEF Follows, Keepers
<1>9. LoopStep(j, q)
  BY <1>1, <1>2 DEF LoopStep, Kept
<1>10. downloaded' \in SUBSET Cities
  BY DEF Base, Typed
<1> QED
  BY <1>1, <1>6, <1>7, <1>8, <1>9, <1>10 DEF Passes

\* The loop ends without a city.
LEMMA EndingPasses ==
  ASSUME Base, NEW j \in JobIds, Release(j), UNCHANGED <<crossed, abandoned>>,
         HookStep(j, Free), status' \in [Cities -> Statuses], downloaded' \subseteq downloaded,
         \A c \in Cities : status'[c] \in Busy => status[c] \in Busy,
         jobs[j].kind = "city" => \/ status'[jobs[j].city] \notin Busy
                                  \/ status' = status /\ Cancelled(j)
  PROVE  \E q : Passes(j, q)
<1>1. JobStep(j, Free) /\ Follows(j, Free) /\ Free.at = "done" /\ Free.kind = "none"
  BY Frees
<1>2. LoopStep(j, Free)
  BY <1>1 DEF LoopStep
<1>3. downloaded' \in SUBSET Cities /\ crossed' \in SUBSET Stories
  BY DEF Base, Typed
<1> QED
  BY <1>1, <1>2, <1>3 DEF Passes

\* The loop ends with its city downloaded.
LEMMA CompletePasses ==
  ASSUME Base, NEW j \in JobIds, jobs[j].kind = "city", jobs[j].todo = <<>>, ~Cancelled(j),
         Complete(j), UNCHANGED abandoned, HookStep(j, Free)
  PROVE  \E q : Passes(j, q)
<1>1. JobStep(j, Free) /\ Follows(j, Free) /\ Free.at = "done" /\ Free.kind = "none"
  BY Frees DEF Complete
<1>2. jobs[j].city \in Cities /\ status \in [Cities -> Statuses]
  BY DEF Base, Typed, JobRecord
<1>3. status' = [status EXCEPT ![jobs[j].city] = "completed"]
  BY DEF Complete, SetStatus
<1>4. /\ status' \in [Cities -> Statuses] /\ status'[jobs[j].city] \notin Busy
      /\ \A c \in Cities : status'[c] \in Busy => status[c] \in Busy
  BY <1>2, <1>3 DEF Statuses, Busy
<1>5. downloaded' \in SUBSET Cities /\ crossed' \in SUBSET Stories
  BY <1>2 DEF Base, Typed, Complete
<1>6. \A c \in downloaded' \ downloaded : j \in Finishes(c) /\ ~Cancelled(j)
  BY DEF Complete, Finishes
<1>7. LoopStep(j, Free)
  BY <1>1, <1>4, <1>6 DEF LoopStep
<1> QED
  BY <1>1, <1>4, <1>5, <1>7 DEF Passes

\* A status that is not a busy one.
LEMMA Settles ==
  ASSUME status \in [Cities -> Statuses], NEW c \in Cities, NEW v \in Statuses \ Busy,
         SetStatus(c, v)
  PROVE  /\ status' \in [Cities -> Statuses] /\ status'[c] \notin Busy
         /\ \A d \in Cities : status'[d] \in Busy => status[d] \in Busy
  BY DEF SetStatus

\* The head of the loop.
LEMMA NextItemPasses ==
  ASSUME Base, NEW j \in JobIds, jobs[j].kind = "city",
         NEW h \in HookRecord, h.mounted = hook.mounted, h.cancelled = hook.cancelled,
         h.active # 0 => h.active = hook.active /\ h.active # j,
         NextItem(j, h), UNCHANGED abandoned
  PROVE  \E q : Passes(j, q)
<1>0. jobs[j].city \in Cities /\ status \in [Cities -> Statuses]
  BY DEF Base, Typed, JobRecord
<1>1. CASE /\ Cancelled(j) /\ Release(j) /\ hook' = h
           /\ IF jobs[j].here THEN SetStatus(jobs[j].city, "idle") ELSE UNCHANGED status
           /\ UNCHANGED <<downloaded, crossed>>
  <2>1. HookStep(j, Free)
    BY <1>1, FreeIs, Forgets
  <2>2. "idle" \in Statuses \ Busy
    BY DEF Statuses, Busy
  <2>3. CASE jobs[j].here
    BY <1>0, <1>1, <2>1, <2>2, <2>3, Settles, EndingPasses
  <2>4. CASE ~jobs[j].here
    BY <1>0, <1>1, <2>1, <2>4, EndingPasses
  <2> QED
    BY <2>3, <2>4
<1>2. CASE ~Cancelled(j) /\ jobs[j].todo = <<>> /\ Complete(j) /\ hook' = h
  <2>1. HookStep(j, Free)
    BY <1>2, FreeIs, Forgets
  <2> QED
    BY <1>2, <2>1, CompletePasses
<1>3. CASE ~Cancelled(j) /\ jobs[j].todo # <<>> /\ TakeItem(j, h) /\ UNCHANGED storeVars
  <2>1. status' = status /\ downloaded' = downloaded
    BY <1>3 DEF storeVars
  <2>2. status' \in [Cities -> Statuses]
    BY <1>0, <2>1
  <2> QED
    BY <1>3, <2>1, <2>2, TakingPasses
<1> QED
  BY <1>1, <1>2, <1>3 DEF NextItem

\* The end of an item, of a loop or of a single fetch.
LEMMA ItemDonePasses ==
  ASSUME Base, NEW j \in JobIds, jobs[j].kind \in Fetchers, ItemDone(j), UNCHANGED abandoned
  PROVE  \E q : Passes(j, q)
<1>1. CASE jobs[j].kind = "city"
  <2> DEFINE h == Inactive(j)
  <2>1. NextItem(j, h)
    BY <1>1 DEF ItemDone
  <2>2. hook \in HookRecord
    BY DEF Base, Typed
  <2>3. CASE jobs[j].here
    <3>1. h = [hook EXCEPT !.active = 0]
      BY <2>3 DEF Inactive
    <3>2. h \in HookRecord /\ h.active = 0 /\ h.mounted = hook.mounted
          /\ h.cancelled = hook.cancelled
      BY <2>2, <3>1, HookDrops
    <3> HIDE DEF h
    <3> QED
      BY <1>1, <2>1, <3>2, NextItemPasses
  <2>4. CASE ~jobs[j].here
    <3>1. h = hook
      BY <2>4 DEF Inactive
    <3>2. h.active # 0 => h.active # j
      BY <2>4, <3>1 DEF Base, Held
    <3> HIDE DEF h
    <3> QED
      BY <1>1, <2>1, <2>2, <3>1, <3>2, NextItemPasses
  <2> QED
    BY <2>3, <2>4
<1>2. CASE jobs[j].kind # "city"
  <2>1. Release(j) /\ UNCHANGED <<hook, storeVars, crossed>>
    BY <1>2 DEF ItemDone
  <2>2. hook.active # j
    BY <1>2, BoundAssumption DEF Base, Held
  <2>4. HookStep(j, Free)
    BY <2>1, <2>2, FreeIs, HookStands
  <2>3. status' \in [Cities -> Statuses] /\ status' = status /\ downloaded' = downloaded
    BY <2>1 DEF Base, Typed, storeVars
  <2> QED
    BY <1>2, <2>1, <2>4, <2>3, EndingPasses
<1> QED
  BY <1>1, <1>2

\* The catch of the loop.
LEMMA LoopFailsPasses ==
  ASSUME Base, NEW j \in JobIds, jobs[j].kind = "city", LoopFails(j), UNCHANGED abandoned
  PROVE  \E q : Passes(j, q)
<1>0. /\ jobs[j].city \in Cities /\ status \in [Cities -> Statuses] /\ hook \in HookRecord
      /\ "error" \in Statuses \ Busy /\ "idle" \in Statuses \ Busy
  BY DEF Base, Typed, JobRecord, Statuses, Busy
<1>1. Release(j) /\ UNCHANGED crossed
  BY DEF LoopFails
<1>2. HookStep(j, Free)
  <2>1. CASE hook.active = j
    <3>1. hook' = [hook EXCEPT !.active = 0]
      BY <2>1 DEF LoopFails
    <3>2. hook' \in HookRecord /\ hook'.active = 0 /\ hook'.mounted = hook.mounted
          /\ hook'.cancelled = hook.cancelled
      BY <1>0, <3>1, HookDrops
    <3> QED
      BY <3>2, FreeIs DEF HookStep
  <2>2. CASE hook.active # j
    <3>1. hook' = hook
      BY <2>2 DEF LoopFails
    <3> QED
      BY <2>2, <3>1, FreeIs, HookStands
  <2> QED
    BY <2>1, <2>2
<1>3. CASE Cancelled(j) /\ UNCHANGED storeVars
  <2>1. status' = status /\ downloaded' = downloaded
    BY <1>3 DEF storeVars
  <2> QED
    BY <1>0, <1>1, <1>2, <1>3, <2>1, EndingPasses
<1>4. CASE SetStatus(jobs[j].city, "error") /\ UNCHANGED downloaded
  <2>1. /\ status' \in [Cities -> Statuses] /\ status'[jobs[j].city] \notin Busy
        /\ \A d \in Cities : status'[d] \in Busy => status[d] \in Busy
    BY <1>0, <1>4, Settles
  <2> QED
    BY <1>1, <1>2, <1>4, <2>1, EndingPasses
<1>5. CASE /\ downloaded' = {}
           /\ status' = [c \in Cities |-> IF c = jobs[j].city THEN "error" ELSE "idle"]
  <2>1. /\ status' \in [Cities -> Statuses]
        /\ \A c \in Cities : status'[c] \notin Busy
    BY <1>0, <1>5
  <2> QED
    BY <1>0, <1>1, <1>2, <1>5, <2>1, EndingPasses
<1> QED
  BY <1>3, <1>4, <1>5 DEF LoopFails

-----------------------------------------------------------------------------
(***************************************************************************)
(* What each step does.                                                    *)
(***************************************************************************)
\* A step of operation j that is as it should be in all this.
OpStep(j, q) == JobStep(j, q) /\ LoopStep(j, q) /\ Follows(j, q) /\ Rest'

\* Most steps change nothing but rows, files and the operation itself.
LEMMA PlainSteps ==
  ASSUME Base, NEW j \in JobIds, NEW q, Moved(j, q), Kept(q, jobs[j]), Uncut(q, jobs[j]),
         Shape(q), Rest', UNCHANGED <<hook, crossed, abandoned>>, downloaded' \subseteq downloaded,
         \A c \in Cities : status'[c] \in Busy => status[c] \in Busy,
         q.kind \in Fetchers => q.story = jobs[j].story /\ q.at \in ItemStages
  PROVE  OpStep(j, q)
<1>1. HookStep(j, q)
  <2>1. hook.active = j => q.kind = "city" /\ q.here /\ q.at \in ItemStages
    BY BoundAssumption DEF Base, Held, Kept, Fetchers
  <2>2. q.here => jobs[j].here
    BY DEF Kept
  <2> QED
    BY <2>1, <2>2, HookStands
<1>2. JobStep(j, q)
  BY <1>1 DEF JobStep, Kept
<1>3. LoopStep(j, q)
  BY DEF LoopStep, Kept, Uncut
<1>4. Follows(j, q)
  BY DEF Follows, Kept
<1> QED
  BY <1>2, <1>3, <1>4 DEF OpStep

\* The end of an item touches neither rows nor files.
LEMMA PassingSteps ==
  ASSUME Base, NEW j \in JobIds, NEW q, Passes(j, q),
         rows' \in SUBSET Stories, IsFiniteSet(rows'), files' \in [Stories -> FileStates],
         stale' \in SUBSET Stories, starts' \in 0..MaxStarts, faults' \in 0..MaxFaults
  PROVE  OpStep(j, q)
<1>1. abandoned' \in SUBSET Cities
  BY DEF Passes, LoopStep, Base, Typed
<1> QED
  BY <1>1 DEF Passes, OpStep, Rest

\* The counters stay within their bounds.
LEMMA Counts ==
  ASSUME Typed
  PROVE  /\ \A j \in JobIds : Slot(j) => starts' \in 0..MaxStarts
         /\ Fault => faults' \in 0..MaxFaults
         /\ UNCHANGED countVars => starts' = starts /\ faults' = faults
<1>1. MaxStarts \in Nat /\ MaxFaults \in Nat
  BY BoundAssumption
<1> QED
  BY <1>1 DEF Typed, Slot, Fault, countVars

\* Manifest and manager.
LEMMA ManifestSteps ==
  ASSUME Base, NEW j \in JobIds, ManifestAnswered(j) \/ ManifestFails(j)
  PROVE  /\ \E q : OpStep(j, q) /\ q.at \in {"done", "lookup", "open"}
         /\ rows' = rows /\ files' = files /\ stale' = stale /\ faults' = faults
         /\ jobs[j].at = "manifest"
<1>0. /\ rows' = rows /\ files' = files /\ stale' = stale /\ abandoned' = abandoned
      /\ starts' = starts /\ faults' = faults
      /\ jobs[j].at = "manifest"
  BY Counts DEF ManifestAnswered, ManifestFails, cacheVars, countVars
<1>1. /\ jobs[j].kind = "city" /\ jobs[j] \in JobRecord /\ jobs[j].city \in Cities
      /\ status \in [Cities -> Statuses] /\ hook \in HookRecord
  BY <1>0 DEF Base, Typed, Shaped, Shape, ItemStages, JobRecord, Fetchers, Keepers
<1>2. hook.active # j
  BY <1>0, BoundAssumption DEF Base, Held, ItemStages
<1>3. ASSUME NEW q, Passes(j, q) PROVE OpStep(j, q)
  BY <1>0, <1>3, PassingSteps DEF Base, Typed
<1>4. ASSUME UNCHANGED hook PROVE HookStep(j, Free)
  BY <1>2, <1>4, FreeIs, HookStands
<1>5. CASE Cancelled(j) /\ Release(j) /\ UNCHANGED <<hook, storeVars, crossed>>
  <2>1. status' = status /\ downloaded' = downloaded
    BY <1>5 DEF storeVars
  <2>2. PICK q : Passes(j, q)
    BY <1>0, <1>1, <1>4, <1>5, <2>1, EndingPasses
  <2> QED
    BY <1>0, <1>3, <2>2 DEF Passes
<1>6. CASE ~Cancelled(j) /\ jobs[j].todo = <<>> /\ Complete(j) /\ UNCHANGED hook
  <2>1. PICK q : Passes(j, q)
    BY <1>0, <1>1, <1>4, <1>6, CompletePasses
  <2> QED
    BY <1>0, <1>3, <2>1 DEF Passes
<1>7. CASE /\ ~Cancelled(j) /\ jobs[j].todo # <<>> /\ UNCHANGED downloaded
           /\ hook.manager = "none" /\ hook' = [hook EXCEPT !.manager = "opening"]
           /\ Goto(j, "open") /\ UNCHANGED crossed
           /\ SetStatus(jobs[j].city, "downloading")
  <2>1. PICK q : /\ Moved(j, q) /\ Kept(q, jobs[j]) /\ Uncut(q, jobs[j]) /\ q.at = "open"
                 /\ q.story = jobs[j].story
    BY <1>7, GoesOn DEF Base, Typed, Stages
  <2>2. /\ hook' \in HookRecord /\ hook'.mounted = hook.mounted
        /\ hook'.cancelled = hook.cancelled /\ hook'.active = hook.active
    BY <1>1, <1>7 DEF HookRecord
  <2>3. HookStep(j, q)
    BY <1>2, <2>1, <2>2 DEF HookStep, Kept, Base, Held
  <2>4. Shape(q)
    BY <1>0, <1>1, <2>1 DEF Shape, ItemStages, Kept, Base, Shaped
  <2>5. /\ status' \in [Cities -> Statuses]
        /\ \A c \in Cities : status'[c] \in Busy => status[c] \in Busy \/ c = jobs[j].city
    BY <1>1, <1>7 DEF SetStatus, Statuses
  <2>6. jobs[j].here /\ ~hook.cancelled
    BY <1>1, <1>7 DEF Cancelled, JobRecord, HookRecord
  <2>7. JobStep(j, q) /\ LoopStep(j, q)
    BY <1>0, <1>1, <1>7, <2>1, <2>3, <2>4, <2>5, <2>6 DEF JobStep, LoopStep, Kept, Uncut
  <2>8. Follows(j, q)
    BY <1>1, <1>7, <2>1 DEF Follows, Kept, Keepers, Fetchers
  <2>9. Rest'
    BY <1>0, <1>7, <2>5 DEF Rest, Base, Typed
  <2> QED
    BY <1>0, <2>1, <2>7, <2>8, <2>9 DEF OpStep
<1>8. CASE /\ ~Cancelled(j) /\ jobs[j].todo # <<>> /\ UNCHANGED downloaded
           /\ hook.manager = "open" /\ TakeItem(j, hook)
           /\ SetStatus(jobs[j].city, "downloading")
  <2>1. /\ status' \in [Cities -> Statuses]
        /\ \A c \in Cities : status'[c] \in Busy => status[c] \in Busy \/ c = jobs[j].city
    BY <1>1, <1>8 DEF SetStatus, Statuses
  <2>2. PICK q : Passes(j, q)
    BY <1>0, <1>1, <1>8, <2>1, TakingPasses
  <2> QED
    BY <1>0, <1>3, <2>2 DEF Passes
<1>9. CASE LoopFails(j)
  <2>1. PICK q : Passes(j, q)
    BY <1>0, <1>1, <1>9, LoopFailsPasses
  <2> QED
    BY <1>0, <1>3, <2>1 DEF Passes
<1> QED
  BY <1>5, <1>6, <1>7, <1>8, <1>9 DEF ManifestAnswered, ManifestFails

\* The cache manager opens or fails: the cache is as it was.
LEMMA ManagerSteps ==
  ASSUME Base, NEW j \in JobIds, ManagerOpens(j) \/ ManagerFails(j)
  PROVE  /\ \E q : OpStep(j, q) /\ q.at \in {"done", "lookup", "open"}
         /\ rows' = rows /\ files' = files /\ stale' = stale
         /\ faults' = faults \/ faults' = faults + 1
         /\ jobs[j].at = "open"
<1>0. /\ rows' = rows /\ files' = files /\ stale' = stale /\ abandoned' = abandoned
      /\ starts' = starts /\ faults' \in 0..MaxFaults
      /\ faults' = faults \/ faults' = faults + 1
      /\ jobs[j].at = "open"
  BY Counts DEF ManagerOpens, ManagerFails, cacheVars, countVars, Fault, Base, Typed
<1>1. /\ jobs[j].kind = "city" /\ jobs[j] \in JobRecord /\ hook \in HookRecord
  BY <1>0 DEF Base, Typed, Shaped, Shape, ItemStages, JobRecord, Fetchers, Keepers
<1>2. hook.active # j
  BY <1>0, BoundAssumption DEF Base, Held, ItemStages
<1>3. ASSUME NEW q, Passes(j, q) PROVE OpStep(j, q)
  BY <1>0, <1>3, PassingSteps DEF Base, Typed
<1>4. CASE ManagerOpens(j)
  <2> DEFINE h == IF jobs[j].here THEN [hook EXCEPT !.manager = "open"] ELSE hook
  <2>1. /\ h \in HookRecord /\ h.mounted = hook.mounted /\ h.cancelled = hook.cancelled
        /\ h.active = hook.active
    BY <1>1 DEF HookRecord
  <2>2. NextItem(j, h)
    BY <1>4 DEF ManagerOpens
  <2> HIDE DEF h
  <2>3. PICK q : Passes(j, q)
    BY <1>0, <1>1, <1>2, <2>1, <2>2, NextItemPasses
  <2> QED
    BY <1>0, <1>3, <2>3 DEF Passes
<1>5. CASE ManagerFails(j)
  <2>1. PICK q : Passes(j, q)
    BY <1>0, <1>1, <1>5, LoopFailsPasses DEF ManagerFails
  <2> QED
    BY <1>0, <1>3, <2>1 DEF Passes
<1> QED
  BY <1>4, <1>5

\* Nothing of the cache changes, and no fault is counted.
Quiet == rows' = rows /\ files' = files /\ stale' = stale /\ faults' = faults

\* A story is asked for: a free slot takes it up, the cache is as it was.
LEMMA FetchSteps ==
  ASSUME Base, NEW j \in JobIds, NEW s \in Stories, Fetch(j, s)
  PROVE  \E q : OpStep(j, q) /\ q.at = "lookup" /\ Quiet /\ jobs[j].at = "done"
<1>1. PICK q : Moved(j, q) /\ q.kind = "fetch" /\ q.at = "lookup" /\ q.story = s /\ ~q.here
  BY Fetches DEF Fetch, Base, Typed
<1>2. /\ rows' = rows /\ files' = files /\ stale' = stale /\ abandoned' = abandoned
      /\ starts' \in 0..MaxStarts /\ faults' = faults /\ hook' = hook /\ status' = status
      /\ downloaded' = downloaded /\ Contest(j, s) /\ jobs[j].kind = "none"
  BY Counts DEF Fetch, cacheVars, storeVars, Slot, Live, Base
<1>3. jobs[j].at = "done" /\ hook.active # j
  BY <1>2, BoundAssumption DEF Base, Shaped, Shape, Held
<1>4. HookStep(j, q)
  BY <1>1, <1>2, <1>3, HookStands
<1>5. Shape(q)
  BY <1>1 DEF Shape, ItemStages
<1>6. crossed \subseteq crossed' /\ crossed' \in SUBSET Stories
  BY <1>2, Contests DEF Base
<1>7. JobStep(j, q) /\ LoopStep(j, q) /\ Follows(j, q)
  BY <1>1, <1>2, <1>4, <1>5, <1>6 DEF JobStep, LoopStep, Follows, Keepers
<1>8. Rest'
  BY <1>2, <1>6 DEF Rest, Base, Typed
<1> QED
  BY <1>1, <1>2, <1>3, <1>7, <1>8 DEF OpStep, Quiet

\* The row of the story is read: the operation knows whether there is one.
LEMMA LookupSteps ==
  ASSUME Base, NEW j \in JobIds, Lookup(j)
  PROVE  \E q : /\ OpStep(j, q) /\ q.at = "check" /\ Kept(q, jobs[j]) /\ Quiet
                /\ q.story = jobs[j].story /\ (q.found <=> jobs[j].story \in rows)
                /\ jobs[j].at = "lookup"
<1>1. PICK q : /\ Moved(j, q) /\ Kept(q, jobs[j]) /\ Uncut(q, jobs[j]) /\ q.at = "check"
               /\ q.story = jobs[j].story /\ (q.found <=> jobs[j].story \in rows)
  BY LooksUp DEF Base, Typed
<1>2. /\ rows' = rows /\ files' = files /\ stale' = stale /\ abandoned' = abandoned
      /\ starts' = starts /\ faults' = faults /\ hook' = hook /\ status' = status
      /\ downloaded' = downloaded /\ crossed' = crossed /\ jobs[j].at = "lookup"
  BY DEF Lookup, cacheVars, storeVars, noteVars, countVars
<1>3. Shape(q)
  BY <1>1, <1>2 DEF Shape, ItemStages, Kept, Base, Shaped
<1>4. Rest'
  BY <1>2 DEF Rest, Base, Typed
<1>5. OpStep(j, q)
  BY <1>1, <1>2, <1>3, <1>4, PlainSteps DEF ItemStages
<1> QED
  BY <1>1, <1>2, <1>5 DEF Quiet

\* The download of an item begins, or the item is over.
LEMMA BeginSteps ==
  ASSUME Base, NEW j \in JobIds, jobs[j].kind \in Fetchers, jobs[j].at \in {"check", "begin"},
         BeginTransfer(j), UNCHANGED <<rows, stale, abandoned, countVars>>
  PROVE  /\ \E q : /\ OpStep(j, q)
                   /\ \/ q.at \in {"done", "lookup"} /\ files' = files
                      \/ q.at = "transfer" /\ Kept(q, jobs[j]) /\ q.story = jobs[j].story
         /\ rows' = rows /\ stale' = stale /\ faults' = faults
         /\ \A s \in Stories \ {jobs[j].story} : files'[s] = files[s]
<1>0. /\ rows' = rows /\ stale' = stale /\ faults' = faults /\ starts' = starts
      /\ abandoned' = abandoned /\ jobs[j].story \in Stories
  BY DEF countVars, Base, Shaped, Shape, ItemStages
<1>1. files' \in [Stories -> FileStates]
      /\ \A s \in Stories \ {jobs[j].story} : files'[s] = files[s]
  BY <1>0 DEF BeginTransfer, FileStates, Base, Typed
<1>2. CASE jobs[j].cut /\ ItemDone(j) /\ UNCHANGED files
  <2>1. PICK q : Passes(j, q)
    BY <1>0, <1>2, ItemDonePasses
  <2>2. OpStep(j, q)
    BY <1>0, <1>1, <2>1, PassingSteps DEF Base, Typed
  <2> QED
    BY <1>0, <1>2, <2>1, <2>2 DEF Passes
<1>3. CASE Goto(j, "transfer") /\ UNCHANGED <<hook, storeVars, crossed>>
  <2>1. PICK q : /\ Moved(j, q) /\ Kept(q, jobs[j]) /\ Uncut(q, jobs[j]) /\ q.at = "transfer"
                 /\ q.story = jobs[j].story
    BY <1>3, GoesOn DEF Base, Typed, Stages
  <2>2. Shape(q)
    BY <2>1 DEF Shape, ItemStages, Kept, Base, Shaped, Fetchers
  <2>3. status' = status /\ downloaded' = downloaded /\ hook' = hook /\ crossed' = crossed
    BY <1>3 DEF storeVars
  <2>4. Rest'
    BY <1>0, <1>1, <2>3 DEF Rest, Base, Typed
  <2>5. OpStep(j, q)
    BY <1>0, <2>1, <2>2, <2>3, <2>4, PlainSteps DEF ItemStages
  <2> QED
    BY <1>0, <1>1, <2>1, <2>5
<1> QED
  BY <1>2, <1>3 DEF BeginTransfer

\* The file is looked at: at most a row without a usable file goes.
LEMMA CheckSteps ==
  ASSUME Base, NEW j \in JobIds, Check(j)
  PROVE  /\ jobs[j].kind \in Fetchers /\ jobs[j].at = "check"
         /\ stale' = stale /\ faults' = faults /\ rows' \subseteq rows
         /\ \E q : /\ OpStep(j, q)
                   /\ \/ /\ ~jobs[j].found /\ q.at \in {"done", "lookup"}
                         /\ rows' = rows /\ files' = files
                      \/ /\ ~jobs[j].found /\ q.at = "transfer" /\ rows' = rows
                         /\ Kept(q, jobs[j]) /\ q.story = jobs[j].story
                      \/ /\ q.at = "touch" /\ rows' = rows /\ files' = files
                         /\ jobs[j].found /\ Present(jobs[j].story)
                      \/ /\ q.at = "begin" /\ Kept(q, jobs[j]) /\ q.story = jobs[j].story
                         /\ rows' = rows \ {jobs[j].story} /\ files' = files
                         /\ ~Present(jobs[j].story)
         /\ \A s \in Stories \ {jobs[j].story} : files'[s] = files[s]
<1>0. /\ jobs[j].at = "check" /\ jobs[j].kind \in Fetchers
      /\ stale' = stale /\ faults' = faults /\ starts' = starts /\ abandoned' = abandoned
      /\ rows \in SUBSET Stories /\ files \in [Stories -> FileStates] /\ IsFiniteSet(rows)
      /\ jobs \in [JobIds -> JobRecord] /\ jobs[j].story \in Stories
  BY DEF Check, countVars, Base, Typed, Shaped, Shape, ItemStages
<1>1. CASE ~jobs[j].found /\ BeginTransfer(j) /\ UNCHANGED rows
  <2>1. UNCHANGED <<rows, stale, abandoned, countVars>>
    BY <1>0, <1>1 DEF countVars
  <2> QED
    BY <1>0, <1>1, <2>1, BeginSteps
<1>2. CASE /\ jobs[j].found /\ Present(jobs[j].story)
           /\ Goto(j, "touch") /\ UNCHANGED <<cacheVars, hook, storeVars, crossed>>
  <2>1. PICK q : /\ Moved(j, q) /\ Kept(q, jobs[j]) /\ Uncut(q, jobs[j]) /\ q.at = "touch"
                 /\ q.story = jobs[j].story
    BY <1>0, <1>2, GoesOn DEF Stages
  <2>2. Shape(q)
    BY <1>0, <2>1 DEF Shape, ItemStages, Kept, Base, Shaped, Fetchers
  <2>3. status' = status /\ downloaded' = downloaded /\ hook' = hook /\ crossed' = crossed
        /\ rows' = rows /\ files' = files
    BY <1>2 DEF storeVars, cacheVars
  <2>4. Rest'
    BY <1>0, <2>3 DEF Rest, Base, Typed
  <2>5. OpStep(j, q)
    BY <1>0, <2>1, <2>2, <2>3, <2>4, PlainSteps DEF ItemStages
  <2> QED
    BY <1>0, <1>2, <2>1, <2>3, <2>5
<1>3. CASE /\ ~Present(jobs[j].story) /\ rows' = rows \ {jobs[j].story} /\ Goto(j, "begin")
           /\ UNCHANGED <<files, hook, storeVars, crossed>>
  <2>1. PICK q : /\ Moved(j, q) /\ Kept(q, jobs[j]) /\ Uncut(q, jobs[j]) /\ q.at = "begin"
                 /\ q.story = jobs[j].story
    BY <1>0, <1>3, GoesOn DEF Stages
  <2>2. Shape(q)
    BY <1>0, <2>1 DEF Shape, ItemStages, Kept, Base, Shaped, Fetchers
  <2>3. status' = status /\ downloaded' = downloaded /\ hook' = hook /\ crossed' = crossed
        /\ files' = files
    BY <1>3 DEF storeVars
  <2>4. rows' \in SUBSET Stories /\ IsFiniteSet(rows')
    BY <1>0, <1>3, FS_Subset
  <2>5. Rest'
    BY <1>0, <2>3, <2>4 DEF Rest, Base, Typed
  <2>6. OpStep(j, q)
    BY <1>0, <2>1, <2>2, <2>3, <2>5, PlainSteps DEF ItemStages
  <2> QED
    BY <1>0, <1>3, <2>1, <2>3, <2>6
<1> QED
  BY <1>1, <1>2, <1>3 DEF Check

\* The last use is written: the cache is as it was.
LEMMA TouchedSteps ==
  ASSUME Base, NEW j \in JobIds, Touched(j)
  PROVE  \E q : OpStep(j, q) /\ q.at \in {"done", "lookup"} /\ Quiet /\ jobs[j].at = "touch"
<1>0. /\ rows' = rows /\ files' = files /\ stale' = stale /\ faults' = faults
      /\ starts' = starts /\ abandoned' = abandoned /\ jobs[j].at = "touch"
      /\ jobs[j].kind \in Fetchers
  BY DEF Touched, cacheVars, countVars, Base, Typed, Shaped, Shape, ItemStages, JobRecord,
         Keepers
<1>1. PICK q : Passes(j, q)
  BY <1>0, ItemDonePasses DEF Touched
<1>2. OpStep(j, q)
  BY <1>0, <1>1, PassingSteps DEF Base, Typed
<1> QED
  BY <1>0, <1>1, <1>2 DEF Passes, Quiet

\* A transfer lands: the story has its row and its whole file.
LEMMA LandSteps ==
  ASSUME Base, NEW j \in JobIds, Land(j)
  PROVE  /\ jobs[j].kind \in Fetchers /\ jobs[j].at = "transfer" /\ jobs[j].story \in Stories
         /\ rows' = rows \cup {jobs[j].story} /\ stale' = stale \ {jobs[j].story}
         /\ faults' = faults /\ files' = [files EXCEPT ![jobs[j].story] = "whole"]
         /\ \E q : OpStep(j, q) /\ q.at = "stats"
<1>0. /\ jobs[j].at = "transfer" /\ faults' = faults /\ starts' = starts
      /\ rows' = rows \cup {jobs[j].story} /\ stale' = stale \ {jobs[j].story}
      /\ files' = [files EXCEPT ![jobs[j].story] = "whole"]
      /\ abandoned' = abandoned /\ status' = status /\ downloaded' = downloaded
      /\ hook' = hook /\ crossed' = crossed
  BY DEF Land, storeVars, countVars
<1>1. jobs[j].kind \in Fetchers /\ jobs[j].story \in Stories
  BY <1>0 DEF Base, Typed, Shaped, Shape, ItemStages, JobRecord, Keepers
<1>2. PICK q : /\ Moved(j, q) /\ Kept(q, jobs[j]) /\ Uncut(q, jobs[j]) /\ q.at = "stats"
               /\ q.story = jobs[j].story
  BY GoesOn DEF Base, Typed, Stages, Land
<1>3. Shape(q)
  BY <1>0, <1>1, <1>2 DEF Shape, ItemStages, Kept, Base, Shaped, Fetchers
<1>4. rows' \in SUBSET Stories /\ IsFiniteSet(rows')
  BY <1>0, <1>1, FS_AddElement DEF Base, Typed
<1>5. Rest'
  BY <1>0, <1>1, <1>4 DEF Rest, Base, Typed, FileStates
<1>6. OpStep(j, q)
  BY <1>0, <1>2, <1>3, <1>5, PlainSteps DEF ItemStages
<1> QED
  BY <1>0, <1>1, <1>2, <1>6

\* Deleting files.
LEMMA Erases ==
  ASSUME Typed, NEW S, Erase(S)
  PROVE  /\ files' \in [Stories -> FileStates]
         /\ \A s \in Stories : files'[s] = IF s \in S THEN "none" ELSE files[s]
  BY DEF Erase, Typed, FileStates

\* A transfer fails: its part file is removed.
LEMMA TransferFailsSteps ==
  ASSUME Base, NEW j \in JobIds, TransferFails(j)
  PROVE  /\ jobs[j].kind \in Fetchers /\ jobs[j].at = "transfer"
         /\ rows' = rows /\ stale' = stale /\ faults' = faults /\ Erase({jobs[j].story})
         /\ \E q : OpStep(j, q) /\ q.at \in {"done", "lookup"}
<1>0. /\ rows' = rows /\ stale' = stale /\ faults' = faults /\ Erase({jobs[j].story})
      /\ starts' = starts /\ abandoned' = abandoned /\ jobs[j].at = "transfer"
      /\ jobs[j].kind \in Fetchers
  BY DEF TransferFails, Discard, countVars, Base, Typed, Shaped, Shape, ItemStages, JobRecord,
         Keepers
<1>1. PICK q : Passes(j, q)
  BY <1>0, ItemDonePasses DEF TransferFails
<1>2. OpStep(j, q)
  BY <1>0, <1>1, Erases, PassingSteps DEF Base, Typed
<1> QED
  BY <1>0, <1>1, <1>2 DEF Passes

\* The sum of the rows is read: the operation ends its story below the limit, or knows the excess.
LEMMA SizeReadSteps ==
  ASSUME Base, NEW j \in JobIds, SizeRead(j)
  PROVE  /\ Quiet /\ jobs[j].at = "stats"
         /\ \E q : /\ OpStep(j, q)
                   /\ \/ q.at \in {"done", "lookup"} /\ Total(rows) <= MaxCache
                      \/ q.at = "list" /\ q.excess = Total(rows) - MaxCache
<1>0. /\ rows' = rows /\ files' = files /\ stale' = stale /\ faults' = faults
      /\ starts' = starts /\ abandoned' = abandoned /\ jobs[j].at = "stats"
      /\ jobs[j].kind \in Fetchers
  BY DEF SizeRead, cacheVars, countVars, Base, Typed, Shaped, Shape, ItemStages, JobRecord,
         Keepers
<1>1. Total(rows) \in Nat /\ MaxCache \in Nat
  BY TotalType, StoryAssumption DEF Base, Typed
<1>2. CASE ~OverLimit(Total(rows)) /\ ItemDone(j)
  <2>1. PICK q : Passes(j, q)
    BY <1>0, <1>2, ItemDonePasses
  <2>2. OpStep(j, q)
    BY <1>0, <2>1, PassingSteps DEF Base, Typed
  <2>3. Total(rows) <= MaxCache
    BY <1>1, <1>2 DEF OverLimit
  <2> QED
    BY <1>0, <2>1, <2>2, <2>3 DEF Passes, Quiet
<1>3. CASE /\ UNCHANGED <<hook, storeVars, crossed>>
           /\ Put(j, [jobs[j] EXCEPT !.at = "list", !.excess = Total(rows) - MaxCache])
  <2>1. PICK q : /\ Moved(j, q) /\ Kept(q, jobs[j]) /\ Uncut(q, jobs[j]) /\ q.at = "list"
                 /\ q.story = jobs[j].story /\ q.excess = Total(rows) - MaxCache
    BY <1>3, Weighs DEF Base
  <2>2. Shape(q)
    BY <1>0, <2>1 DEF Shape, ItemStages, Kept, Base, Shaped, Fetchers
  <2>3. status' = status /\ downloaded' = downloaded /\ hook' = hook /\ crossed' = crossed
    BY <1>3 DEF storeVars
  <2>4. Rest'
    BY <1>0, <2>3 DEF Rest, Base, Typed
  <2>5. OpStep(j, q)
    BY <1>0, <2>1, <2>2, <2>3, <2>4, PlainSteps DEF ItemStages
  <2> QED
    BY <1>0, <2>1, <2>5 DEF Quiet
<1> QED
  BY <1>2, <1>3 DEF SizeRead

\* The rows are listed for the eviction.
LEMMA RowsListedSteps ==
  ASSUME Base, NEW j \in JobIds, RowsListed(j)
  PROVE  /\ Quiet /\ jobs[j].at = "list"
         /\ \E q : OpStep(j, q) /\ q.at = "evict" /\ q.listed = rows /\ q.excess = jobs[j].excess
<1>0. /\ rows' = rows /\ files' = files /\ stale' = stale /\ faults' = faults
      /\ starts' = starts /\ abandoned' = abandoned /\ jobs[j].at = "list"
      /\ hook' = hook /\ status' = status /\ downloaded' = downloaded /\ crossed' = crossed
      /\ jobs[j].kind \in Fetchers
  BY DEF RowsListed, cacheVars, noteVars, storeVars, countVars, Base, Typed, Shaped, Shape,
         ItemStages, JobRecord, Keepers
<1>1. PICK q : /\ Moved(j, q) /\ Kept(q, jobs[j]) /\ Uncut(q, jobs[j]) /\ q.at = "evict"
               /\ Notes(q, jobs[j], rows)
  <2>1. "evict" \in Stages /\ rows \in SUBSET Stories
    BY DEF Stages, Base, Typed
  <2>2. Put(j, [jobs[j] EXCEPT !.at = "evict", !.listed = rows])
    BY DEF RowsListed
  <2> QED
    BY <2>1, <2>2, Lists DEF Base
<1>2. Shape(q)
  BY <1>0, <1>1 DEF Shape, ItemStages, Kept, Base, Shaped, Fetchers, Typed, Notes
<1>3. Rest'
  BY <1>0 DEF Rest, Base, Typed
<1>4. OpStep(j, q)
  BY <1>0, <1>1, <1>2, <1>3, PlainSteps DEF ItemStages, Notes
<1> QED
  BY <1>0, <1>1, <1>4 DEF Quiet, Notes

\* A row and its file are evicted.
LEMMA EvictSteps ==
  ASSUME Base, NEW j \in JobIds, Evict(j)
  PROVE  /\ stale' = stale /\ faults' = faults /\ jobs[j].at = "evict"
         /\ jobs[j].kind \in Fetchers
         /\ \E s, q :
              /\ s \in jobs[j].listed /\ s \in Stories /\ Erase({s}) /\ rows' = rows \ {s}
              /\ OpStep(j, q) /\ q.at = "evict" /\ q.listed = jobs[j].listed \ {s}
              /\ q.excess = jobs[j].excess - Size[s]
<1>0. /\ stale' = stale /\ faults' = faults
      /\ starts' = starts /\ abandoned' = abandoned /\ jobs[j].at = "evict"
      /\ hook' = hook /\ status' = status /\ downloaded' = downloaded /\ crossed' = crossed
      /\ jobs[j].kind \in Fetchers
  BY DEF Evict, noteVars, storeVars, countVars, Base, Typed, Shaped, Shape, ItemStages,
         JobRecord, Keepers
<1>1. PICK s \in jobs[j].listed :
             /\ EvictStory(s)
             /\ Put(j, [jobs[j] EXCEPT !.listed = @ \ {s}, !.excess = @ - Size[s]])
  BY DEF Evict
<1>2. s \in Stories
  BY DEF Base, Typed, JobRecord
<1>3. PICK q : /\ Moved(j, q) /\ Kept(q, jobs[j]) /\ Uncut(q, jobs[j]) /\ q.at = jobs[j].at
               /\ q.story = jobs[j].story /\ q.listed = jobs[j].listed \ {s}
               /\ q.excess = jobs[j].excess - Size[s]
  BY <1>1, <1>2, Drops DEF Base
<1>4. Erase({s}) /\ rows' = rows \ {s}
  BY <1>1 DEF EvictStory
<1>5. IsFiniteSet(q.listed)
  BY <1>0, <1>3, FS_Subset DEF Base, Shaped, Shape
<1>6. Shape(q)
  BY <1>0, <1>3, <1>5 DEF Shape, ItemStages, Kept, Base, Shaped, Fetchers
<1>7. rows' \in SUBSET Stories /\ IsFiniteSet(rows')
  BY <1>4, FS_Subset DEF Base, Typed
<1>8. Rest'
  BY <1>0, <1>4, <1>7, Erases DEF Rest, Base, Typed
<1>9. OpStep(j, q)
  BY <1>0, <1>3, <1>6, <1>8, PlainSteps DEF ItemStages
<1> QED
  BY <1>0, <1>2, <1>3, <1>4, <1>9

\* The eviction ends: the excess is gone, or no row is left.
LEMMA EvictDoneSteps ==
  ASSUME Base, NEW j \in JobIds, EvictDone(j)
  PROVE  /\ Quiet /\ jobs[j].at = "evict" /\ (jobs[j].excess <= 0 \/ jobs[j].listed = {})
         /\ \E q : OpStep(j, q) /\ q.at \in {"done", "lookup"}
<1>0. /\ rows' = rows /\ files' = files /\ stale' = stale /\ faults' = faults
      /\ starts' = starts /\ abandoned' = abandoned /\ jobs[j].at = "evict"
      /\ jobs[j].excess <= 0 \/ jobs[j].listed = {}
      /\ jobs[j].kind \in Fetchers
  BY DEF EvictDone, cacheVars, countVars, Base, Typed, Shaped, Shape, ItemStages, JobRecord,
         Keepers
<1>1. PICK q : Passes(j, q)
  BY <1>0, ItemDonePasses DEF EvictDone
<1>2. OpStep(j, q)
  BY <1>0, <1>1, PassingSteps DEF Base, Typed
<1> QED
  BY <1>0, <1>1, <1>2 DEF Passes, Quiet

\* A statement fails: the story whose row was being written loses its file.
LEMMA StatementFailsSteps ==
  ASSUME Base, NEW j \in JobIds, StatementFails(j)
  PROVE  /\ Fault /\ rows' = rows /\ jobs[j].kind \in Fetchers /\ jobs[j].story \in Stories
         /\ \/ jobs[j].at \in {"lookup", "check"} /\ files' = files /\ stale' = stale
            \/ /\ jobs[j].at \in {"stats", "list", "evict"} /\ Erase({jobs[j].story})
               /\ stale' = stale \cup {jobs[j].story}
         /\ \E q : OpStep(j, q) /\ q.at \in {"done", "lookup"}
<1>0. /\ Fault /\ rows' = rows /\ jobs[j].kind \in Fetchers /\ faults' \in 0..MaxFaults
      /\ starts' = starts /\ abandoned' = abandoned
  BY Counts DEF StatementFails, Base
<1>1. jobs[j].at \in {"lookup", "check", "stats", "list", "evict"} /\ jobs[j].story \in Stories
  BY DEF StatementFails, Base, Shaped, Shape, ItemStages
<1>2. CASE /\ jobs[j].at \in {"lookup", "check"} /\ UNCHANGED <<files, stale>>
           /\ IF jobs[j].kind = "city" THEN LoopFails(j)
              ELSE Release(j) /\ UNCHANGED <<hook, storeVars, crossed>>
  <2>1. \E q : Passes(j, q)
    <3>1. CASE jobs[j].kind = "city"
      BY <1>0, <1>2, <3>1, LoopFailsPasses
    <3>2. CASE jobs[j].kind # "city"
      <4>1. ItemDone(j)
        BY <1>2, <3>2 DEF ItemDone
      <4> QED
        BY <1>0, <4>1, ItemDonePasses
    <3> QED
      BY <3>1, <3>2
  <2>2. PICK q : Passes(j, q)
    BY <2>1
  <2>3. OpStep(j, q)
    BY <1>0, <1>2, <2>2, PassingSteps DEF Base, Typed
  <2> QED
    BY <1>0, <1>1, <1>2, <2>2, <2>3 DEF Passes
<1>3. CASE /\ jobs[j].at \in {"stats", "list", "evict"}
           /\ ItemDone(j) /\ Discard(j) /\ stale' = stale \cup {jobs[j].story}
  <2>1. PICK q : Passes(j, q)
    BY <1>0, <1>3, ItemDonePasses
  <2>2. Erase({jobs[j].story})
    BY <1>3 DEF Discard
  <2>3. stale' \in SUBSET Stories
    BY <1>1, <1>3 DEF Base, Typed
  <2>4. OpStep(j, q)
    BY <1>0, <2>1, <2>2, <2>3, Erases, PassingSteps DEF Base, Typed
  <2> QED
    BY <1>0, <1>1, <1>3, <2>1, <2>2, <2>4 DEF Passes
<1> QED
  BY <1>2, <1>3 DEF StatementFails

\* Removing a city, clearing the cache.
LEMMA RemoveCitySteps ==
  ASSUME Base, NEW j \in JobIds, NEW c \in Cities, RemoveCity(j, c)
  PROVE  Quiet /\ jobs[j].at = "done" /\ \E q : OpStep(j, q) /\ q.at = "select"
<1>1. PICK q : Moved(j, q) /\ q.kind = "remove" /\ q.at = "select" /\ ~q.here
  BY Removes DEF RemoveCity, Base, Typed
<1>2. /\ rows' = rows /\ files' = files /\ stale' = stale /\ abandoned' = abandoned
      /\ starts' \in 0..MaxStarts /\ faults' = faults /\ hook' = hook /\ status' = status
      /\ downloaded' = downloaded /\ CrossAll /\ jobs[j].kind = "none"
  BY Counts DEF RemoveCity, cacheVars, storeVars, Slot, Live, Base
<1>3. jobs[j].at = "done" /\ hook.active # j
  BY <1>2, BoundAssumption DEF Base, Shaped, Shape, Held
<1>4. HookStep(j, q)
  BY <1>1, <1>2, <1>3, HookStands
<1>5. Shape(q)
  BY <1>1 DEF Shape, ItemStages
<1>6. crossed \subseteq crossed' /\ crossed' \in SUBSET Stories
  BY <1>2 DEF CrossAll, Working, Base, Typed, JobRecord
<1>7. JobStep(j, q) /\ LoopStep(j, q) /\ Follows(j, q)
  BY <1>1, <1>2, <1>4, <1>5, <1>6 DEF JobStep, LoopStep, Follows, Fetchers
<1>8. Rest'
  BY <1>2, <1>6 DEF Rest, Base, Typed
<1> QED
  BY <1>1, <1>2, <1>3, <1>7, <1>8 DEF OpStep, Quiet

\* The cache is cleared: no file and no row is left.
LEMMA ClearCacheSteps ==
  ASSUME Base, NEW j \in JobIds, ClearCache(j)
  PROVE  /\ jobs[j].at = "done" /\ Erase(Stories) /\ rows' = {} /\ stale' = stale
         /\ faults' = faults /\ \E q : OpStep(j, q) /\ q.at = "dropAll"
<1>1. PICK q : Moved(j, q) /\ q.kind = "remove" /\ q.at = "dropAll" /\ ~q.here
  BY Clearing DEF ClearCache, Base, Typed
<1>2. /\ rows' = {} /\ Erase(Stories) /\ stale' = stale /\ abandoned' = abandoned
      /\ starts' \in 0..MaxStarts /\ faults' = faults /\ hook' = hook /\ status' = status
      /\ downloaded' = downloaded /\ CrossAll /\ jobs[j].kind = "none"
  BY Counts DEF ClearCache, storeVars, Slot, Live, Base
<1>3. jobs[j].at = "done" /\ hook.active # j
  BY <1>2, BoundAssumption DEF Base, Shaped, Shape, Held
<1>4. HookStep(j, q)
  BY <1>1, <1>2, <1>3, HookStands
<1>5. Shape(q)
  BY <1>1 DEF Shape, ItemStages
<1>6. crossed \subseteq crossed' /\ crossed' \in SUBSET Stories
  BY <1>2 DEF CrossAll, Working, Base, Typed, JobRecord
<1>7. JobStep(j, q) /\ LoopStep(j, q) /\ Follows(j, q)
  BY <1>1, <1>2, <1>4, <1>5, <1>6 DEF JobStep, LoopStep, Follows, Fetchers
<1>8. Rest'
  BY <1>2, <1>6, Erases, FS_EmptySet DEF Rest, Base, Typed
<1> QED
  BY <1>1, <1>2, <1>3, <1>7, <1>8 DEF OpStep

\* The steps of an operation that only deletes, short of its end.
LEMMA KeeperSteps ==
  ASSUME Base, NEW j \in JobIds, NEW q, Moved(j, q), Kept(q, jobs[j]), Uncut(q, jobs[j]),
         Shape(q), q.kind \in Keepers, Rest', UNCHANGED <<hook, crossed, abandoned>>,
         status' = status, downloaded' \subseteq downloaded
  PROVE  OpStep(j, q)
  BY PlainSteps DEF Fetchers, Keepers

\* Its end.
LEMMA KeeperEnds ==
  ASSUME Base, NEW j \in JobIds, jobs[j].kind \in Keepers, Release(j),
         UNCHANGED <<hook, crossed, abandoned, cacheVars, stale, countVars>>,
         downloaded' \subseteq downloaded, status' \in [Cities -> Statuses],
         \A c \in Cities : status'[c] \in Busy => status[c] \in Busy
  PROVE  Quiet /\ \E q : OpStep(j, q) /\ q.at \in {"done", "lookup"}
<1>0. /\ rows' = rows /\ files' = files /\ stale' = stale /\ faults' = faults
      /\ starts' = starts /\ abandoned' = abandoned
  BY DEF cacheVars, countVars
<1>1. jobs[j].kind # "city" /\ hook.active # j
  BY BoundAssumption DEF Base, Held, Keepers
<1>2. HookStep(j, Free)
  BY <1>1, FreeIs, HookStands
<1>3. PICK q : Passes(j, q)
  BY <1>0, <1>1, <1>2, EndingPasses
<1>4. OpStep(j, q)
  BY <1>0, <1>3, PassingSteps DEF Base, Typed
<1> QED
  BY <1>0, <1>3, <1>4 DEF Passes, Quiet

\* The rows of the city to remove are read.
LEMMA CitySelectedSteps ==
  ASSUME Base, NEW j \in JobIds, CitySelected(j)
  PROVE  /\ Quiet /\ jobs[j].at = "select"
         /\ \E q : OpStep(j, q) /\ q.at = "wipe" /\ q.listed = rows \cap StoriesOf(q.city)
<1>0. /\ rows' = rows /\ files' = files /\ stale' = stale /\ faults' = faults
      /\ starts' = starts /\ abandoned' = abandoned /\ jobs[j].at = "select"
      /\ hook' = hook /\ status' = status /\ downloaded' = downloaded /\ crossed' = crossed
      /\ jobs[j].kind = "remove"
  BY DEF CitySelected, cacheVars, noteVars, storeVars, countVars, Base, Typed, Shaped, Shape,
         ItemStages, JobRecord, Keepers, Fetchers
<1> DEFINE l == rows \cap StoriesOf(jobs[j].city)
<1>1. "wipe" \in Stages /\ l \in SUBSET Stories
  BY DEF Stages, Base, Typed
<1>2. Put(j, [jobs[j] EXCEPT !.at = "wipe", !.listed = l])
  BY DEF CitySelected
<1> HIDE DEF l
<1>3. PICK q : /\ Moved(j, q) /\ Kept(q, jobs[j]) /\ Uncut(q, jobs[j]) /\ q.at = "wipe"
               /\ Notes(q, jobs[j], l)
  BY <1>1, <1>2, Lists DEF Base
<1>4. Shape(q)
  BY <1>0, <1>3 DEF Shape, ItemStages, Kept, Base, Shaped
<1>5. Rest'
  BY <1>0 DEF Rest, Base, Typed
<1>6. OpStep(j, q)
  BY <1>0, <1>3, <1>4, <1>5, KeeperSteps DEF Keepers, Kept
<1> QED
  BY <1>0, <1>3, <1>6 DEF Quiet, Kept, Notes, l

\* The files read and the rows of the city go.
LEMMA CityWipedSteps ==
  ASSUME Base, NEW j \in JobIds, CityWiped(j)
  PROVE  /\ jobs[j].at = "wipe" /\ stale' = stale /\ faults' = faults
         /\ Erase(jobs[j].listed) /\ rows' = rows \ StoriesOf(jobs[j].city)
         /\ \E q : OpStep(j, q) /\ q.at = "drop"
<1>0. /\ rows' = rows \ StoriesOf(jobs[j].city) /\ Erase(jobs[j].listed)
      /\ stale' = stale /\ faults' = faults
      /\ starts' = starts /\ abandoned' = abandoned /\ jobs[j].at = "wipe"
      /\ hook' = hook /\ status' = status /\ downloaded' = downloaded /\ crossed' = crossed
      /\ jobs[j].kind = "remove"
  BY DEF CityWiped, noteVars, storeVars, countVars, Base, Typed, Shaped, Shape,
         ItemStages, JobRecord, Keepers, Fetchers
<1>1. PICK q : /\ Moved(j, q) /\ Kept(q, jobs[j]) /\ Uncut(q, jobs[j]) /\ q.at = "drop"
  BY GoesOn DEF Base, Typed, Stages, CityWiped
<1>2. Shape(q)
  BY <1>0, <1>1 DEF Shape, ItemStages, Kept, Base, Shaped
<1>3. rows' \in SUBSET Stories /\ IsFiniteSet(rows')
  BY <1>0, FS_Subset DEF Base, Typed
<1>4. Rest'
  BY <1>0, <1>3, Erases DEF Rest, Base, Typed
<1>5. OpStep(j, q)
  BY <1>0, <1>1, <1>2, <1>4, KeeperSteps DEF Keepers, Kept
<1> QED
  BY <1>0, <1>1, <1>5

\* The packages are dropped from the store: the cache is as it was.
LEMMA DroppedSteps ==
  ASSUME Base, NEW j \in JobIds, CityDropped(j) \/ AllDropped(j)
  PROVE  /\ Quiet /\ jobs[j].at \in {"drop", "dropAll"}
         /\ \E q : OpStep(j, q) /\ q.at \in {"done", "lookup"}
<1>0. /\ Release(j) /\ jobs[j].at \in {"drop", "dropAll"}
      /\ UNCHANGED <<hook, crossed, abandoned, cacheVars, stale, countVars>>
      /\ jobs[j].city \in Cities /\ status \in [Cities -> Statuses]
      /\ "idle" \in Statuses \ Busy
  BY DEF CityDropped, AllDropped, noteVars, Base, Typed, JobRecord, Statuses, Busy
<1>1. jobs[j].kind \in Keepers
  BY <1>0 DEF Base, Typed, Shaped, Shape, ItemStages, JobRecord, Keepers, Fetchers
<1>2. CASE CityDropped(j)
  <2>1. downloaded' \subseteq downloaded /\ SetStatus(jobs[j].city, "idle")
    BY <1>2 DEF CityDropped
  <2>2. /\ status' \in [Cities -> Statuses]
        /\ \A c \in Cities : status'[c] \in Busy => status[c] \in Busy
    BY <1>0, <2>1, Settles
  <2> QED
    BY <1>0, <1>1, <2>1, <2>2, KeeperEnds
<1>3. CASE AllDropped(j)
  <2>1. downloaded' \subseteq downloaded /\ status' = [c \in Cities |-> "idle"]
    BY <1>3 DEF AllDropped
  <2>2. /\ status' \in [Cities -> Statuses]
        /\ \A c \in Cities : status'[c] \in Busy => status[c] \in Busy
    BY <1>0, <2>1
  <2> QED
    BY <1>0, <1>1, <2>1, <2>2, KeeperEnds
<1> QED
  BY <1>2, <1>3

\* The reconciliation.
LEMMA RowsReadSteps ==
  ASSUME Base, NEW j \in JobIds, RowsRead(j) \/ ValidRead(j)
  PROVE  /\ Quiet /\ crossed' = crossed
         /\ \E q : OpStep(j, q) /\ q.at \in {"sweep", "orphans"} /\ q.listed = rows
<1>0. /\ rows' = rows /\ files' = files /\ stale' = stale /\ faults' = faults
      /\ starts' = starts /\ abandoned' = abandoned /\ jobs[j].at \in {"rows", "sweep"}
      /\ hook' = hook /\ status' = status /\ downloaded' = downloaded /\ crossed' = crossed
      /\ jobs[j].kind = "reconcile"
  BY DEF RowsRead, ValidRead, cacheVars, noteVars, storeVars, countVars, Base, Typed, Shaped,
         Shape, ItemStages, JobRecord, Keepers, Fetchers
<1>1. PICK a \in {"sweep", "orphans"} : Put(j, [jobs[j] EXCEPT !.at = a, !.listed = rows])
  BY DEF RowsRead, ValidRead
<1>2. a \in Stages /\ rows \in SUBSET Stories
  BY DEF Stages, Base, Typed
<1>3. PICK q : /\ Moved(j, q) /\ Kept(q, jobs[j]) /\ Uncut(q, jobs[j]) /\ q.at = a
               /\ Notes(q, jobs[j], rows)
  BY <1>1, <1>2, Lists DEF Base
<1>4. Shape(q)
  BY <1>0, <1>3 DEF Shape, ItemStages, Kept, Base, Shaped
<1>5. Rest'
  BY <1>0 DEF Rest, Base, Typed
<1>6. OpStep(j, q)
  BY <1>0, <1>3, <1>4, <1>5, KeeperSteps DEF Keepers, Kept
<1> QED
  BY <1>0, <1>3, <1>6 DEF Quiet, Notes

\* The sweep removes rows without a file.
LEMMA SweepSteps ==
  ASSUME Base, NEW j \in JobIds, Sweep(j)
  PROVE  /\ files' = files /\ stale' = stale /\ faults' = faults /\ rows' \subseteq rows
         /\ \A s \in rows \ rows' : ~Present(s)
         /\ \E q : OpStep(j, q) /\ q.at = "sweep"
<1>0. /\ files' = files /\ stale' = stale /\ faults' = faults
      /\ starts' = starts /\ abandoned' = abandoned /\ jobs[j].at = "sweep"
      /\ hook' = hook /\ status' = status /\ downloaded' = downloaded /\ crossed' = crossed
      /\ jobs[j].kind = "reconcile"
  BY DEF Sweep, noteVars, storeVars, countVars, Base, Typed, Shaped, Shape,
         ItemStages, JobRecord, Keepers, Fetchers
<1>1. PICK s \in jobs[j].listed :
             /\ rows' = IF Present(s) THEN rows ELSE rows \ {s}
             /\ Put(j, [jobs[j] EXCEPT !.listed = @ \ {s}])
  BY DEF Sweep
<1>2. s \in Stories
  BY DEF Base, Typed, JobRecord
<1>3. PICK q : /\ Moved(j, q) /\ Kept(q, jobs[j]) /\ Uncut(q, jobs[j]) /\ q.at = jobs[j].at
  BY <1>1, <1>2, Sweeps DEF Base
<1>4. Shape(q)
  BY <1>0, <1>3 DEF Shape, ItemStages, Kept, Base, Shaped
<1>5. rows' \subseteq rows /\ \A t \in rows \ rows' : ~Present(t)
  BY <1>1
<1>6. rows' \in SUBSET Stories /\ IsFiniteSet(rows')
  BY <1>5, FS_Subset DEF Base, Typed
<1>7. Rest'
  BY <1>0, <1>6 DEF Rest, Base, Typed
<1>8. OpStep(j, q)
  BY <1>0, <1>3, <1>4, <1>7, KeeperSteps DEF Keepers, Kept
<1> QED
  BY <1>0, <1>3, <1>5, <1>8

\* The sweep removes the files without a row.
LEMMA OrphansDeletedSteps ==
  ASSUME Base, NEW j \in JobIds, OrphansDeleted(j)
  PROVE  /\ rows' = rows /\ stale' = stale /\ faults' = faults /\ crossed' = crossed
         /\ jobs[j].at = "orphans" /\ Erase(Stories \ jobs[j].listed)
         /\ \E q : OpStep(j, q) /\ q.at = "cities"
<1>0. /\ rows' = rows /\ Erase(Stories \ jobs[j].listed)
      /\ stale' = stale /\ faults' = faults
      /\ starts' = starts /\ abandoned' = abandoned /\ jobs[j].at = "orphans"
      /\ hook' = hook /\ status' = status /\ downloaded' = downloaded /\ crossed' = crossed
      /\ jobs[j].kind = "reconcile"
  BY DEF OrphansDeleted, noteVars, storeVars, countVars, Base, Typed, Shaped, Shape,
         ItemStages, JobRecord, Keepers, Fetchers
<1>1. "cities" \in Stages /\ downloaded \in SUBSET Cities
  BY DEF Stages, Base, Typed
<1>2. Put(j, [jobs[j] EXCEPT !.at = "cities", !.listed = {}, !.left = downloaded])
  BY DEF OrphansDeleted
<1>3. PICK q : /\ Moved(j, q) /\ Kept(q, jobs[j]) /\ Uncut(q, jobs[j]) /\ q.at = "cities"
  BY <1>1, <1>2, Recounts DEF Base
<1>4. Shape(q)
  BY <1>0, <1>3 DEF Shape, ItemStages, Kept, Base, Shaped
<1>5. Rest'
  BY <1>0, Erases DEF Rest, Base, Typed
<1>6. OpStep(j, q)
  BY <1>0, <1>3, <1>4, <1>5, KeeperSteps DEF Keepers, Kept
<1> QED
  BY <1>0, <1>3, <1>6

\* A city is reconciled: the cache is as it was.
LEMMA CityReconciledSteps ==
  ASSUME Base, NEW j \in JobIds, CityReconciled(j)
  PROVE  /\ Quiet /\ jobs[j].at = "cities"
         /\ \E q : OpStep(j, q) /\ q.at \in {"done", "lookup", "cities"}
<1>0. /\ rows' = rows /\ files' = files /\ stale' = stale /\ faults' = faults
      /\ starts' = starts /\ abandoned' = abandoned /\ jobs[j].at = "cities"
      /\ hook' = hook /\ status' = status /\ crossed' = crossed
      /\ jobs[j].kind = "reconcile" /\ downloaded' \subseteq downloaded
      /\ status \in [Cities -> Statuses] /\ jobs[j] \in JobRecord
  BY DEF CityReconciled, cacheVars, noteVars, countVars, Base, Typed, Shaped,
         Shape, ItemStages, JobRecord, Keepers, Fetchers
<1>1. Rest'
  BY <1>0 DEF Rest, Base, Typed
<1>2. CASE jobs[j].left = {} /\ Release(j)
  <2>1. UNCHANGED <<hook, crossed, abandoned, cacheVars, stale, countVars>>
    BY <1>0 DEF cacheVars, countVars
  <2> QED
    BY <1>0, <1>2, <2>1, KeeperEnds DEF Keepers
<1>3. ASSUME NEW c \in jobs[j].left, Items[c] = <<>>, Put(j, [jobs[j] EXCEPT !.left = @ \ {c}])
      PROVE  \E q : OpStep(j, q) /\ q.at \in {"done", "lookup", "cities"}
  <2>1. c \in Cities
    BY <1>0 DEF JobRecord
  <2>2. PICK q : Moved(j, q) /\ Kept(q, jobs[j]) /\ Uncut(q, jobs[j]) /\ q.at = jobs[j].at
    BY <1>3, <2>1, SkipsCity DEF Base
  <2>3. Shape(q)
    BY <1>0, <2>2 DEF Shape, ItemStages, Kept, Base, Shaped
  <2>4. OpStep(j, q)
    BY <1>0, <1>1, <2>2, <2>3, KeeperSteps DEF Keepers, Kept
  <2> QED
    BY <1>0, <2>2, <2>4
<1>4. ASSUME NEW c \in jobs[j].left, Items[c] # <<>>,
             Put(j, [[jobs[j] EXCEPT !.left = @ \ {c}]
                       EXCEPT !.at = "lookup", !.city = c,
                              !.story = Head(Items[c]), !.todo = Tail(Items[c])])
      PROVE  \E q : OpStep(j, q) /\ q.at \in {"done", "lookup", "cities"}
  <2>1. c \in Cities
    BY <1>0 DEF JobRecord
  <2>2. PICK q : /\ Moved(j, q) /\ q.kind = jobs[j].kind /\ q.here = jobs[j].here
                 /\ q.at = "lookup" /\ q.story \in Stories
    BY <1>4, <2>1, PicksCity DEF Base
  <2>3. Shape(q)
    BY <1>0, <2>2 DEF Shape, ItemStages, Base, Shaped
  <2>4. hook.active # j
    BY <1>0, BoundAssumption DEF Base, Held
  <2>5. HookStep(j, q)
    BY <1>0, <2>2, <2>4, HookStands
  <2>6. JobStep(j, q) /\ LoopStep(j, q) /\ Follows(j, q)
    BY <1>0, <2>2, <2>3, <2>5 DEF JobStep, LoopStep, Follows, Fetchers, Keepers
  <2> QED
    BY <1>1, <2>2, <2>6 DEF OpStep
<1> QED
  BY <1>0, <1>2, <1>3, <1>4 DEF CityReconciled, Quiet

\* The reconciliation removes at most the row of a story it did not find whole.
LEMMA StoryReconciledSteps ==
  ASSUME Base, NEW j \in JobIds, StoryReconciled(j)
  PROVE  /\ files' = files /\ stale' = stale /\ faults' = faults
         /\ jobs[j].at = "check" /\ jobs[j].kind = "reconcile"
         /\ \/ rows' = rows
            \/ rows' = rows \ {jobs[j].story} /\ ~Present(jobs[j].story)
         /\ \E q : OpStep(j, q) /\ q.at \in {"done", "lookup", "cities"}
<1>0. /\ files' = files /\ stale' = stale /\ faults' = faults
      /\ starts' = starts /\ abandoned' = abandoned /\ jobs[j].at = "check"
      /\ hook' = hook /\ status' = status /\ crossed' = crossed
      /\ jobs[j].kind = "reconcile" /\ jobs[j] \in JobRecord
  BY DEF StoryReconciled, noteVars, countVars, Base, Typed
<1>1. downloaded' \subseteq downloaded
  BY DEF StoryReconciled
<1>2. \/ rows' = rows
      \/ rows' = rows \ {jobs[j].story} /\ ~Present(jobs[j].story)
  BY DEF StoryReconciled
<1>3. rows' \in SUBSET Stories /\ IsFiniteSet(rows')
  BY <1>2, FS_Subset DEF Base, Typed
<1>4. Rest'
  BY <1>0, <1>1, <1>3 DEF Rest, Base, Typed
<1>5. CASE Goto(j, "cities")
  <2>1. PICK q : /\ Moved(j, q) /\ Kept(q, jobs[j]) /\ Uncut(q, jobs[j]) /\ q.at = "cities"
    BY <1>5, GoesOn DEF Base, Typed, Stages
  <2>2. Shape(q)
    BY <1>0, <2>1 DEF Shape, ItemStages, Kept, Base, Shaped
  <2>3. OpStep(j, q)
    BY <1>0, <1>1, <1>4, <2>1, <2>2, KeeperSteps DEF Keepers, Kept
  <2> QED
    BY <1>0, <1>2, <2>1, <2>3
<1>6. CASE /\ jobs[j].todo # <<>>
           /\ Put(j, [jobs[j] EXCEPT !.at = "lookup", !.story = Head(jobs[j].todo),
                                     !.todo = Tail(jobs[j].todo)])
  <2>1. PICK q : Moved(j, q) /\ Kept(q, jobs[j]) /\ Uncut(q, jobs[j]) /\ q.at = "lookup"
                 /\ q.story \in Stories
    BY <1>6, NextStory DEF Base
  <2>2. Shape(q)
    BY <1>0, <2>1 DEF Shape, ItemStages, Kept, Base, Shaped
  <2>3. OpStep(j, q)
    BY <1>0, <1>1, <1>4, <2>1, <2>2, KeeperSteps DEF Keepers, Kept
  <2> QED
    BY <1>0, <1>2, <2>1, <2>3
<1> QED
  BY <1>5, <1>6 DEF StoryReconciled

-----------------------------------------------------------------------------
(***************************************************************************)
(* What the screen and the system do.                                      *)
(***************************************************************************)
\* The operations stand where they stood, but for a loop that begins.
Flagged ==
    \A i \in JobIds : \/ SameWork(jobs'[i], jobs[i])
                      \/ /\ jobs[i].at = "done" /\ jobs'[i].kind = "city"
                         /\ jobs'[i].at = "manifest" /\ jobs'[i].story = NoStory

\* Their shape is no other.
LEMMA SameShape ==
  ASSUME NEW q, NEW r, Shape(r), SameWork(q, r), q.here => r.here
  PROVE  Shape(q)
  BY DEF Shape, SameWork, ItemStages

\* A hook that begins its city.
LEMMA Starting ==
  ASSUME Typed, NEW q, q = [Free EXCEPT !.kind = "city", !.at = "manifest", !.here = TRUE,
                                        !.city = hook.city, !.todo = Items[hook.city]]
  PROVE  /\ q \in JobRecord /\ q.kind = "city" /\ q.at = "manifest" /\ q.here
         /\ q.city = hook.city /\ q.story = NoStory /\ ~q.cut /\ ~q.lost
<1> PICK c \in Cities : c = hook.city
  BY DEF Typed, HookRecord
<1> PICK t \in Seq(Stories) : t = Items[c]
  BY StoryAssumption
<1>1. q = [Free EXCEPT !.kind = "city", !.at = "manifest", !.here = TRUE, !.city = c, !.todo = t]
  OBVIOUS
<1>2. Free \in JobRecord /\ "manifest" \in Stages /\ "city" \in Fetchers
      /\ Free.story = NoStory /\ ~Free.cut /\ ~Free.lost
  BY FreeIs DEF Stages, Fetchers, Free
<1>3. q \in JobRecord
  <2>1. PICK k \in Fetchers, a \in Stages, b \in BOOLEAN :
              k = "city" /\ a = "manifest" /\ b = TRUE
    BY <1>2
  <2>2. q = [Free EXCEPT !.kind = k, !.at = a, !.here = b, !.city = c, !.todo = t]
    BY <1>1, <2>1
  <2>3. [Free EXCEPT !.kind = k, !.at = a, !.here = b, !.city = c, !.todo = t] \in JobRecord
    BY <1>2, <2>1, BegunType
  <2> QED
    BY <2>2, <2>3
<1>4. /\ q.kind = "city" /\ q.at = "manifest" /\ q.here = TRUE /\ q.city = c
      /\ q.story = Free.story /\ q.cut = Free.cut /\ q.lost = Free.lost
  BY <1>1, <1>2 DEF JobRecord
<1> QED
  BY <1>2, <1>3, <1>4

\* A download begins.
LEMMA StartDoes ==
  ASSUME Base, NEW j \in JobIds, Start(j)
  PROVE  /\ Base' /\ Flagged /\ Quiet /\ crossed' = crossed /\ downloaded' = downloaded
         /\ LoopInv => LoopInv'
<1> DEFINE q == jobs'[j]
<1>0. /\ rows' = rows /\ files' = files /\ stale' = stale /\ faults' = faults
      /\ starts' \in 0..MaxStarts /\ abandoned' = abandoned /\ crossed' = crossed
      /\ downloaded' = downloaded /\ hook.mounted /\ jobs[j].kind = "none"
      /\ hook' = [hook EXCEPT !.cancelled = FALSE] /\ SetStatus(hook.city, "fetching")
  BY Counts DEF Start, cacheVars, noteVars, Slot, Live, Base
<1>1. jobs[j].at = "done"
  BY <1>0 DEF Base, Shaped, Shape
<1>2. /\ hook' \in HookRecord /\ hook'.mounted /\ ~hook'.cancelled
      /\ hook'.active = hook.active /\ hook.city \in Cities
  BY <1>0 DEF Base, Typed, HookRecord
<1>3. q = [Free EXCEPT !.kind = "city", !.at = "manifest", !.here = TRUE,
                       !.city = hook.city, !.todo = Items[hook.city]]
  BY DEF Start
<1>4. /\ q \in JobRecord /\ q.kind = "city" /\ q.at = "manifest" /\ q.here
      /\ q.city = hook.city /\ q.story = NoStory /\ ~q.cut /\ ~q.lost
  <2> HIDE DEF q
  <2> QED
    BY <1>3, Starting DEF Base
<1>5. ASSUME NEW i \in JobIds, i # j
      PROVE  /\ jobs'[i] \in JobRecord /\ SameWork(jobs'[i], jobs[i])
             /\ jobs'[i].here = jobs[i].here
             /\ jobs[i].here => jobs'[i].hasty
             /\ jobs'[i].cut = jobs[i].cut /\ jobs'[i].lost = jobs[i].lost
  <2> DEFINE r == jobs[i]
  <2>1. r \in JobRecord
    BY DEF Base, Typed
  <2>2. jobs'[i] = [r EXCEPT !.hasty = r.hasty \/ r.here]
    <3>1. jobs'[i] = [r EXCEPT !.hasty = @ \/ r.here]
      BY <1>5 DEF Start
    <3> QED
      BY <2>1, <3>1 DEF JobRecord
  <2> PICK f \in BOOLEAN : f = (r.hasty \/ r.here)
    OBVIOUS
  <2>3. jobs'[i] = [r EXCEPT !.hasty = f]
    BY <2>2
  <2> QED
    BY <2>1, <2>3, Marks
<1>6. jobs' \in [JobIds -> JobRecord]
  <2>1. jobs' = [i \in JobIds |-> jobs'[i]]
    BY DEF Start
  <2>2. \A i \in JobIds : jobs'[i] \in JobRecord
    BY <1>4, <1>5
  <2> QED
    BY <2>1, <2>2
<1> HIDE DEF q
<1>7. /\ status' \in [Cities -> Statuses]
      /\ \A c \in Cities : status'[c] \in Busy => status[c] \in Busy \/ c = hook.city
  BY <1>0, <1>2 DEF SetStatus, Statuses, Base, Typed
<1>8. Typed'
  BY <1>0, <1>2, <1>6, <1>7 DEF Base, Typed
<1>9. Shaped'
  <2>1. ASSUME NEW i \in JobIds PROVE Shape(jobs'[i]) /\ (jobs'[i].kind = "reconcile" => i = 1)
    <3>1. CASE i = j
      BY <1>4, <3>1 DEF Shape, ItemStages, q
    <3>2. CASE i # j
      BY <1>5, <3>2, SameShape DEF Base, Shaped, SameWork
    <3> QED
      BY <3>1, <3>2
  <2> QED
    BY <2>1 DEF Shaped, Shape
<1>10. Held'
  <2>1. hook.active # 0 => hook.active # j /\ hook.active \in JobIds
    BY <1>0 DEF Base, Held, Typed, HookRecord
  <2> QED
    BY <1>2, <1>5, <2>1 DEF Base, Held, SameWork
<1>11. Flagged
  BY <1>1, <1>4, <1>5 DEF Flagged, q
<1>12. ASSUME LoopInv PROVE LoopInv'
  <2>1. Uncancelled'
    BY <1>4, <1>5 DEF Uncancelled, Whole, q
  <2>2. Silent'
    <3>1. ASSUME NEW i \in JobIds, jobs'[i].kind = "city", ~jobs'[i].here
          PROVE  jobs'[i].city \in abandoned
      <4>1. i # j
        BY <1>4, <3>1 DEF q
      <4> QED
        BY <1>5, <1>12, <3>1, <4>1 DEF LoopInv, Silent, SameWork
    <3> QED
      BY <1>0, <1>2, <3>1 DEF Silent
  <2>3. BusyMeansLoop'
    <3> SUFFICES ASSUME NEW c \in Cities, c \notin abandoned, status'[c] \in Busy
                 PROVE  \E i \in JobIds : jobs'[i].kind = "city" /\ jobs'[i].city = c
      BY <1>0 DEF BusyMeansLoop, Busy
    <3>1. CASE c = hook.city
      BY <1>4, <3>1 DEF q
    <3>2. CASE status[c] \in Busy
      <4>1. PICK i \in JobIds : jobs[i].kind = "city" /\ jobs[i].city = c
        BY <1>12, <3>2 DEF LoopInv, BusyMeansLoop, Busy
      <4> QED
        BY <1>0, <1>5, <4>1 DEF SameWork
    <3> QED
      BY <1>7, <3>1, <3>2
  <2> QED
    BY <2>1, <2>2, <2>3 DEF LoopInv
<1> QED
  BY <1>0, <1>8, <1>9, <1>10, <1>11, <1>12 DEF Base, Quiet

\* Whatever marks the operations, and neither moves them nor gives one to a hook.
LEMMA FlagsKeepBase ==
  ASSUME Base, jobs' \in [JobIds -> JobRecord], Rest', hook' \in HookRecord,
         \A i \in JobIds : SameWork(jobs'[i], jobs[i]) /\ (jobs'[i].here => jobs[i].here),
         hook'.active = 0, ~hook'.mounted => \A i \in JobIds : ~jobs'[i].here
  PROVE  Base' /\ Flagged
<1>1. Typed'
  BY DEF Rest, Typed
<1>2. Shaped'
  <2>1. ASSUME NEW i \in JobIds PROVE Shape(jobs'[i]) /\ (jobs'[i].kind = "reconcile" => i = 1)
    BY SameShape DEF Base, Shaped, SameWork
  <2> QED
    BY <2>1 DEF Shaped, Shape
<1>3. Held'
  BY DEF Held
<1> QED
  BY <1>1, <1>2, <1>3 DEF Base, Flagged

\* A download is cancelled.
LEMMA CancelDoes ==
  ASSUME Base, Cancel
  PROVE  /\ Base' /\ Flagged /\ Quiet /\ crossed' = crossed /\ downloaded' = downloaded
         /\ LoopInv => LoopInv'
<1>0. /\ rows' = rows /\ files' = files /\ stale' = stale /\ faults' = faults
      /\ starts' = starts /\ crossed' = crossed
      /\ downloaded' = downloaded /\ hook.mounted /\ jobs' = CutActive
      /\ hook' = [hook EXCEPT !.cancelled = TRUE, !.active = 0] /\ SetStatus(hook.city, "idle")
      /\ abandoned' = abandoned \cup (Running \ {hook.city})
  BY DEF Cancel, cacheVars, noteVars, countVars
<1>1. /\ hook' \in HookRecord /\ hook'.mounted /\ hook'.cancelled
      /\ hook'.active = 0 /\ hook.city \in Cities /\ status \in [Cities -> Statuses]
  <2> PICK e \in JobIds \cup {0} : e = 0
    OBVIOUS
  <2>1. hook' = [hook EXCEPT !.cancelled = TRUE, !.active = e]
    BY <1>0
  <2> QED
    BY <1>0, <2>1 DEF Base, Typed, HookRecord
<1>2. /\ jobs' \in [JobIds -> JobRecord]
      /\ \A i \in JobIds : /\ SameWork(jobs'[i], jobs[i]) /\ jobs'[i].here = jobs[i].here
                           /\ jobs'[i].hasty = jobs[i].hasty
  BY <1>0, Cuts DEF Base
<1>3. "idle" \in Statuses \ Busy
  BY DEF Statuses, Busy
<1>4. /\ status' \in [Cities -> Statuses] /\ status'[hook.city] \notin Busy
      /\ \A d \in Cities : status'[d] \in Busy => status[d] \in Busy
  BY <1>0, <1>1, <1>3, Settles
<1>5. abandoned' \in SUBSET Cities
  BY <1>0 DEF Running, Base, Typed, JobRecord
<1>6. Rest'
  BY <1>0, <1>4, <1>5 DEF Rest, Base, Typed
<1>7. Base' /\ Flagged
  BY <1>1, <1>2, <1>6, FlagsKeepBase
<1>8. ASSUME LoopInv PROVE LoopInv'
  <2>1. Uncancelled'
    BY <1>1 DEF Uncancelled
  <2>2. Silent'
    <3> SUFFICES ASSUME NEW i \in JobIds, jobs'[i].kind = "city"
                 PROVE  /\ ~jobs'[i].here => jobs'[i].city \in abandoned'
                        /\ hook'.cancelled => \/ status'[jobs'[i].city] \notin Busy
                                              \/ jobs'[i].city \in abandoned'
      BY DEF Silent
    <3>1. jobs[i].kind = "city" /\ jobs'[i].city = jobs[i].city /\ jobs'[i].here = jobs[i].here
      BY <1>2 DEF SameWork
    <3>2. jobs[i].here => jobs[i].city \in Running
      BY DEF Running
    <3>3. ~jobs[i].here => jobs[i].city \in abandoned
      BY <1>8, <3>1 DEF LoopInv, Silent
    <3> QED
      BY <1>0, <1>4, <3>1, <3>2, <3>3
  <2>3. BusyMeansLoop'
    <3> SUFFICES ASSUME NEW c \in Cities, c \notin abandoned, status'[c] \in Busy
                 PROVE  \E i \in JobIds : jobs'[i].kind = "city" /\ jobs'[i].city = c
      BY <1>0 DEF BusyMeansLoop, Busy
    <3>1. PICK i \in JobIds : jobs[i].kind = "city" /\ jobs[i].city = c
      BY <1>4, <1>8 DEF LoopInv, BusyMeansLoop, Busy
    <3> QED
      BY <1>2, <3>1 DEF SameWork
  <2> QED
    BY <2>1, <2>2, <2>3 DEF LoopInv
<1> QED
  BY <1>0, <1>7, <1>8 DEF Quiet

\* The screen turns to another city.
LEMMA SwitchDoes ==
  ASSUME Base, NEW c \in Cities, Switch(c)
  PROVE  /\ Base' /\ Flagged /\ Quiet /\ crossed' = crossed /\ downloaded' = downloaded
         /\ LoopInv => LoopInv'
<1>0. /\ rows' = rows /\ files' = files /\ stale' = stale /\ faults' = faults
      /\ starts' = starts /\ crossed' = crossed /\ abandoned' = abandoned
      /\ downloaded' = downloaded /\ status' = status /\ hook.mounted
      /\ hook' = [hook EXCEPT !.cancelled = FALSE, !.active = 0, !.city = c]
  BY DEF Switch, cacheVars, storeVars, noteVars, countVars
<1>1. hook' \in HookRecord /\ hook'.mounted /\ ~hook'.cancelled /\ hook'.active = 0
  <2> PICK e \in JobIds \cup {0} : e = 0
    OBVIOUS
  <2>1. hook' = [hook EXCEPT !.cancelled = FALSE, !.active = e, !.city = c]
    BY <1>0
  <2> QED
    BY <1>0, <2>1 DEF Base, Typed, HookRecord
<1>2. ASSUME NEW i \in JobIds
      PROVE  /\ jobs'[i] \in JobRecord /\ SameWork(jobs'[i], jobs[i])
             /\ jobs'[i].here = jobs[i].here
             /\ jobs[i].here => jobs'[i].hasty
  <2> DEFINE r == CutActive[i]
  <2>1. r \in JobRecord /\ SameWork(r, jobs[i]) /\ r.here = jobs[i].here
    BY Cuts DEF Base
  <2>2. jobs'[i] = [r EXCEPT !.hasty = r.hasty \/ jobs[i].here]
    <3>1. jobs'[i] = [r EXCEPT !.hasty = @ \/ jobs[i].here]
      BY DEF Switch
    <3> HIDE DEF r
    <3> QED
      BY <2>1, <3>1 DEF JobRecord
  <2> HIDE DEF r
  <2> PICK f \in BOOLEAN : f = (r.hasty \/ jobs[i].here)
    OBVIOUS
  <2>3. jobs'[i] = [r EXCEPT !.hasty = f]
    BY <2>2
  <2>4. /\ jobs'[i] \in JobRecord /\ SameWork(jobs'[i], r) /\ jobs'[i].here = r.here
        /\ jobs'[i].hasty = f
    BY <2>1, <2>3, Marks
  <2> QED
    BY <2>1, <2>4 DEF SameWork
<1>3. jobs' \in [JobIds -> JobRecord]
  <2>1. jobs' = [i \in JobIds |-> jobs'[i]]
    BY DEF Switch
  <2> QED
    BY <1>2, <2>1
<1>4. Rest'
  BY <1>0 DEF Rest, Base, Typed
<1>5. Base' /\ Flagged
  BY <1>1, <1>2, <1>3, <1>4, FlagsKeepBase
<1>6. ASSUME LoopInv PROVE LoopInv'
  <2>1. Uncancelled'
    BY <1>2 DEF Uncancelled
  <2>2. Silent'
    BY <1>0, <1>1, <1>2, <1>6 DEF LoopInv, Silent, SameWork
  <2>3. BusyMeansLoop'
    <3> SUFFICES ASSUME NEW d \in Cities, d \notin abandoned, status[d] \in Busy
                 PROVE  \E i \in JobIds : jobs'[i].kind = "city" /\ jobs'[i].city = d
      BY <1>0 DEF BusyMeansLoop, Busy
    <3>1. PICK i \in JobIds : jobs[i].kind = "city" /\ jobs[i].city = d
      BY <1>6 DEF LoopInv, BusyMeansLoop, Busy
    <3> QED
      BY <1>2, <3>1 DEF SameWork
  <2> QED
    BY <2>1, <2>2, <2>3 DEF LoopInv
<1> QED
  BY <1>0, <1>5, <1>6 DEF Quiet

\* The screen opens.
LEMMA MountDoes ==
  ASSUME Base, NEW c \in Cities, Mount(c)
  PROVE  /\ Base' /\ Flagged /\ Quiet /\ crossed' = crossed /\ downloaded' = downloaded
         /\ LoopInv => LoopInv'
<1>0. /\ rows' = rows /\ files' = files /\ stale' = stale /\ faults' = faults
      /\ starts' = starts /\ crossed' = crossed /\ abandoned' = abandoned
      /\ downloaded' = downloaded /\ status' = status /\ jobs' = jobs /\ ~hook.mounted
      /\ hook' = [NoHook EXCEPT !.mounted = TRUE, !.city = c]
  BY DEF Mount, cacheVars, storeVars, noteVars, countVars
<1>1. hook' \in HookRecord /\ hook'.mounted /\ ~hook'.cancelled /\ hook'.active = 0
  BY <1>0, NoHookIs DEF HookRecord
<1>2. \A i \in JobIds : SameWork(jobs'[i], jobs[i]) /\ (jobs'[i].here => jobs[i].here)
  BY <1>0 DEF SameWork
<1>3. Rest'
  BY <1>0 DEF Rest, Base, Typed
<1>4. Base' /\ Flagged
  BY <1>0, <1>1, <1>2, <1>3, FlagsKeepBase DEF Base, Typed
<1>5. ASSUME LoopInv PROVE LoopInv'
  <2>1. \A i \in JobIds : ~jobs'[i].here
    BY <1>0 DEF Base, Held
  <2>2. Uncancelled' /\ Silent'
    BY <1>0, <1>1, <1>5, <2>1 DEF Uncancelled, LoopInv, Silent
  <2>3. BusyMeansLoop'
    BY <1>0, <1>5 DEF LoopInv, BusyMeansLoop
  <2> QED
    BY <2>2, <2>3 DEF LoopInv
<1> QED
  BY <1>0, <1>4, <1>5 DEF Quiet

\* The screen closes.
LEMMA UnmountDoes ==
  ASSUME Base, Unmount
  PROVE  /\ Base' /\ Flagged /\ Quiet /\ crossed' = crossed /\ downloaded' = downloaded
         /\ LoopInv => LoopInv'
<1>0. /\ rows' = rows /\ files' = files /\ stale' = stale /\ faults' = faults
      /\ starts' = starts /\ crossed' = crossed /\ abandoned' = abandoned \cup Running
      /\ downloaded' = downloaded /\ status' = status /\ hook' = NoHook
  BY DEF Unmount, cacheVars, storeVars, noteVars, countVars
<1>1. hook' \in HookRecord /\ ~hook'.mounted /\ ~hook'.cancelled /\ hook'.active = 0
  BY <1>0, NoHookIs
<1>2. ASSUME NEW i \in JobIds
      PROVE  jobs'[i] \in JobRecord /\ SameWork(jobs'[i], jobs[i]) /\ ~jobs'[i].here
  <2> DEFINE r == CutActive[i]
  <2>1. r \in JobRecord /\ SameWork(r, jobs[i])
    BY Cuts DEF Base
  <2>2. jobs'[i] = [r EXCEPT !.here = FALSE]
    BY DEF Unmount
  <2> HIDE DEF r
  <2>3. jobs'[i] \in JobRecord /\ SameWork(jobs'[i], r) /\ ~jobs'[i].here
    BY <2>1, <2>2, Leaves
  <2> QED
    BY <2>1, <2>3 DEF SameWork
<1>3. jobs' \in [JobIds -> JobRecord]
  <2>1. jobs' = [i \in JobIds |-> jobs'[i]]
    BY DEF Unmount
  <2> QED
    BY <1>2, <2>1
<1>4. abandoned' \in SUBSET Cities
  BY <1>0 DEF Running, Base, Typed, JobRecord
<1>5. Rest'
  BY <1>0, <1>4 DEF Rest, Base, Typed
<1>6. Base' /\ Flagged
  BY <1>1, <1>2, <1>3, <1>5, FlagsKeepBase
<1>7. ASSUME LoopInv PROVE LoopInv'
  <2>1. Uncancelled'
    BY <1>2 DEF Uncancelled
  <2>2. Silent'
    <3> SUFFICES ASSUME NEW i \in JobIds, jobs'[i].kind = "city"
                 PROVE  jobs'[i].city \in abandoned'
      BY <1>1 DEF Silent
    <3>1. jobs[i].kind = "city" /\ jobs'[i].city = jobs[i].city
      BY <1>2 DEF SameWork
    <3>2. jobs[i].here => jobs[i].city \in Running
      BY DEF Running
    <3>3. ~jobs[i].here => jobs[i].city \in abandoned
      BY <1>7, <3>1 DEF LoopInv, Silent
    <3> QED
      BY <1>0, <3>1, <3>2, <3>3
  <2>3. BusyMeansLoop'
    <3> SUFFICES ASSUME NEW d \in Cities, d \notin abandoned, status[d] \in Busy
                 PROVE  \E i \in JobIds : jobs'[i].kind = "city" /\ jobs'[i].city = d
      BY <1>0 DEF BusyMeansLoop, Busy
    <3>1. PICK i \in JobIds : jobs[i].kind = "city" /\ jobs[i].city = d
      BY <1>7 DEF LoopInv, BusyMeansLoop, Busy
    <3> QED
      BY <1>2, <3>1 DEF SameWork
  <2> QED
    BY <2>1, <2>2, <2>3 DEF LoopInv
<1> QED
  BY <1>0, <1>6, <1>7 DEF Quiet

\* The system takes a file away; the process dies.
LEMMA PurgeDoes ==
  ASSUME Base, NEW s \in Stories, Purge(s)
  PROVE  /\ Base' /\ rows' = rows /\ jobs' = jobs /\ crossed' = crossed /\ Erase({s})
         /\ stale' = stale \cup {s} /\ Fault /\ downloaded' = downloaded
         /\ LoopInv => LoopInv'
<1>0. /\ rows' = rows /\ stale' = stale \cup {s} /\ Erase({s}) /\ Fault
      /\ starts' = starts /\ crossed' = crossed /\ abandoned' = abandoned
      /\ downloaded' = downloaded /\ status' = status /\ hook' = hook /\ jobs' = jobs
      /\ faults' \in 0..MaxFaults
  BY Counts DEF Purge, storeVars, Base
<1>1. files' \in [Stories -> FileStates]
  BY <1>0, Erases DEF Base
<1>2. Typed'
  BY <1>0, <1>1 DEF Base, Typed
<1>3. Shaped' /\ Held'
  BY <1>0 DEF Base, Shaped, Held, Shape
<1>4. ASSUME LoopInv PROVE LoopInv'
  BY <1>0, <1>4 DEF LoopInv, Uncancelled, Silent, BusyMeansLoop, Whole
<1> QED
  BY <1>0, <1>2, <1>3, <1>4 DEF Base

\* The app is killed: what is on the disk stays, the reconciliation of the next start waits.
LEMMA KillDoes ==
  ASSUME Base, Kill
  PROVE  /\ Base' /\ rows' = rows /\ files' = files /\ jobs' = Booting /\ crossed' = crossed
         /\ stale' = stale /\ Fault /\ downloaded' = downloaded
         /\ LoopInv'
<1>0. /\ rows' = rows /\ files' = files /\ stale' = stale /\ Fault
      /\ starts' = starts /\ crossed' = crossed /\ abandoned' = {}
      /\ downloaded' = downloaded /\ status' = [c \in Cities |-> "idle"]
      /\ hook' = NoHook /\ jobs' = Booting /\ faults' \in 0..MaxFaults
  BY Counts DEF Kill, cacheVars, noteVars, Base
<1>1. status' \in [Cities -> Statuses]
  BY <1>0 DEF Statuses
<1>2. Typed'
  BY <1>0, <1>1, Boots, NoHookIs DEF Base, Typed
<1>3. Shaped'
  <2>1. ASSUME NEW i \in JobIds PROVE Shape(jobs'[i]) /\ (jobs'[i].kind = "reconcile" => i = 1)
    BY <1>0, Boots DEF Shape, ItemStages
  <2> QED
    BY <2>1 DEF Shaped, Shape
<1>4. Held'
  BY <1>0, Boots, NoHookIs DEF Held
<1>5. LoopInv'
  <2>1. Uncancelled' /\ Silent'
    BY <1>0, Boots DEF Uncancelled, Silent
  <2>2. BusyMeansLoop'
    BY <1>0 DEF BusyMeansLoop
  <2> QED
    BY <2>1, <2>2 DEF LoopInv
<1> QED
  BY <1>0, <1>2, <1>3, <1>4, <1>5 DEF Base

-----------------------------------------------------------------------------
(***************************************************************************)
(* Rows, files and operations.                                             *)
(***************************************************************************)
Recon == {"rows", "sweep", "orphans"}

\* Someone sees to the file of story s, and still does.
Seen(s) == \E i \in JobIds : \/ jobs[i].at = "transfer" /\ jobs[i].story = s
                             \/ jobs[i].at \in Recon

\* An orphan some sweep will see is still seen after the step of an operation
\* that does not write it.
LEMMA SeenStays ==
  ASSUME NEW j \in JobIds, NEW q, OpStep(j, q), NEW s, Seen(s),
         ~(jobs[j].at = "transfer" /\ jobs[j].story = s),
         jobs[j].at \in Recon => q.at \in Recon
  PROVE  Seen(s)'
  BY DEF Seen, OpStep, JobStep, Moved

\* At most points an operation knows nothing.
LEMMA KnowsNothing ==
  ASSUME NEW q, q.at \notin {"check", "begin", "transfer", "wipe", "orphans"}, NEW R, NEW F, NEW C
  PROVE  Fits(q, R, F, C)
  BY DEF Fits, Rowless

\* What has to be shown of a step of one operation.
LEMMA CacheSteps ==
  ASSUME Base, Base', CacheInv, NEW j \in JobIds, NEW q, OpStep(j, q),
         NEW W, Tame(W), W \subseteq Working(j), Fits(q, rows', files', crossed'),
         RowFiles', \A s \in Stories \ (rows' \cup crossed') : Present(s)' => Seen(s)'
  PROVE  CacheInv'
<1>1. Apart'
  BY StepsKeepApart DEF OpStep, CacheInv
<1>2. FitAll'
  BY StepsKeepFit DEF OpStep, CacheInv, Base
<1>3. NoOrphans'
  BY DEF NoOrphans, Seen, Recon
<1> QED
  BY <1>1, <1>2, <1>3 DEF CacheInv

\* Most steps leave the rows and the files alone.
LEMMA QuietSteps ==
  ASSUME Base, Base', CacheInv, NEW j \in JobIds, NEW q, OpStep(j, q),
         rows' = rows, files' = files, stale' = stale, Fits(q, rows, files, crossed'),
         jobs[j].at # "transfer", jobs[j].at \in Recon => q.at \in Recon
  PROVE  CacheInv'
<1>1. crossed \subseteq crossed'
  BY DEF OpStep, Follows
<1>2. Tame({}) /\ {} \subseteq Working(j)
  BY <1>1 DEF Tame
<1>3. RowFiles'
  BY <1>1 DEF CacheInv, RowFiles
<1>4. ASSUME NEW s \in Stories \ (rows' \cup crossed'), Present(s)' PROVE Seen(s)'
  <2>1. Present(s) /\ s \in Stories \ (rows \cup crossed)
    BY <1>1, <1>4 DEF Present
  <2>2. Seen(s)
    BY <2>1 DEF CacheInv, NoOrphans, Seen, Recon
  <2> QED
    BY <2>2, SeenStays
<1> QED
  BY <1>2, <1>3, <1>4, CacheSteps

\* Whoever waits without a row has none, but for the crossed stories.
LEMMA NoRow ==
  ASSUME Base, CacheInv, NEW j \in JobIds, Rowless(jobs[j]), jobs[j].story \notin crossed
  PROVE  jobs[j].story \notin rows
  BY DEF CacheInv, FitAll, Fits

\* A download begins.
LEMMA TransferKeeps ==
  ASSUME Base, Base', CacheInv, NEW j \in JobIds, NEW q, OpStep(j, q), Rowless(jobs[j]),
         jobs[j].kind \in Fetchers, jobs[j].at \in {"check", "begin"},
         q.at = "transfer", q.story = jobs[j].story, rows' = rows, stale' = stale,
         \A s \in Stories \ {jobs[j].story} : files'[s] = files[s]
  PROVE  CacheInv'
<1> DEFINE t == jobs[j].story
<1>0. t \in Stories /\ crossed \subseteq crossed' /\ rows \subseteq Stories
  BY DEF Base, Typed, Shaped, Shape, ItemStages, OpStep, Follows
<1>1. t \in rows => t \in crossed
  BY NoRow
<1>2. Tame({t})
  BY <1>0 DEF Tame
<1>3. {t} \subseteq Working(j)
  BY <1>0, StoryAssumption DEF Working
<1>4. Fits(q, rows', files', crossed')
  BY <1>0, <1>1 DEF Fits, Rowless
<1>5. RowFiles'
  BY <1>0, <1>1 DEF CacheInv, RowFiles
<1>6. ASSUME NEW s \in Stories \ (rows' \cup crossed'), Present(s)' PROVE Seen(s)'
  <2>1. CASE s = t
    BY <2>1 DEF Seen, OpStep, JobStep, Moved
  <2>2. CASE s # t
    <3>1. Present(s) /\ s \in Stories \ (rows \cup crossed)
      BY <1>0, <1>6, <2>2 DEF Present
    <3>2. Seen(s)
      BY <3>1 DEF CacheInv, NoOrphans, Seen, Recon
    <3> QED
      BY <3>2, SeenStays DEF Recon
  <2> QED
    BY <2>1, <2>2
<1> QED
  BY <1>2, <1>3, <1>4, <1>5, <1>6, CacheSteps

\* Rows go, and with them the files; S is what goes with its file, or whose
\* file is gone or crossed.
LEMMA GoingKeeps ==
  ASSUME Base, Base', CacheInv, NEW j \in JobIds, NEW q, OpStep(j, q),
         q.at \notin {"check", "transfer", "wipe", "orphans"},
         q.at = "begin" => q.story \notin rows',
         rows' \subseteq rows, stale \subseteq stale',
         \A s \in Stories : files'[s] = files[s] \/ files'[s] = "none",
         \A s \in rows \ rows' : s \in crossed' \/ files'[s] = "none",
         \A s \in rows' \ crossed' : files'[s] = files[s] \/ s \in stale',
         \A s \in Stories \ (rows' \cup crossed') : files'[s] # "none" => Seen(s)'
  PROVE  CacheInv'
<1>0. crossed \subseteq crossed' /\ rows \subseteq Stories
  BY DEF OpStep, Follows, Base, Typed
<1>1. Tame({}) /\ {} \subseteq Working(j)
  BY <1>0 DEF Tame
<1>2. Fits(q, rows', files', crossed')
  BY DEF Fits, Rowless
<1>3. RowFiles'
  <2> SUFFICES ASSUME NEW s \in rows' \ crossed'
               PROVE  files'[s] = "whole" \/ (files'[s] = "none" /\ s \in stale')
    BY DEF RowFiles
  <2>1. files[s] = "whole" \/ (files[s] = "none" /\ s \in stale)
    BY <1>0 DEF CacheInv, RowFiles
  <2> QED
    BY <1>0, <2>1
<1> QED
  BY <1>1, <1>2, <1>3, CacheSteps DEF Present

\* A file that is still there was there, and has been seen to.
LEMMA StillSeen ==
  ASSUME Base, CacheInv, NEW j \in JobIds, NEW q, OpStep(j, q),
         NEW s \in Stories \ (rows \cup crossed), files[s] # "none",
         ~(jobs[j].at = "transfer" /\ jobs[j].story = s),
         jobs[j].at \in Recon => q.at \in Recon
  PROVE  Seen(s)'
<1>1. Seen(s)
  BY DEF CacheInv, NoOrphans, Seen, Recon, Present
<1> QED
  BY <1>1, SeenStays

-----------------------------------------------------------------------------
(***************************************************************************)
(* The limit.                                                              *)
(***************************************************************************)
\* The cache does not grow when no row is added.
LEMMA TotalFalls ==
  ASSUME Base, Base', rows' \subseteq rows
  PROVE  Total(rows') \in Nat /\ Total(rows) \in Nat /\ Total(rows') <= Total(rows)
<1>1. /\ rows \in SUBSET Stories /\ IsFiniteSet(rows) /\ rows' \in SUBSET Stories
      /\ IsFiniteSet(rows')
  BY DEF Base, Typed
<1>2. Total(rows') \in Nat /\ Total(rows) \in Nat
  BY <1>1, TotalType
<1>3. \A U \in SUBSET rows : Total(U) <= Total(rows)
  BY <1>1, TotalGrows
<1>4. Total(rows') <= Total(rows)
  <2> PICK U \in SUBSET rows : U = rows'
    OBVIOUS
  <2> QED
    BY <1>3
<1> QED
  BY <1>2, <1>4

\* An eviction of another operation, or none, is as far as it was.
LEMMA OthersInHand ==
  ASSUME Base, Base', rows' \subseteq rows, NEW i \in JobIds,
         jobs'[i].at = jobs[i].at, jobs'[i].listed = jobs[i].listed,
         jobs'[i].excess = jobs[i].excess
  PROVE  /\ Light => Light'
         /\ Asks(i) \/ Knows(i) \/ Clears(i) => (Asks(i) \/ Knows(i) \/ Clears(i))'
<1>1. /\ Total(rows') \in Nat /\ Total(rows) \in Nat /\ Total(rows') <= Total(rows)
      /\ MaxCache \in Nat /\ jobs[i].excess \in Int
  BY TotalFalls, StoryAssumption DEF Base, Typed, JobRecord
<1>2. Light => Light'
  BY <1>1 DEF Light
<1>3. Asks(i) => Asks(i)'
  BY DEF Asks
<1>4. Knows(i) => Knows(i)'
  BY <1>1 DEF Knows
<1>5. Clears(i) => Clears(i)'
  BY DEF Clears
<1> QED
  BY <1>2, <1>3, <1>4, <1>5

\* Only an operation at its own eviction can bring another case about.
LEMMA InHandStays ==
  ASSUME Base, Base', InHand, NEW j \in JobIds, NEW q, OpStep(j, q),
         rows' \subseteq rows, faults' = faults,
         jobs[j].at \notin {"stats", "list", "evict"}
  PROVE  InHand'
<1> SUFFICES ASSUME faults = 0
             PROVE  Light' \/ \E i \in JobIds : (Asks(i) \/ Knows(i) \/ Clears(i))'
  BY DEF InHand
<1>1. CASE Light
  BY <1>1, TotalFalls, StoryAssumption DEF Light
<1>2. ASSUME NEW i \in JobIds, Asks(i) \/ Knows(i) \/ Clears(i)
      PROVE  (Asks(i) \/ Knows(i) \/ Clears(i))'
  <2>1. i # j
    BY <1>2 DEF Asks, Knows, Clears
  <2>2. jobs'[i] = jobs[i]
    BY <2>1 DEF OpStep, JobStep, Moved
  <2> QED
    BY <1>2, <2>2, OthersInHand
<1> QED
  BY <1>1, <1>2 DEF InHand

\* The same while an eviction goes on, if it comes to one of the cases.
LEMMA InHandGoes ==
  ASSUME Base, Base', InHand, NEW j \in JobIds, NEW q, OpStep(j, q),
         rows' \subseteq rows, faults' = faults,
         Asks(j) \/ Knows(j) \/ Clears(j) => Light' \/ (Asks(j) \/ Knows(j) \/ Clears(j))'
  PROVE  InHand'
<1> SUFFICES ASSUME faults = 0
             PROVE  Light' \/ \E i \in JobIds : (Asks(i) \/ Knows(i) \/ Clears(i))'
  BY DEF InHand
<1>1. CASE Light
  BY <1>1, TotalFalls, StoryAssumption DEF Light
<1>2. ASSUME NEW i \in JobIds, Asks(i) \/ Knows(i) \/ Clears(i), i # j
      PROVE  (Asks(i) \/ Knows(i) \/ Clears(i))'
  <2>1. jobs'[i] = jobs[i]
    BY <1>2 DEF OpStep, JobStep, Moved
  <2> QED
    BY <1>2, <2>1, OthersInHand
<1> QED
  BY <1>1, <1>2 DEF InHand

\* After a fault nothing is said of the limit.
LEMMA FaultExcuses ==
  ASSUME Base, Fault
  PROVE  InHand'
<1>1. faults' # 0
  BY BoundAssumption DEF Fault, Base, Typed
<1> QED
  BY <1>1 DEF InHand

-----------------------------------------------------------------------------
(***************************************************************************)
(* Each step of an operation keeps all of it.                              *)
(***************************************************************************)
Sound(j, q) == /\ OpStep(j, q) /\ Base'
               /\ CacheInv => CacheInv'
               /\ InHand => InHand'

\* A step of the kind OpStep describes keeps the types.
LEMMA OpKeepsBase == ASSUME Base, NEW j \in JobIds, NEW q, OpStep(j, q) PROVE Base'
  BY StepsKeepBase DEF OpStep

\* The many steps that leave rows and files alone and learn nothing of them.
LEMMA QuietSound ==
  ASSUME Base, NEW j \in JobIds, NEW q, OpStep(j, q), Quiet,
         jobs[j].at \notin {"transfer", "stats", "list", "evict", "rows", "sweep", "orphans"},
         q.at \notin {"check", "begin", "transfer", "wipe", "orphans"}
  PROVE  Sound(j, q)
<1>1. Base'
  BY OpKeepsBase
<1>2. ASSUME CacheInv PROVE CacheInv'
  BY <1>1, <1>2, QuietSteps, KnowsNothing DEF Quiet, Recon
<1>3. ASSUME InHand PROVE InHand'
  BY <1>1, <1>3, InHandStays DEF Quiet
<1> QED
  BY <1>1, <1>2, <1>3 DEF Sound

\* The cache stays sound while a row is read.
LEMMA LookupKeeps ==
  ASSUME Base, NEW j \in JobIds, Lookup(j)
  PROVE  \E q : Sound(j, q)
<1>1. PICK q : /\ OpStep(j, q) /\ q.at = "check" /\ Kept(q, jobs[j]) /\ Quiet
               /\ q.story = jobs[j].story /\ (q.found <=> jobs[j].story \in rows)
               /\ jobs[j].at = "lookup"
  BY LookupSteps
<1>2. Base'
  BY <1>1, OpKeepsBase
<1>3. ASSUME CacheInv PROVE CacheInv'
  <2>1. Fits(q, rows, files, crossed')
    <3>1. crossed \subseteq crossed'
      BY <1>1 DEF OpStep, Follows
    <3>2. q.found /\ q.story \notin crossed' => files[q.story] # "part"
      BY <1>1, <1>3, <3>1 DEF CacheInv, RowFiles
    <3> QED
      BY <1>1, <3>2 DEF Fits, Rowless
  <2> QED
    BY <1>1, <1>2, <1>3, <2>1, QuietSteps DEF Quiet, Recon
<1>4. ASSUME InHand PROVE InHand'
  BY <1>1, <1>2, <1>4, InHandStays DEF Quiet
<1> QED
  BY <1>1, <1>2, <1>3, <1>4 DEF Sound

\* A download begins, after the check or after the removal of the row.
LEMMA BeginsSound ==
  ASSUME Base, NEW j \in JobIds, NEW q, OpStep(j, q), jobs[j].kind \in Fetchers,
         jobs[j].at \in {"check", "begin"}, Rowless(jobs[j]),
         rows' = rows, stale' = stale, faults' = faults,
         \A s \in Stories \ {jobs[j].story} : files'[s] = files[s],
         \/ q.at \in {"done", "lookup"} /\ files' = files
         \/ q.at = "transfer" /\ q.story = jobs[j].story
  PROVE  Sound(j, q)
<1>1. Base'
  BY OpKeepsBase
<1>2. CASE q.at \in {"done", "lookup"} /\ files' = files
  BY <1>2, QuietSound DEF Quiet
<1>3. CASE q.at = "transfer" /\ q.story = jobs[j].story
  <2>1. ASSUME CacheInv PROVE CacheInv'
    BY <1>1, <1>3, <2>1, TransferKeeps
  <2>2. ASSUME InHand PROVE InHand'
    BY <1>1, <2>2, InHandStays
  <2> QED
    BY <1>1, <1>3, <2>1, <2>2 DEF Sound
<1> QED
  BY <1>2, <1>3

\* The cache stays sound while a file is looked at.
LEMMA CheckKeeps ==
  ASSUME Base, NEW j \in JobIds, Check(j)
  PROVE  \E q : Sound(j, q)
<1>0. /\ jobs[j].kind \in Fetchers /\ jobs[j].at = "check"
      /\ stale' = stale /\ faults' = faults /\ rows' \subseteq rows
      /\ \A s \in Stories \ {jobs[j].story} : files'[s] = files[s]
  BY CheckSteps
<1>1. PICK q : /\ OpStep(j, q)
               /\ \/ /\ ~jobs[j].found /\ q.at \in {"done", "lookup"}
                     /\ rows' = rows /\ files' = files
                  \/ /\ ~jobs[j].found /\ q.at = "transfer" /\ rows' = rows
                     /\ Kept(q, jobs[j]) /\ q.story = jobs[j].story
                  \/ /\ q.at = "touch" /\ rows' = rows /\ files' = files
                     /\ jobs[j].found /\ Present(jobs[j].story)
                  \/ /\ q.at = "begin" /\ Kept(q, jobs[j]) /\ q.story = jobs[j].story
                     /\ rows' = rows \ {jobs[j].story} /\ files' = files
                     /\ ~Present(jobs[j].story)
  BY CheckSteps
<1>2. Base'
  BY <1>1, OpKeepsBase
<1>3. CASE ~jobs[j].found /\ rows' = rows /\ q.at \in {"done", "lookup"} /\ files' = files
  <2>1. Rowless(jobs[j])
    BY <1>0, <1>3 DEF Rowless
  <2> QED
    BY <1>0, <1>1, <1>3, <2>1, BeginsSound
<1>4. CASE ~jobs[j].found /\ rows' = rows /\ q.at = "transfer" /\ q.story = jobs[j].story
  <2>1. Rowless(jobs[j])
    BY <1>0, <1>4 DEF Rowless
  <2> QED
    BY <1>0, <1>1, <1>4, <2>1, BeginsSound
<1>5. CASE /\ q.at = "touch" /\ rows' = rows /\ files' = files
           /\ jobs[j].found /\ Present(jobs[j].story)
  <2>1. ASSUME CacheInv PROVE CacheInv'
    BY <1>0, <1>1, <1>2, <1>5, <2>1, QuietSteps, KnowsNothing DEF Recon
  <2>2. ASSUME InHand PROVE InHand'
    BY <1>0, <1>1, <1>2, <2>2, InHandStays
  <2> QED
    BY <1>0, <1>1, <1>2, <1>5, <2>1, <2>2 DEF Sound
<1>6. CASE /\ q.at = "begin" /\ q.story = jobs[j].story
           /\ rows' = rows \ {jobs[j].story} /\ files' = files
           /\ ~Present(jobs[j].story)
  <2>1. ASSUME CacheInv PROVE CacheInv'
    <3>1. crossed \subseteq crossed'
      BY <1>1 DEF OpStep, Follows
    <3>2. ASSUME NEW s \in Stories \ (rows' \cup crossed'), files'[s] # "none" PROVE Seen(s)'
      <4>1. s \in Stories \ (rows \cup crossed) /\ files[s] # "none"
        BY <1>6, <3>1, <3>2 DEF Present
      <4> QED
        BY <1>0, <1>1, <2>1, <4>1, StillSeen DEF Recon
    <3>3. \A s \in rows \ rows' : files'[s] = "none"
      BY <1>6 DEF Present
    <3> QED
      BY <1>0, <1>1, <1>2, <1>6, <2>1, <3>2, <3>3, GoingKeeps
  <2>2. ASSUME InHand PROVE InHand'
    BY <1>0, <1>1, <1>2, <2>2, InHandStays
  <2> QED
    BY <1>1, <1>2, <1>6, <2>1, <2>2 DEF Sound
<1> QED
  BY <1>1, <1>3, <1>4, <1>5, <1>6

\* The cache stays sound when a transfer begins.
LEMMA BeginKeeps ==
  ASSUME Base, NEW j \in JobIds, Begin(j)
  PROVE  \E q : Sound(j, q)
<1>0. jobs[j].at = "begin" /\ BeginTransfer(j) /\ UNCHANGED <<rows, stale, abandoned, countVars>>
  BY DEF Begin
<1>1. jobs[j].kind \in Fetchers /\ Rowless(jobs[j])
  BY <1>0 DEF Rowless, Base, Typed, Shaped, Shape, ItemStages, JobRecord, Keepers
<1>2. PICK q : /\ OpStep(j, q)
               /\ \/ q.at \in {"done", "lookup"} /\ files' = files
                  \/ q.at = "transfer" /\ Kept(q, jobs[j]) /\ q.story = jobs[j].story
  BY <1>0, <1>1, BeginSteps
<1>3. /\ rows' = rows /\ stale' = stale /\ faults' = faults
      /\ \A s \in Stories \ {jobs[j].story} : files'[s] = files[s]
  BY <1>0, <1>1, BeginSteps
<1> QED
  BY <1>0, <1>1, <1>2, <1>3, BeginsSound

\* The cache stays sound when a transfer lands: the operation now answers for the limit.
LEMMA LandKeeps ==
  ASSUME Base, NEW j \in JobIds, Land(j)
  PROVE  \E q : Sound(j, q)
<1> DEFINE t == jobs[j].story
<1>0. /\ jobs[j].kind \in Fetchers /\ jobs[j].at = "transfer" /\ t \in Stories
      /\ rows' = rows \cup {t} /\ stale' = stale \ {t}
      /\ faults' = faults /\ files' = [files EXCEPT ![t] = "whole"]
      /\ files \in [Stories -> FileStates] /\ rows \subseteq Stories
  BY LandSteps DEF Base, Typed
<1>1. PICK q : OpStep(j, q) /\ q.at = "stats"
  BY LandSteps
<1>2. Base' /\ crossed \subseteq crossed'
  BY <1>1, OpKeepsBase DEF OpStep, Follows
<1>3. ASSUME CacheInv PROVE CacheInv'
  <2>1. Tame({t})
    BY <1>0, <1>2 DEF Tame
  <2>2. {t} \subseteq Working(j)
    BY <1>0, StoryAssumption DEF Working
  <2>3. RowFiles'
    BY <1>0, <1>2, <1>3 DEF CacheInv, RowFiles
  <2>4. ASSUME NEW s \in Stories \ (rows' \cup crossed'), Present(s)' PROVE Seen(s)'
    <3>1. s # t /\ s \in Stories \ (rows \cup crossed) /\ files[s] # "none"
      BY <1>0, <1>2, <2>4 DEF Present
    <3> QED
      BY <1>0, <1>1, <1>3, <3>1, StillSeen DEF Recon
  <2> HIDE DEF t
  <2> QED
    BY <1>1, <1>2, <1>3, <2>1, <2>2, <2>3, <2>4, KnowsNothing, CacheSteps
<1>4. InHand'
  BY <1>1 DEF InHand, Asks, OpStep, JobStep, Moved
<1> QED
  BY <1>1, <1>2, <1>3, <1>4 DEF Sound

\* The cache stays sound when a transfer fails.
LEMMA TransferFailsKeeps ==
  ASSUME Base, NEW j \in JobIds, TransferFails(j)
  PROVE  \E q : Sound(j, q)
<1> DEFINE t == jobs[j].story
<1>0. /\ jobs[j].kind \in Fetchers /\ jobs[j].at = "transfer"
      /\ rows' = rows /\ stale' = stale /\ faults' = faults
      /\ \A s \in Stories : files'[s] = IF s = t THEN "none" ELSE files[s]
  <2>1. Erase({t}) /\ Typed
    BY TransferFailsSteps DEF Base
  <2>2. \A s \in Stories : files'[s] = IF s \in {t} THEN "none" ELSE files[s]
    BY <2>1, Erases
  <2> QED
    BY <2>2, TransferFailsSteps
<1>1. PICK q : OpStep(j, q) /\ q.at \in {"done", "lookup"}
  BY TransferFailsSteps
<1>2. Base' /\ crossed \subseteq crossed' /\ rows \subseteq Stories
  BY <1>1, OpKeepsBase DEF OpStep, Follows, Base, Typed
<1>3. ASSUME CacheInv PROVE CacheInv'
  <2>1. t \in rows => t \in crossed
    BY <1>0, <1>3, NoRow DEF Rowless
  <2>2. ASSUME NEW s \in Stories \ (rows' \cup crossed'), files'[s] # "none" PROVE Seen(s)'
    <3>1. s # t /\ s \in Stories \ (rows \cup crossed) /\ files[s] # "none"
      BY <1>0, <1>2, <2>2
    <3> QED
      BY <1>0, <1>1, <1>3, <3>1, StillSeen DEF Recon
  <2>3. \A s \in rows' \ crossed' : files'[s] = files[s]
    BY <1>0, <1>2, <2>1
  <2>4. \A s \in Stories : files'[s] = files[s] \/ files'[s] = "none"
    BY <1>0
  <2> QED
    BY <1>0, <1>1, <1>2, <1>3, <2>2, <2>3, <2>4, GoingKeeps
<1>4. ASSUME InHand PROVE InHand'
  BY <1>0, <1>1, <1>2, <1>4, InHandStays
<1> QED
  BY <1>0, <1>1, <1>2, <1>3, <1>4 DEF Sound

\* The limit: an operation that reads a sum within it need not evict.
LEMMA SizeReadKeeps ==
  ASSUME Base, NEW j \in JobIds, SizeRead(j)
  PROVE  \E q : Sound(j, q)
<1>0. Quiet /\ jobs[j].at = "stats"
  BY SizeReadSteps
<1>1. PICK q : /\ OpStep(j, q)
               /\ \/ q.at \in {"done", "lookup"} /\ Total(rows) <= MaxCache
                  \/ q.at = "list" /\ q.excess = Total(rows) - MaxCache
  BY SizeReadSteps
<1>2. Base'
  BY <1>1, OpKeepsBase
<1>3. ASSUME CacheInv PROVE CacheInv'
  BY <1>0, <1>1, <1>2, <1>3, QuietSteps, KnowsNothing DEF Quiet, Recon
<1>4. ASSUME InHand PROVE InHand'
  <2>1. Total(rows) \in Nat /\ MaxCache \in Nat /\ rows' = rows
    BY <1>0, TotalType, StoryAssumption DEF Base, Typed, Quiet
  <2>2. CASE Total(rows) <= MaxCache
    BY <2>1, <2>2 DEF InHand, Light
  <2>3. CASE q.at = "list" /\ q.excess = Total(rows) - MaxCache
    <3>1. jobs'[j] = q
      BY <1>1 DEF OpStep, JobStep, Moved
    <3>2. Total(rows') <= MaxCache + q.excess
      BY <2>1, <2>3
    <3>3. Knows(j)'
      BY <2>3, <3>1, <3>2 DEF Knows
    <3> QED
      BY <3>3 DEF InHand
  <2> QED
    BY <1>1, <2>2, <2>3
<1> QED
  BY <1>0, <1>1, <1>2, <1>3, <1>4 DEF Sound

\* The limit: the list and the excess an eviction goes by are those of the cache.
LEMMA RowsListedKeeps ==
  ASSUME Base, NEW j \in JobIds, RowsListed(j)
  PROVE  \E q : Sound(j, q)
<1>0. Quiet /\ jobs[j].at = "list"
  BY RowsListedSteps
<1>1. PICK q : OpStep(j, q) /\ q.at = "evict" /\ q.listed = rows /\ q.excess = jobs[j].excess
  BY RowsListedSteps
<1>2. Base'
  BY <1>1, OpKeepsBase
<1>3. ASSUME CacheInv PROVE CacheInv'
  BY <1>0, <1>1, <1>2, <1>3, QuietSteps, KnowsNothing DEF Quiet, Recon
<1>4. ASSUME InHand PROVE InHand'
  <2>1. jobs'[j] = q /\ rows' = rows /\ faults' = faults
    BY <1>0, <1>1 DEF OpStep, JobStep, Moved, Quiet
  <2>2. Asks(j) \/ Knows(j) \/ Clears(j) => Total(rows) <= MaxCache + jobs[j].excess
    BY <1>0 DEF Asks, Knows, Clears
  <2>3. jobs'[j].listed = rows /\ jobs'[j].at = "evict" /\ jobs'[j].excess = jobs[j].excess
    BY <1>1, <2>1
  <2>4. Total(jobs'[j].listed) = Total(rows)
    BY <2>3
  <2>5. Asks(j) \/ Knows(j) \/ Clears(j) => Clears(j)'
    BY <2>1, <2>2, <2>3, <2>4 DEF Clears
  <2> QED
    BY <1>1, <1>2, <1>4, <2>1, <2>5, InHandGoes
<1> QED
  BY <1>0, <1>1, <1>2, <1>3, <1>4 DEF Sound

\* The limit: each evicted row lowers the sum by what it lowers the excess.
LEMMA EvictKeeps ==
  ASSUME Base, NEW j \in JobIds, Evict(j)
  PROVE  \E q : Sound(j, q)
<1>0. /\ stale' = stale /\ faults' = faults /\ jobs[j].at = "evict"
      /\ jobs[j].kind \in Fetchers
  BY EvictSteps
<1>1. PICK s, q :
              /\ s \in jobs[j].listed /\ s \in Stories /\ Erase({s}) /\ rows' = rows \ {s}
              /\ OpStep(j, q) /\ q.at = "evict" /\ q.listed = jobs[j].listed \ {s}
              /\ q.excess = jobs[j].excess - Size[s]
  BY EvictSteps
<1>2. /\ Base' /\ crossed \subseteq crossed' /\ rows \subseteq Stories
      /\ \A u \in Stories : files'[u] = IF u = s THEN "none" ELSE files[u]
  BY <1>1, OpKeepsBase, Erases DEF OpStep, Follows, Base, Typed
<1>3. ASSUME CacheInv PROVE CacheInv'
  <2>1. ASSUME NEW u \in Stories \ (rows' \cup crossed'), files'[u] # "none" PROVE Seen(u)'
    <3>1. u # s /\ u \in Stories \ (rows \cup crossed) /\ files[u] # "none"
      BY <1>1, <1>2, <2>1
    <3> QED
      BY <1>0, <1>1, <1>3, <3>1, StillSeen DEF Recon
  <2>2. /\ \A u \in rows \ rows' : files'[u] = "none"
        /\ \A u \in rows' \ crossed' : files'[u] = files[u]
        /\ \A u \in Stories : files'[u] = files[u] \/ files'[u] = "none"
        /\ rows' \subseteq rows
    BY <1>1, <1>2
  <2> QED
    BY <1>0, <1>1, <1>2, <1>3, <2>1, <2>2, GoingKeeps
<1>4. ASSUME InHand PROVE InHand'
  <2>1. jobs'[j] = q /\ rows' \subseteq rows
    BY <1>1 DEF OpStep, JobStep, Moved
  <2>2. ASSUME Asks(j) \/ Knows(j) \/ Clears(j) PROVE Clears(j)'
    <3>1. Clears(j)
      BY <1>0, <2>2 DEF Asks, Knows, Clears
    <3> DEFINE l == jobs[j].listed
    <3>2. l \in SUBSET Stories /\ IsFiniteSet(l) /\ jobs[j].excess \in Int
      BY <1>0 DEF Base, Typed, JobRecord, Shaped, Shape
    <3>3. Total(l) = Size[s] + Total(l \ {s})
      BY <1>1, <3>2, TotalLess
    <3>4. l \ {s} \in SUBSET Stories /\ IsFiniteSet(l \ {s})
      BY <3>2, FS_Subset
    <3>5. Total(l \ {s}) \in Nat /\ Size[s] \in Nat /\ MaxCache \in Nat
      BY <1>1, <3>4, TotalType, StoryAssumption
    <3>6. Total(l) <= MaxCache + jobs[j].excess
      BY <3>1 DEF Clears
    <3>7. Total(l \ {s}) <= MaxCache + (jobs[j].excess - Size[s])
      <4> PICK n \in Nat : n = Total(l \ {s})
        BY <3>5
      <4>1. Size[s] + n <= MaxCache + jobs[j].excess
        BY <3>3, <3>6
      <4>2. n <= MaxCache + (jobs[j].excess - Size[s])
        BY <3>2, <3>5, <4>1
      <4> QED
        BY <4>2
    <3>8. rows' \subseteq l \ {s}
      BY <1>1, <3>1 DEF Clears
    <3>9. /\ jobs'[j].at = "evict" /\ jobs'[j].listed = l \ {s}
          /\ jobs'[j].excess = jobs[j].excess - Size[s]
      BY <1>1, <2>1
    <3> HIDE DEF l
    <3>10. Total(jobs'[j].listed) = Total(l \ {s})
      BY <3>9
    <3> QED
      BY <3>7, <3>8, <3>9, <3>10 DEF Clears
  <2> QED
    BY <1>0, <1>1, <1>2, <1>4, <2>1, <2>2, InHandGoes
<1> QED
  BY <1>0, <1>1, <1>2, <1>3, <1>4 DEF Sound

\* The limit: when the excess is gone the rows fit; an empty list means an empty cache.
LEMMA EvictDoneKeeps ==
  ASSUME Base, NEW j \in JobIds, EvictDone(j)
  PROVE  \E q : Sound(j, q)
<1>0. Quiet /\ jobs[j].at = "evict" /\ (jobs[j].excess <= 0 \/ jobs[j].listed = {})
  BY EvictDoneSteps
<1>1. PICK q : OpStep(j, q) /\ q.at \in {"done", "lookup"}
  BY EvictDoneSteps
<1>2. Base'
  BY <1>1, OpKeepsBase
<1>3. ASSUME CacheInv PROVE CacheInv'
  BY <1>0, <1>1, <1>2, <1>3, QuietSteps, KnowsNothing DEF Quiet, Recon
<1>4. ASSUME InHand PROVE InHand'
  <2>1. rows' = rows /\ faults' = faults /\ MaxCache \in Nat
    BY <1>0, StoryAssumption DEF Quiet
  <2>2. ASSUME Asks(j) \/ Knows(j) \/ Clears(j) PROVE Light
    <3>1. Clears(j)
      BY <1>0, <2>2 DEF Asks, Knows, Clears
    <3> DEFINE l == jobs[j].listed
    <3>2. l \in SUBSET Stories /\ IsFiniteSet(l) /\ jobs[j].excess \in Int
      BY <1>0 DEF Base, Typed, JobRecord, Shaped, Shape
    <3>3. Total(l) \in Nat /\ Total(l) <= MaxCache + jobs[j].excess
      BY <3>1, <3>2, TotalType DEF Clears
    <3>4. Total(rows) \in Nat /\ Total(rows) <= Total(l)
      <4>1. \A U \in SUBSET l : Total(U) <= Total(l)
        BY <3>2, TotalGrows
      <4>2. rows \in SUBSET l
        BY <3>1 DEF Clears
      <4>3. Total(rows) <= Total(l)
        <5> HIDE DEF l
        <5> PICK U \in SUBSET l : U = rows
          BY <4>2
        <5> QED
          BY <4>1
      <4> QED
        BY <4>3, TotalType DEF Base, Typed
    <3>5. CASE jobs[j].excess <= 0
      <4> HIDE DEF l
      <4> QED
        BY <2>1, <3>2, <3>3, <3>4, <3>5 DEF Light
    <3>6. CASE l = {}
      <4>1. rows = {}
        BY <3>1, <3>6 DEF Clears
      <4>2. Total({}) = 0
        BY <3>2, TotalUnfolds
      <4>3. Total(rows) = 0
        BY <4>1, <4>2
      <4> QED
        BY <2>1, <4>3 DEF Light
    <3> QED
      BY <1>0, <3>5, <3>6
  <2>3. Light => Light'
    BY <2>1 DEF Light
  <2> QED
    BY <1>1, <1>2, <1>4, <2>1, <2>2, <2>3, InHandGoes
<1> QED
  BY <1>0, <1>1, <1>2, <1>3, <1>4 DEF Sound

\* The cache stays sound when a statement fails.
LEMMA StatementFailsKeeps ==
  ASSUME Base, NEW j \in JobIds, StatementFails(j)
  PROVE  \E q : Sound(j, q)
<1> DEFINE t == jobs[j].story
<1>0. Fault /\ rows' = rows /\ jobs[j].kind \in Fetchers /\ t \in Stories
  BY StatementFailsSteps
<1>1. PICK q : OpStep(j, q) /\ q.at \in {"done", "lookup"}
  BY StatementFailsSteps
<1>2. Base' /\ crossed \subseteq crossed' /\ rows \subseteq Stories
  BY <1>1, OpKeepsBase DEF OpStep, Follows, Base, Typed
<1>3. ASSUME CacheInv PROVE CacheInv'
  <2>1. CASE jobs[j].at \in {"lookup", "check"} /\ files' = files /\ stale' = stale
    BY <1>0, <1>1, <1>2, <1>3, <2>1, QuietSteps, KnowsNothing DEF Recon
  <2>2. CASE /\ jobs[j].at \in {"stats", "list", "evict"} /\ Erase({t})
             /\ stale' = stale \cup {t}
    <3>1. \A s \in Stories : files'[s] = IF s \in {t} THEN "none" ELSE files[s]
      BY <2>2, Erases DEF Base
    <3>2. ASSUME NEW s \in Stories \ (rows' \cup crossed'), files'[s] # "none" PROVE Seen(s)'
      <4>1. s # t /\ s \in Stories \ (rows \cup crossed) /\ files[s] # "none"
        BY <1>0, <1>2, <3>1, <3>2
      <4> QED
        BY <1>1, <1>3, <2>2, <4>1, StillSeen DEF Recon
    <3>3. /\ \A s \in rows' \ crossed' : files'[s] = files[s] \/ s \in stale'
          /\ \A s \in Stories : files'[s] = files[s] \/ files'[s] = "none"
          /\ stale \subseteq stale' /\ rows' \subseteq rows
      BY <1>0, <1>2, <2>2, <3>1
    <3>4. \A s \in rows \ rows' : s \in crossed' \/ files'[s] = "none"
      BY <1>0
    <3> QED
      BY <1>1, <1>2, <1>3, <3>2, <3>3, <3>4, GoingKeeps
  <2> QED
    BY <2>1, <2>2, StatementFailsSteps
<1>4. InHand'
  BY <1>0, FaultExcuses
<1> QED
  BY <1>1, <1>2, <1>3, <1>4 DEF Sound

\* The cache stays sound when it is cleared.
LEMMA ClearCacheKeeps ==
  ASSUME Base, NEW j \in JobIds, ClearCache(j)
  PROVE  \E q : Sound(j, q)
<1>0. jobs[j].at = "done" /\ Erase(Stories) /\ rows' = {} /\ stale' = stale /\ faults' = faults
  BY ClearCacheSteps
<1>1. PICK q : OpStep(j, q) /\ q.at = "dropAll"
  BY ClearCacheSteps
<1>2. Base' /\ rows \subseteq Stories /\ \A s \in Stories : files'[s] = "none"
  BY <1>0, <1>1, OpKeepsBase, Erases DEF Base, Typed
<1>3. ASSUME CacheInv PROVE CacheInv'
  BY <1>0, <1>1, <1>2, <1>3, GoingKeeps
<1>4. ASSUME InHand PROVE InHand'
  BY <1>0, <1>1, <1>2, <1>4, InHandStays
<1> QED
  BY <1>1, <1>2, <1>3, <1>4 DEF Sound

\* The cache stays sound while the rows of a city are read.
LEMMA CitySelectedKeeps ==
  ASSUME Base, NEW j \in JobIds, CitySelected(j)
  PROVE  \E q : Sound(j, q)
<1>0. Quiet /\ jobs[j].at = "select"
  BY CitySelectedSteps
<1>1. PICK q : OpStep(j, q) /\ q.at = "wipe" /\ q.listed = rows \cap StoriesOf(q.city)
  BY CitySelectedSteps
<1>2. Base'
  BY <1>1, OpKeepsBase
<1>3. ASSUME CacheInv PROVE CacheInv'
  <2>1. Fits(q, rows, files, crossed')
    BY <1>1 DEF Fits, Rowless
  <2> QED
    BY <1>0, <1>1, <1>2, <1>3, <2>1, QuietSteps DEF Quiet, Recon
<1>4. ASSUME InHand PROVE InHand'
  BY <1>0, <1>1, <1>2, <1>4, InHandStays DEF Quiet
<1> QED
  BY <1>1, <1>2, <1>3, <1>4 DEF Sound

\* The cache stays sound when a city is removed.
LEMMA CityWipedKeeps ==
  ASSUME Base, NEW j \in JobIds, CityWiped(j)
  PROVE  \E q : Sound(j, q)
<1> DEFINE l == jobs[j].listed
           S == StoriesOf(jobs[j].city)
<1>0. jobs[j].at = "wipe" /\ stale' = stale /\ faults' = faults /\ Erase(l) /\ rows' = rows \ S
  BY CityWipedSteps
<1>1. PICK q : OpStep(j, q) /\ q.at = "drop"
  BY CityWipedSteps
<1>2. Base' /\ crossed \subseteq crossed' /\ rows \subseteq Stories
  BY <1>1, OpKeepsBase DEF OpStep, Follows, Base, Typed
<1>3. \A s \in Stories : files'[s] = IF s \in l THEN "none" ELSE files[s]
  BY <1>0, Erases DEF Base
<1>4. ASSUME CacheInv PROVE CacheInv'
  <2>1. l \subseteq S /\ rows \cap S \subseteq l \cup crossed
    BY <1>0, <1>4 DEF CacheInv, FitAll, Fits
  <2> HIDE DEF l, S
  <2>2. ASSUME NEW s \in Stories \ (rows' \cup crossed'), files'[s] # "none" PROVE Seen(s)'
    <3>1. s \in Stories \ (rows \cup crossed) /\ files[s] # "none"
      BY <1>0, <1>2, <1>3, <2>1, <2>2
    <3> QED
      BY <1>0, <1>1, <1>4, <3>1, StillSeen DEF Recon
  <2>3. \A s \in rows \ rows' : s \in crossed' \/ files'[s] = "none"
    BY <1>0, <1>2, <1>3, <2>1
  <2>4. \A s \in rows' \ crossed' : files'[s] = files[s]
    BY <1>0, <1>2, <1>3, <2>1
  <2>5. \A s \in Stories : files'[s] = files[s] \/ files'[s] = "none"
    BY <1>3
  <2> QED
    BY <1>0, <1>1, <1>2, <1>4, <2>2, <2>3, <2>4, <2>5, GoingKeeps
<1>5. ASSUME InHand PROVE InHand'
  BY <1>0, <1>1, <1>2, <1>5, InHandStays
<1> QED
  BY <1>1, <1>2, <1>4, <1>5 DEF Sound

\* The cache stays sound while the sweep reads the rows.
LEMMA RowsReadKeeps ==
  ASSUME Base, NEW j \in JobIds, RowsRead(j) \/ ValidRead(j)
  PROVE  \E q : Sound(j, q)
<1>0. Quiet /\ jobs[j].at \in {"rows", "sweep"}
  BY RowsReadSteps DEF RowsRead, ValidRead
<1>1. PICK q : OpStep(j, q) /\ q.at \in {"sweep", "orphans"} /\ q.listed = rows
  BY RowsReadSteps
<1>2. Base'
  BY <1>1, OpKeepsBase
<1>3. ASSUME CacheInv PROVE CacheInv'
  <2>1. Fits(q, rows, files, crossed')
    BY <1>1 DEF Fits, Rowless
  <2> QED
    BY <1>0, <1>1, <1>2, <1>3, <2>1, QuietSteps DEF Quiet, Recon
<1>4. ASSUME InHand PROVE InHand'
  BY <1>0, <1>1, <1>2, <1>4, InHandStays DEF Quiet
<1> QED
  BY <1>0, <1>1, <1>2, <1>3, <1>4 DEF Sound

\* The cache stays sound when the sweep removes a row.
LEMMA SweepKeeps ==
  ASSUME Base, NEW j \in JobIds, Sweep(j)
  PROVE  \E q : Sound(j, q)
<1>0. /\ files' = files /\ stale' = stale /\ faults' = faults /\ rows' \subseteq rows
      /\ \A s \in rows \ rows' : files[s] = "none"
      /\ jobs[j].at = "sweep"
  BY SweepSteps DEF Sweep, Present
<1>1. PICK q : OpStep(j, q) /\ q.at = "sweep"
  BY SweepSteps
<1>2. Base' /\ crossed \subseteq crossed'
  BY <1>1, OpKeepsBase DEF OpStep, Follows
<1>3. ASSUME CacheInv PROVE CacheInv'
  <2>1. ASSUME NEW s \in Stories \ (rows' \cup crossed'), files'[s] # "none" PROVE Seen(s)'
    <3>1. s \in Stories \ (rows \cup crossed) /\ files[s] # "none"
      BY <1>0, <1>2, <2>1
    <3> QED
      BY <1>0, <1>1, <1>3, <3>1, StillSeen DEF Recon
  <2> QED
    BY <1>0, <1>1, <1>2, <1>3, <2>1, GoingKeeps
<1>4. ASSUME InHand PROVE InHand'
  BY <1>0, <1>1, <1>2, <1>4, InHandStays
<1> QED
  BY <1>0, <1>1, <1>2, <1>3, <1>4 DEF Sound

\* The cache stays sound when the sweep removes the files without a row.
LEMMA OrphansDeletedKeeps ==
  ASSUME Base, NEW j \in JobIds, OrphansDeleted(j)
  PROVE  \E q : Sound(j, q)
<1> DEFINE l == jobs[j].listed
<1>0. /\ rows' = rows /\ stale' = stale /\ faults' = faults /\ crossed' = crossed
      /\ jobs[j].at = "orphans" /\ Erase(Stories \ l)
  BY OrphansDeletedSteps
<1>1. PICK q : OpStep(j, q) /\ q.at = "cities"
  BY OrphansDeletedSteps
<1>2. Base' /\ rows \subseteq Stories
  BY <1>1, OpKeepsBase DEF Base, Typed
<1>3. \A s \in Stories : files'[s] = IF s \in Stories \ l THEN "none" ELSE files[s]
  BY <1>0, Erases DEF Base
<1>4. ASSUME CacheInv PROVE CacheInv'
  <2>1. rows \subseteq l \cup crossed /\ \A s \in l \ (rows \cup crossed) : files[s] = "none"
    BY <1>0, <1>4 DEF CacheInv, FitAll, Fits
  <2> HIDE DEF l
  <2>2. \A s \in Stories \ (rows' \cup crossed') : files'[s] = "none"
    BY <1>0, <1>3, <2>1
  <2>3. \A s \in rows' \ crossed' : files'[s] = files[s]
    BY <1>0, <1>2, <1>3, <2>1
  <2>4. \A s \in Stories : files'[s] = files[s] \/ files'[s] = "none"
    BY <1>3
  <2> QED
    BY <1>0, <1>1, <1>2, <1>4, <2>2, <2>3, <2>4, GoingKeeps
<1>5. ASSUME InHand PROVE InHand'
  BY <1>0, <1>1, <1>2, <1>5, InHandStays
<1> QED
  BY <1>0, <1>1, <1>2, <1>4, <1>5 DEF Sound

\* The cache stays sound when the reconciliation removes a row.
LEMMA StoryReconciledKeeps ==
  ASSUME Base, NEW j \in JobIds, StoryReconciled(j)
  PROVE  \E q : Sound(j, q)
<1> DEFINE t == jobs[j].story
<1>0. /\ files' = files /\ stale' = stale /\ faults' = faults
      /\ jobs[j].at = "check" /\ jobs[j].kind = "reconcile"
      /\ \/ rows' = rows
         \/ rows' = rows \ {t} /\ ~Present(t)
  BY StoryReconciledSteps
<1>1. PICK q : OpStep(j, q) /\ q.at \in {"done", "lookup", "cities"}
  BY StoryReconciledSteps
<1>2. Base' /\ crossed \subseteq crossed' /\ rows' \subseteq rows
  BY <1>0, <1>1, OpKeepsBase DEF OpStep, Follows
<1>3. ASSUME CacheInv PROVE CacheInv'
  <2>1. \A s \in rows \ rows' : s \in crossed \/ files[s] = "none"
    BY <1>0 DEF Present
  <2>2. ASSUME NEW s \in Stories \ (rows' \cup crossed'), files'[s] # "none" PROVE Seen(s)'
    <3>1. s \in Stories \ (rows \cup crossed) /\ files[s] # "none"
      BY <1>0, <1>2, <2>1, <2>2
    <3> QED
      BY <1>0, <1>1, <1>3, <3>1, StillSeen DEF Recon
  <2> HIDE DEF t
  <2>3. \A s \in rows \ rows' : s \in crossed' \/ files'[s] = "none"
    BY <1>0, <1>2, <2>1
  <2>4. /\ \A s \in rows' \ crossed' : files'[s] = files[s]
        /\ \A s \in Stories : files'[s] = files[s]
    BY <1>0
  <2> QED
    BY <1>0, <1>1, <1>2, <1>3, <2>2, <2>3, <2>4, GoingKeeps
<1>4. ASSUME InHand PROVE InHand'
  BY <1>0, <1>1, <1>2, <1>4, InHandStays
<1> QED
  BY <1>0, <1>1, <1>2, <1>3, <1>4 DEF Sound

\* The rest are quiet.
LEMMA QuietKeep ==
  ASSUME Base, NEW j \in JobIds,
         \/ ManifestAnswered(j) \/ ManifestFails(j) \/ ManagerOpens(j) \/ Touched(j)
         \/ CityDropped(j) \/ AllDropped(j) \/ CityReconciled(j)
         \/ \E s \in Stories : Fetch(j, s)
         \/ \E c \in Cities : RemoveCity(j, c)
  PROVE  \E q : Sound(j, q)
<1>1. CASE ManifestAnswered(j) \/ ManifestFails(j)
  BY <1>1, ManifestSteps, QuietSound DEF Quiet
<1>2. CASE ManagerOpens(j)
  <2>1. faults' = faults
    BY <1>2 DEF ManagerOpens, countVars
  <2> QED
    BY <1>2, <2>1, ManagerSteps, QuietSound DEF Quiet
<1>3. CASE Touched(j)
  BY <1>3, TouchedSteps, QuietSound
<1>4. CASE CityDropped(j) \/ AllDropped(j)
  BY <1>4, DroppedSteps, QuietSound
<1>5. CASE CityReconciled(j)
  BY <1>5, CityReconciledSteps, QuietSound
<1>6. CASE \E s \in Stories : Fetch(j, s)
  BY <1>6, FetchSteps, QuietSound
<1>7. CASE \E c \in Cities : RemoveCity(j, c)
  BY <1>7, RemoveCitySteps, QuietSound
<1> QED
  BY <1>1, <1>2, <1>3, <1>4, <1>5, <1>6, <1>7

\* The cache stays sound when its manager does not open.
LEMMA ManagerFailsKeeps ==
  ASSUME Base, NEW j \in JobIds, ManagerFails(j)
  PROVE  \E q : Sound(j, q)
<1>0. Fault /\ rows' = rows /\ files' = files /\ stale' = stale /\ jobs[j].at = "open"
  BY ManagerSteps DEF ManagerFails
<1>1. PICK q : OpStep(j, q) /\ q.at \in {"done", "lookup", "open"}
  BY ManagerSteps
<1>2. Base'
  BY <1>1, OpKeepsBase
<1>3. ASSUME CacheInv PROVE CacheInv'
  BY <1>0, <1>1, <1>2, <1>3, QuietSteps, KnowsNothing DEF Recon
<1>4. InHand'
  BY <1>0, FaultExcuses
<1> QED
  BY <1>0, <1>1, <1>2, <1>3, <1>4 DEF Sound

\* A step of one operation.
JobNext(j) ==
    \/ Resume(j) \/ ManagerFails(j) \/ StatementFails(j) \/ ClearCache(j)
    \/ \E s \in Stories : Fetch(j, s)
    \/ \E c \in Cities : RemoveCity(j, c)

\* Every step of every operation keeps the cache sound.
LEMMA JobsKeep ==
  ASSUME Base, NEW j \in JobIds, JobNext(j)
  PROVE  \E q : Sound(j, q)
<1>1. CASE Resume(j)
  BY <1>1, QuietKeep, LookupKeeps, CheckKeeps, BeginKeeps, LandKeeps, TransferFailsKeeps,
     SizeReadKeeps, RowsListedKeeps, EvictKeeps, EvictDoneKeeps, CitySelectedKeeps,
     CityWipedKeeps, RowsReadKeeps, SweepKeeps, OrphansDeletedKeeps, StoryReconciledKeeps
     DEF Resume
<1> QED
  BY <1>1, QuietKeep, ManagerFailsKeeps, StatementFailsKeeps, ClearCacheKeeps DEF JobNext

-----------------------------------------------------------------------------
(***************************************************************************)
(* Each step of the screen and the system.                                 *)
(***************************************************************************)
ScreenNext == \/ \E j \in JobIds : Start(j)
              \/ Cancel \/ Unmount \/ \E c \in Cities : Switch(c) \/ Mount(c)

\* Every step of the screen leaves the cache alone and the download loop in order.
LEMMA ScreenDoes ==
  ASSUME Base, ScreenNext
  PROVE  /\ Base' /\ Flagged /\ Quiet /\ crossed' = crossed /\ downloaded' = downloaded
         /\ LoopInv => LoopInv'
  BY StartDoes, CancelDoes, UnmountDoes, SwitchDoes, MountDoes DEF ScreenNext

\* Every step of the screen keeps the cache sound.
LEMMA ScreenKeeps ==
  ASSUME Base, ScreenNext
  PROVE  (CacheInv => CacheInv') /\ (InHand => InHand')
<1>0. Base' /\ Flagged /\ rows' = rows /\ files' = files /\ stale' = stale
      /\ faults' = faults /\ crossed' = crossed
  BY ScreenDoes DEF Quiet
<1>1. ASSUME CacheInv PROVE CacheInv'
  <2>1. \A i \in JobIds : Working(i)' \subseteq Working(i)
    BY <1>0 DEF Working, Flagged, SameWork
  <2>2. Keeping' => Keeping
    BY <1>0 DEF Keeping, Flagged, SameWork, Keepers
  <2>3. Apart'
    BY <1>0, <1>1, <2>1, <2>2 DEF CacheInv, Apart
  <2>4. FitAll'
    <3>1. ASSUME NEW i \in JobIds PROVE Fits(jobs'[i], rows, files, crossed)
      BY <1>0, <1>1, <3>1 DEF CacheInv, FitAll, Fits, Rowless, Flagged, SameWork
    <3> QED
      BY <1>0, <3>1 DEF FitAll
  <2>5. RowFiles'
    BY <1>0, <1>1 DEF CacheInv, RowFiles
  <2>6. NoOrphans'
    BY <1>0, <1>1 DEF CacheInv, NoOrphans, Present, Flagged, SameWork
  <2> QED
    BY <2>3, <2>4, <2>5, <2>6 DEF CacheInv
<1>2. ASSUME InHand PROVE InHand'
  <2>1. ASSUME NEW i \in JobIds, Asks(i) \/ Knows(i) \/ Clears(i)
        PROVE  (Asks(i) \/ Knows(i) \/ Clears(i))'
    <3>1. SameWork(jobs'[i], jobs[i])
      BY <1>0, <2>1 DEF Flagged, Asks, Knows, Clears
    <3> QED
      BY <1>0, <2>1, <3>1, OthersInHand DEF SameWork
  <2>2. Light => Light'
    BY <1>0 DEF Light
  <2> QED
    BY <1>0, <1>2, <2>1, <2>2 DEF InHand
<1> QED
  BY <1>1, <1>2

\* The cache stays sound when the system removes a file.
LEMMA PurgeKeeps ==
  ASSUME Base, NEW s \in Stories, Purge(s), CacheInv
  PROVE  CacheInv'
<1>0. /\ Base' /\ rows' = rows /\ jobs' = jobs /\ crossed' = crossed
      /\ stale' = stale \cup {s}
      /\ \A u \in Stories : files'[u] = IF u \in {s} THEN "none" ELSE files[u]
  <2>1. Erase({s}) /\ Typed
    BY PurgeDoes DEF Base
  <2> QED
    BY <2>1, PurgeDoes, Erases
<1>1. Apart'
  BY <1>0 DEF CacheInv, Apart, Working, Keeping
<1>2. Tame({})
  BY <1>0 DEF Tame
<1>3. FitAll'
  <2>1. ASSUME NEW i \in JobIds PROVE Fits(jobs[i], rows', files', crossed')
    <3>1. jobs[i] \in JobRecord /\ Shape(jobs[i]) /\ Fits(jobs[i], rows, files, crossed)
      BY DEF Base, Typed, Shaped, CacheInv, FitAll
    <3> QED
      BY <1>0, <1>2, <3>1, OthersFit DEF Base
  <2> QED
    BY <1>0, <2>1 DEF FitAll
<1>4. RowFiles'
  BY <1>0 DEF CacheInv, RowFiles, Base, Typed
<1>5. NoOrphans'
  BY <1>0 DEF CacheInv, NoOrphans, Present
<1> QED
  BY <1>1, <1>3, <1>4, <1>5 DEF CacheInv

\* The cache stays sound through a kill: the next start sweeps what the killed operation left.
LEMMA KillKeeps ==
  ASSUME Base, Kill, CacheInv
  PROVE  CacheInv'
<1>0. /\ rows' = rows /\ files' = files /\ jobs' = Booting /\ crossed' = crossed
      /\ stale' = stale
  BY KillDoes
<1>1. Apart'
  BY <1>0, Boots DEF Apart, Working
<1>2. FitAll'
  <2>1. ASSUME NEW i \in JobIds PROVE Fits(Booting[i], rows, files, crossed)
    BY Boots, KnowsNothing
  <2> QED
    BY <1>0, <2>1 DEF FitAll
<1>3. RowFiles'
  BY <1>0 DEF CacheInv, RowFiles
<1>4. NoOrphans'
  BY <1>0, Boots, BoundAssumption DEF NoOrphans
<1> QED
  BY <1>1, <1>2, <1>3, <1>4 DEF CacheInv

-----------------------------------------------------------------------------
(***************************************************************************)
(* The start, and each step of the whole.                                  *)
(***************************************************************************)
\* Every step is one of these.
LEMMA StepCases ==
  ASSUME Next
  PROVE  \/ \E j \in JobIds : JobNext(j)
         \/ ScreenNext
         \/ \E s \in Stories : Purge(s)
         \/ Kill
  BY DEF Next, Screen, Walk, JobNext, ScreenNext

\* What the phone starts with.
LEMMA StartsSound == Init => Base /\ CacheInv /\ HoldInv /\ LoopInv /\ InHand
<1> SUFFICES ASSUME Init PROVE Base /\ CacheInv /\ HoldInv /\ LoopInv /\ InHand
  OBVIOUS
<1>0. /\ rows = {} /\ files = [s \in Stories |-> "none"] /\ jobs = Booting /\ hook = NoHook
      /\ status = [c \in Cities |-> "idle"] /\ downloaded = {} /\ crossed = {} /\ stale = {}
      /\ abandoned = {} /\ taken = {} /\ starts = 0 /\ faults = 0
  BY DEF Init
<1>1. Typed
  <2>1. status \in [Cities -> Statuses] /\ files \in [Stories -> FileStates]
    BY <1>0 DEF Statuses, FileStates
  <2>2. starts \in 0..MaxStarts /\ faults \in 0..MaxFaults
    BY <1>0, BoundAssumption
  <2>3. jobs \in [JobIds -> JobRecord] /\ hook \in HookRecord
    BY <1>0, Boots, NoHookIs
  <2> QED
    BY <1>0, <2>1, <2>2, <2>3, FS_EmptySet DEF Typed
<1>2. Shaped
  <2>1. ASSUME NEW i \in JobIds PROVE Shape(jobs[i]) /\ (jobs[i].kind = "reconcile" => i = 1)
    BY <1>0, Boots DEF Shape, ItemStages
  <2> QED
    BY <2>1 DEF Shaped
<1>3. Held
  BY <1>0, Boots, NoHookIs DEF Held
<1>4. CacheInv
  <2>1. Apart
    BY <1>0, Boots DEF Apart, Working
  <2>2. FitAll
    BY <1>0, Boots, KnowsNothing DEF FitAll
  <2>3. RowFiles /\ NoOrphans
    BY <1>0 DEF RowFiles, NoOrphans, Present
  <2> QED
    BY <2>1, <2>2, <2>3 DEF CacheInv
<1>5. LoopInv
  <2>1. Uncancelled /\ Silent
    BY <1>0, Boots DEF Uncancelled, Silent
  <2>2. BusyMeansLoop
    BY <1>0 DEF BusyMeansLoop
  <2> QED
    BY <2>1, <2>2 DEF LoopInv
<1>6. InHand
  <2>1. Total({}) = 0
    BY <1>0, <1>1, TotalUnfolds DEF Typed
  <2>2. Total(rows) = 0
    BY <1>0, <2>1
  <2> QED
    BY <2>2, StoryAssumption DEF InHand, Light
<1>7. HoldInv
  BY <1>0, Boots DEF HoldInv, HeldWhole, Holding
<1> QED
  BY <1>1, <1>2, <1>3, <1>4, <1>5, <1>6, <1>7 DEF Base

\* Stuttering.
LEMMA NothingHappens ==
  ASSUME UNCHANGED vars
  PROVE  /\ Base => Base'
         /\ CacheInv => CacheInv'
         /\ LoopInv => LoopInv'
         /\ InHand => InHand'
<1>0. /\ rows' = rows /\ files' = files /\ jobs' = jobs /\ hook' = hook /\ status' = status
      /\ downloaded' = downloaded /\ crossed' = crossed /\ stale' = stale
      /\ abandoned' = abandoned /\ starts' = starts /\ faults' = faults
  BY DEF vars, cacheVars, storeVars, noteVars, countVars
<1>1. Base => Base'
  BY <1>0 DEF Base, Typed, Shaped, Shape, Held
<1>2. Apart' <=> Apart
  BY <1>0 DEF Apart, Working, Keeping
<1>3. (FitAll' <=> FitAll) /\ (RowFiles' <=> RowFiles)
  BY <1>0 DEF FitAll, RowFiles
<1>4. NoOrphans' <=> NoOrphans
  BY <1>0 DEF NoOrphans, Present
<1>5. LoopInv => LoopInv'
  BY <1>0 DEF LoopInv, Uncancelled, Silent, BusyMeansLoop, Whole
<1>6. InHand => InHand'
  BY <1>0 DEF InHand, Light, Asks, Knows, Clears
<1> QED
  BY <1>1, <1>2, <1>3, <1>4, <1>5, <1>6 DEF CacheInv

\* Every step keeps what each operation is and which the hook holds.
LEMMA BaseStep == Base /\ [Next]_vars => Base'
<1> SUFFICES ASSUME Base, [Next]_vars PROVE Base'
  OBVIOUS
<1>1. CASE Next
  BY <1>1, StepCases, JobsKeep, ScreenDoes, PurgeDoes, KillDoes DEF Sound
<1>2. CASE UNCHANGED vars
  BY <1>2, NothingHappens
<1> QED
  BY <1>1, <1>2

\* Every step keeps the rows, the files and the operations at them in agreement.
LEMMA CacheStep == Base /\ CacheInv /\ [Next]_vars => CacheInv'
<1> SUFFICES ASSUME Base, CacheInv, [Next]_vars PROVE CacheInv'
  OBVIOUS
<1>1. CASE Next
  BY <1>1, StepCases, JobsKeep, ScreenKeeps, PurgeKeeps, KillKeeps DEF Sound
<1>2. CASE UNCHANGED vars
  BY <1>2, NothingHappens
<1> QED
  BY <1>1, <1>2

\* Every step keeps the download loop in order; a city is marked by a loop that fetched it whole,
\* or one beside which the hook was started or switched.
LEMMA LoopsStep ==
  Base /\ LoopInv /\ [Next]_vars =>
    /\ LoopInv'
    /\ \A c \in downloaded' \ downloaded : \E j \in Finishes(c) : Whole(j) \/ jobs[j].hasty
<1> SUFFICES ASSUME Base, LoopInv, [Next]_vars
             PROVE  /\ LoopInv'
                    /\ \A c \in downloaded' \ downloaded :
                         \E j \in Finishes(c) : Whole(j) \/ jobs[j].hasty
  OBVIOUS
<1>1. ASSUME NEW j \in JobIds, JobNext(j)
      PROVE  /\ LoopInv'
             /\ \A c \in downloaded' \ downloaded :
                  \E i \in Finishes(c) : Whole(i) \/ jobs[i].hasty
  <2>1. PICK q : OpStep(j, q)
    BY <1>1, JobsKeep DEF Sound
  <2> QED
    BY <2>1, StepsKeepLoops DEF OpStep
<1>2. CASE ScreenNext
  BY <1>2, ScreenDoes
<1>3. ASSUME NEW s \in Stories, Purge(s) PROVE LoopInv' /\ downloaded' = downloaded
  BY <1>3, PurgeDoes
<1>4. CASE Kill
  BY <1>4, KillDoes
<1>5. CASE UNCHANGED vars
  BY <1>5, NothingHappens DEF vars, storeVars
<1> QED
  BY <1>1, <1>2, <1>3, <1>4, <1>5, StepCases

\* Every step keeps the limit in the hands of an operation that will restore it.
LEMMA LimitStep == Base /\ InHand /\ [Next]_vars => InHand'
<1> SUFFICES ASSUME Base, InHand, [Next]_vars PROVE InHand'
  OBVIOUS
<1>1. CASE Next
  BY <1>1, StepCases, JobsKeep, ScreenKeeps, PurgeDoes, KillDoes, FaultExcuses DEF Sound
<1>2. CASE UNCHANGED vars
  BY <1>2, NothingHappens
<1> QED
  BY <1>1, <1>2

-----------------------------------------------------------------------------
(***************************************************************************)
(* The paths held.                                                         *)
(***************************************************************************)
\* Whoever holds a path works on its story.
LEMMA HoldersWork ==
  ASSUME Base, NEW i \in JobIds, Holding(i)
  PROVE  jobs[i].story \in Working(i) /\ jobs[i].story \in Stories
  BY StoryAssumption DEF Holding, Working, Base, Shaped, Shape, ItemStages

\* The steps that touch no file.
LEMMA FilesStay ==
  ASSUME NEW j \in JobIds, JobNext(j),
         ~Check(j), ~Begin(j), ~Land(j), ~TransferFails(j), ~StatementFails(j), ~Evict(j),
         ~CityWiped(j), ~OrphansDeleted(j), ~ClearCache(j)
  PROVE  files' = files
<1>1. CASE Resume(j)
  <2>1. CASE \/ ManifestAnswered(j) \/ ManifestFails(j) \/ ManagerOpens(j) \/ Lookup(j)
             \/ Touched(j) \/ SizeRead(j) \/ RowsListed(j) \/ EvictDone(j)
    BY <2>1 DEF ManifestAnswered, ManifestFails, ManagerOpens, Lookup, Touched, SizeRead,
                RowsListed, EvictDone, cacheVars
  <2>2. CASE \/ CitySelected(j) \/ CityDropped(j) \/ AllDropped(j) \/ RowsRead(j) \/ Sweep(j)
             \/ ValidRead(j) \/ CityReconciled(j) \/ StoryReconciled(j)
    BY <2>2 DEF CitySelected, CityDropped, AllDropped, RowsRead, Sweep, ValidRead,
                CityReconciled, StoryReconciled, cacheVars
  <2> QED
    BY <1>1, <2>1, <2>2 DEF Resume
<1>2. CASE \/ ManagerFails(j) \/ (\E s \in Stories : Fetch(j, s))
           \/ \E c \in Cities : RemoveCity(j, c)
  BY <1>2 DEF ManagerFails, Fetch, RemoveCity, cacheVars
<1> QED
  BY <1>1, <1>2 DEF JobNext

\* The steps that leave open what was taken.
LEMMA TakenStays ==
  ASSUME NEW j \in JobIds, JobNext(j), ~Lookup(j), ~Evict(j)
  PROVE  taken' = taken
<1>1. CASE Resume(j)
  <2>1. CASE \/ ManifestAnswered(j) \/ ManifestFails(j) \/ ManagerOpens(j)
             \/ Check(j) \/ Touched(j) \/ Begin(j) \/ Land(j) \/ TransferFails(j)
    BY <2>1 DEF ManifestAnswered, ManifestFails, ManagerOpens, Check, Touched, Begin, Land,
                TransferFails
  <2>2. CASE \/ SizeRead(j) \/ RowsListed(j) \/ EvictDone(j)
             \/ CitySelected(j) \/ CityWiped(j) \/ CityDropped(j) \/ AllDropped(j)
    BY <2>2 DEF SizeRead, RowsListed, EvictDone, CitySelected, CityWiped, CityDropped,
                AllDropped
  <2>3. CASE \/ RowsRead(j) \/ Sweep(j) \/ ValidRead(j) \/ OrphansDeleted(j)
             \/ CityReconciled(j) \/ StoryReconciled(j)
    BY <2>3 DEF RowsRead, Sweep, ValidRead, OrphansDeleted, CityReconciled, StoryReconciled
  <2> QED
    BY <1>1, <2>1, <2>2, <2>3 DEF Resume
<1>2. CASE \/ ManagerFails(j) \/ StatementFails(j) \/ ClearCache(j)
           \/ (\E s \in Stories : Fetch(j, s)) \/ \E c \in Cities : RemoveCity(j, c)
  BY <1>2 DEF ManagerFails, StatementFails, ClearCache, Fetch, RemoveCity
<1> QED
  BY <1>1, <1>2 DEF JobNext

\* An eviction takes the file of one story, and notes whom it takes it from.
LEMMA EvictTakes ==
  ASSUME Base, NEW j \in JobIds, Evict(j)
  PROVE  /\ taken \subseteq taken' /\ taken' \subseteq taken \cup Stories
         /\ \A i \in JobIds : Holding(i) /\ jobs[i].story \notin taken' =>
              files'[jobs[i].story] = files[jobs[i].story]
         /\ jobs'[j].story = jobs[j].story
<1>1. PICK s \in jobs[j].listed :
             /\ Erase({s}) /\ Lose(s)
             /\ Put(j, [jobs[j] EXCEPT !.listed = @ \ {s}, !.excess = @ - Size[s]])
  BY DEF Evict, EvictStory
<1>2. s \in Stories /\ Typed
  BY DEF Base, Typed, JobRecord
<1>3. taken' = taken \/ taken' = taken \cup {s}
  BY <1>1 DEF Lose
<1>4. ASSUME NEW i \in JobIds, Holding(i), jobs[i].story \notin taken'
      PROVE  files'[jobs[i].story] = files[jobs[i].story]
  <2>1. jobs[i].story # s /\ jobs[i].story \in Stories
    BY <1>1, <1>4, HoldersWork DEF Lose
  <2> QED
    BY <1>1, <1>2, <2>1, Erases
<1>5. jobs'[j].story = jobs[j].story
  BY <1>1, <1>2, Drops DEF Moved, Typed
<1> QED
  BY <1>2, <1>3, <1>4, <1>5

\* Another operation's step leaves whoever holds a path with its file.
LEMMA OthersHold ==
  ASSUME Base, CacheInv, HoldInv, NEW j \in JobIds, JobNext(j), NEW i \in JobIds, i # j,
         Holding(i), jobs[i].story \notin crossed' \cup taken'
  PROVE  files'[jobs[i].story] = "whole"
<1> DEFINE s == jobs[i].story
<1>0. crossed \subseteq crossed'
  BY JobsKeep DEF Sound, OpStep, Follows
<1>1. s \in Working(i) /\ s \in Stories /\ s \notin crossed
  BY <1>0, HoldersWork
<1>2. s \notin Working(j) /\ jobs[j].kind \notin Keepers
  BY <1>1 DEF CacheInv, Apart, Keeping
<1>3. jobs[j].kind \in Fetchers => jobs[j].story # s
  BY <1>1, <1>2, StoryAssumption DEF Working
<1>4. s \notin taken
  <2>1. ASSUME Lookup(j) PROVE s \notin taken
    <3>1. jobs[j].story # s /\ taken' = taken \ {jobs[j].story}
      BY <1>2, <1>3, <2>1 DEF Lookup, Base, Typed, JobRecord, Shaped, Shape, ItemStages
    <3> QED
      BY <3>1
  <2>2. ASSUME Evict(j) PROVE s \notin taken
    BY <2>2, EvictTakes
  <2> QED
    BY <2>1, <2>2, TakenStays
<1>5. files[s] = "whole"
  BY <1>1, <1>4 DEF HoldInv, HeldWhole
<1>6. files'[s] = files[s]
  <2>1. ASSUME Check(j) \/ Begin(j) PROVE files'[s] = files[s]
    <3>1. CASE Check(j)
      BY <1>1, <1>3, <3>1, CheckSteps
    <3>2. CASE Begin(j)
      <4>1. /\ jobs[j].at = "begin" /\ BeginTransfer(j)
            /\ UNCHANGED <<rows, stale, abandoned, countVars>>
        BY <3>2 DEF Begin
      <4>2. jobs[j].kind \in Fetchers
        BY <4>1 DEF Base, Typed, Shaped, Shape, ItemStages, JobRecord, Keepers
      <4> QED
        BY <1>1, <1>3, <4>1, <4>2, BeginSteps
    <3> QED
      BY <2>1, <3>1, <3>2
  <2>2. ASSUME Land(j) PROVE files'[s] = files[s]
    BY <1>1, <1>3, <2>2, LandSteps DEF Base, Typed
  <2>3. ASSUME TransferFails(j) \/ StatementFails(j) PROVE files'[s] = files[s]
    <3>1. /\ jobs[j].kind \in Fetchers
          /\ files' = files \/ Erase({jobs[j].story})
      BY <2>3, TransferFailsSteps, StatementFailsSteps
    <3>2. jobs[j].story # s /\ Typed
      BY <1>3, <3>1 DEF Base
    <3> QED
      BY <1>1, <3>1, <3>2, Erases
  <2>4. ASSUME Evict(j) PROVE files'[s] = files[s]
    BY <2>4, EvictTakes
  <2>5. ASSUME CityWiped(j) \/ OrphansDeleted(j) PROVE FALSE
    BY <1>2, <2>5 DEF CityWiped, OrphansDeleted, Base, Typed, JobRecord, Shaped, Shape,
                      ItemStages, Keepers, Fetchers
  <2>6. ASSUME ClearCache(j) PROVE FALSE
    BY <1>1, <2>6 DEF ClearCache, CrossAll
  <2> QED
    BY <2>1, <2>2, <2>3, <2>4, <2>5, <2>6, FilesStay
<1> QED
  BY <1>5, <1>6

\* The steps an operation comes to hold a path by, or goes on holding it.
LEMMA HoldsBy ==
  ASSUME Base, NEW j \in JobIds, JobNext(j), Holding(j)'
  PROVE  Check(j) \/ Land(j) \/ SizeRead(j) \/ RowsListed(j) \/ Evict(j)
<1> SUFFICES ASSUME ~Check(j), ~Land(j), ~SizeRead(j), ~RowsListed(j), ~Evict(j)
             PROVE  FALSE
  OBVIOUS
<1> DEFINE GoesTo(S) == \E q : OpStep(j, q) /\ q.at \in S
<1>0. ASSUME NEW S, GoesTo(S) PROVE jobs'[j].at \in S
  BY <1>0 DEF OpStep, JobStep, Moved
<1>1. jobs'[j].at \in {"touch", "stats", "list", "evict"}
  BY DEF Holding
<1> HIDE DEF GoesTo
<1>2. CASE Resume(j)
  <2>1. ASSUME ManifestAnswered(j) \/ ManifestFails(j) \/ ManagerOpens(j)
        PROVE  GoesTo({"done", "lookup", "open"})
    BY <2>1, ManifestSteps, ManagerSteps DEF GoesTo
  <2>2. ASSUME Lookup(j) PROVE GoesTo({"check"})
    BY <2>2, LookupSteps DEF GoesTo
  <2>3. ASSUME Touched(j) \/ TransferFails(j) \/ EvictDone(j) PROVE GoesTo({"done", "lookup"})
    BY <2>3, TouchedSteps, TransferFailsSteps, EvictDoneSteps DEF GoesTo
  <2>4. ASSUME Begin(j) PROVE GoesTo({"done", "lookup", "transfer"})
    <3>1. /\ jobs[j].at = "begin" /\ BeginTransfer(j)
          /\ UNCHANGED <<rows, stale, abandoned, countVars>>
      BY <2>4 DEF Begin
    <3>2. jobs[j].kind \in Fetchers
      BY <3>1 DEF Base, Typed, Shaped, Shape, ItemStages, JobRecord, Keepers
    <3> QED
      BY <3>1, <3>2, BeginSteps DEF GoesTo
  <2>5. ASSUME CitySelected(j) \/ CityWiped(j) PROVE GoesTo({"wipe", "drop"})
    BY <2>5, CitySelectedSteps, CityWipedSteps DEF GoesTo
  <2>6. ASSUME CityDropped(j) \/ AllDropped(j) \/ CityReconciled(j) \/ StoryReconciled(j)
        PROVE  GoesTo({"done", "lookup", "cities"})
    BY <2>6, DroppedSteps, CityReconciledSteps, StoryReconciledSteps DEF GoesTo
  <2>7. ASSUME RowsRead(j) \/ Sweep(j) \/ ValidRead(j) \/ OrphansDeleted(j)
        PROVE  GoesTo({"sweep", "orphans", "cities"})
    BY <2>7, RowsReadSteps, SweepSteps, OrphansDeletedSteps DEF GoesTo
  <2> QED
    BY <1>0, <1>1, <1>2, <2>1, <2>2, <2>3, <2>4, <2>5, <2>6, <2>7 DEF Resume
<1>3. ASSUME \/ ManagerFails(j) \/ StatementFails(j) \/ ClearCache(j)
             \/ (\E s \in Stories : Fetch(j, s)) \/ \E c \in Cities : RemoveCity(j, c)
      PROVE  GoesTo({"done", "lookup", "open", "dropAll", "select"})
  BY <1>3, ManagerSteps, StatementFailsSteps, ClearCacheSteps, FetchSteps, RemoveCitySteps
     DEF GoesTo
<1> QED
  BY <1>0, <1>1, <1>2, <1>3 DEF JobNext

\* An operation's own step leaves it with the file of the path it holds.
LEMMA OwnHold ==
  ASSUME Base, CacheInv, HoldInv, NEW j \in JobIds, JobNext(j), Holding(j)',
         jobs'[j].story \notin crossed' \cup taken'
  PROVE  files'[jobs'[j].story] = "whole"
<1> DEFINE s == jobs[j].story
<1>0. crossed \subseteq crossed' /\ jobs \in [JobIds -> JobRecord] /\ Typed
  BY JobsKeep DEF Sound, OpStep, Follows, Base, Typed
<1>1. CASE Check(j)
  <2>1. /\ jobs[j].found /\ Present(s) /\ jobs[j].at = "check" /\ jobs[j].kind \in Fetchers
        /\ files' = files /\ jobs'[j].story = s
    <3>1. /\ jobs'[j].at \in {"touch", "stats", "list", "evict"}
          /\ jobs[j].kind \in Fetchers /\ jobs[j].at = "check"
      BY <1>1, CheckSteps DEF Holding
    <3>2. jobs[j].found /\ Present(s) /\ files' = files /\ jobs'[j].at = "touch"
      BY <1>1, <3>1, CheckSteps DEF OpStep, JobStep, Moved
    <3>3. Goto(j, "touch")
      BY <1>1, <3>2 DEF Check
    <3>4. jobs'[j].story = s
      BY <1>0, <3>3, GoesOn DEF Moved, Stages
    <3> QED
      BY <3>1, <3>2, <3>4
  <2>2. files[s] # "part" /\ files[s] \in FileStates
    <3>1. s \notin crossed /\ s \in Stories
      BY <1>0, <2>1 DEF Base, Shaped, Shape, ItemStages
    <3> QED
      BY <1>0, <2>1, <3>1 DEF CacheInv, FitAll, Fits, Typed
  <2> QED
    BY <2>1, <2>2 DEF Present, FileStates
<1>2. CASE Land(j)
  <2>1. s \in Stories /\ files' = [files EXCEPT ![s] = "whole"]
    BY <1>2, LandSteps
  <2>2. jobs'[j].story = s
    BY <1>0, <1>2, GoesOn DEF Land, Moved, Stages
  <2> QED
    BY <1>0, <2>1, <2>2 DEF Typed
<1>3. CASE SizeRead(j) \/ RowsListed(j) \/ Evict(j)
  <2>1. Holding(j)
    <3>1. jobs[j].at \in {"stats", "list", "evict"}
      BY <1>3 DEF SizeRead, RowsListed, Evict
    <3> QED
      BY <3>1 DEF Holding, Base, Typed, Shaped, Shape, ItemStages, JobRecord, Keepers
  <2>2. taken \subseteq taken'
    BY <1>3, EvictTakes DEF SizeRead, RowsListed
  <2>3. jobs'[j].story = s
    <3>1. CASE SizeRead(j)
      <4>1. jobs'[j].at \notin {"done", "lookup"}
        BY DEF Holding
      <4>2. Put(j, [jobs[j] EXCEPT !.at = "list", !.excess = Total(rows) - MaxCache])
        <5>1. CASE ItemDone(j)
          <6>1. \E q : Passes(j, q)
            BY <2>1, <3>1, <5>1, ItemDonePasses DEF SizeRead, Holding
          <6> QED
            BY <4>1, <6>1 DEF Passes, Moved, JobStep
        <5> QED
          BY <3>1, <5>1 DEF SizeRead
      <4> QED
        BY <4>2, Weighs DEF Base, Moved
    <3>2. CASE RowsListed(j)
      <4>1. "evict" \in Stages /\ rows \in SUBSET Stories
        BY DEF Stages, Base, Typed
      <4>2. Put(j, [jobs[j] EXCEPT !.at = "evict", !.listed = rows])
        BY <3>2 DEF RowsListed
      <4> QED
        BY <4>1, <4>2, Lists DEF Base, Moved, Notes
    <3>3. CASE Evict(j)
      BY <3>3, EvictTakes
    <3> QED
      BY <1>3, <3>1, <3>2, <3>3
  <2>4. files[s] = "whole"
    BY <1>0, <2>1, <2>2, <2>3 DEF HoldInv, HeldWhole
  <2>5. files'[s] = files[s]
    BY <1>3, <2>1, <2>3, EvictTakes DEF SizeRead, RowsListed, cacheVars
  <2> QED
    BY <2>3, <2>4, <2>5
<1> QED
  BY <1>1, <1>2, <1>3, HoldsBy

\* Every step leaves whoever holds a path with its file.
LEMMA HoldStep == Base /\ CacheInv /\ HoldInv /\ [Next]_vars => HoldInv'
<1> SUFFICES ASSUME Base, CacheInv, HoldInv, [Next]_vars PROVE HoldInv'
  OBVIOUS
<1>1. ASSUME NEW j \in JobIds, JobNext(j) PROVE HoldInv'
  <2>1. ASSUME NEW i \in JobIds, Holding(i)', jobs'[i].story \notin crossed' \cup taken'
        PROVE  files'[jobs'[i].story] = "whole"
    <3>1. CASE i = j
      BY <1>1, <2>1, <3>1, OwnHold
    <3>2. CASE i # j
      <4>1. jobs'[i] = jobs[i]
        BY <1>1, <3>2, JobsKeep DEF Sound, OpStep, JobStep, Moved
      <4>2. Holding(i) /\ jobs[i].story \notin crossed' \cup taken'
        BY <2>1, <4>1 DEF Holding
      <4> QED
        BY <1>1, <3>2, <4>1, <4>2, OthersHold
    <3> QED
      BY <3>1, <3>2
  <2>2. taken' \in SUBSET Stories
    <3>1. ASSUME Lookup(j) PROVE taken' \in SUBSET Stories
      BY <3>1 DEF Lookup, HoldInv
    <3> QED
      BY <1>1, <3>1, TakenStays, EvictTakes DEF HoldInv
  <2> QED
    BY <2>1, <2>2 DEF HoldInv, HeldWhole
<1>2. CASE ScreenNext
  <2>1. Flagged /\ files' = files /\ crossed' = crossed
    BY <1>2, ScreenDoes DEF Quiet
  <2>2. taken' = taken
    BY <1>2 DEF ScreenNext, Start, Cancel, Unmount, Switch, Mount
  <2> QED
    BY <2>1, <2>2 DEF HoldInv, HeldWhole, Holding, Flagged, SameWork
<1>3. ASSUME NEW s \in Stories, Purge(s) PROVE HoldInv'
  <2>1. Erase({s}) /\ jobs' = jobs /\ crossed' = crossed /\ Typed
    BY <1>3, PurgeDoes DEF Base
  <2>2. \A u \in Stories : u # s => files'[u] = files[u]
    BY <2>1, Erases
  <2>3. Lose(s)
    BY <1>3 DEF Purge
  <2>4. taken' \in SUBSET Stories /\ taken \subseteq taken'
    BY <2>3 DEF Lose, HoldInv
  <2>5. ASSUME NEW i \in JobIds, Holding(i), jobs[i].story \notin crossed \cup taken'
        PROVE  files'[jobs[i].story] = "whole"
    <3>1. jobs[i].story # s /\ jobs[i].story \in Stories
      BY <2>3, <2>5, HoldersWork DEF Lose
    <3>2. files[jobs[i].story] = "whole"
      BY <2>4, <2>5 DEF HoldInv, HeldWhole
    <3> QED
      BY <2>2, <3>1, <3>2
  <2> QED
    BY <2>1, <2>4, <2>5 DEF HoldInv, HeldWhole, Holding
<1>4. CASE Kill
  <2>1. jobs' = Booting /\ taken' = {}
    BY <1>4 DEF Kill
  <2> QED
    BY <2>1, Boots DEF HoldInv, HeldWhole, Holding
<1>5. CASE UNCHANGED vars
  BY <1>5 DEF vars, cacheVars, noteVars, HoldInv, HeldWhole, Holding
<1> QED
  BY <1>1, <1>2, <1>3, <1>4, <1>5, StepCases

-----------------------------------------------------------------------------
(***************************************************************************)
(* The theorems.                                                           *)
(***************************************************************************)
\* The types and shapes are kept, whatever happens.
THEOREM CacheTyped == Spec => []Base
  BY StartsSound, BaseStep, PTL DEF Spec

\* Every variable and every operation keeps its type, and the hook's handle is
\* that of one of its own loops.
THEOREM TypeCorrect == Spec => []TypeOK
<1>1. ASSUME Base, HoldInv PROVE TypeOK
  <2>1. \A j \in JobIds : Live(j) => jobs[j].at # "done"
    BY <1>1 DEF Base, Shaped, Shape, Live
  <2> QED
    BY <1>1, <2>1 DEF TypeOK, Base, Typed, Held, JobRecord, HookRecord, HoldInv
<1>2. Spec => [](Base /\ CacheInv /\ HoldInv)
  BY StartsSound, BaseStep, CacheStep, HoldStep, PTL DEF Spec
<1> QED
  BY <1>1, <1>2, PTL

\* A row names its whole file, a file without a row is seen to, and a city that
\* is busy has a loop: no interleaving of players, prefetchers, downloads,
\* removals and the reconciliation breaks it but by working on one story twice.
THEOREM CacheIsSound == Spec => []CacheSound
<1>1. Spec => [](Base /\ CacheInv /\ LoopInv)
  BY StartsSound, BaseStep, CacheStep, LoopsStep, PTL DEF Spec
<1>2. Base /\ CacheInv /\ LoopInv => RowsHaveFiles /\ NoOrphans /\ BusyMeansLoop
  BY DEF CacheInv, RowFiles, RowsHaveFiles, LoopInv
<1> QED
  BY <1>1, <1>2, TypeCorrect, PTL DEF CacheSound

\* When a path is returned, its file is there and whole: the awaits between the
\* look at the file, or its arrival, and the return lose it only to an eviction
\* or the system, or to another operation on the same story.
THEOREM CachedIsWhole == Spec => ServedWhole
<1> DEFINE Served == \A j \in JobIds :
                       Returns(j) /\ jobs[j].story \notin crossed \cup taken
                         => files[jobs[j].story] = "whole"
<1>1. Spec => [](Base /\ CacheInv /\ HoldInv)
  BY StartsSound, BaseStep, CacheStep, HoldStep, PTL DEF Spec
<1>2. HoldInv => [Served]_vars
  BY DEF HoldInv, HeldWhole, Returns
<1> QED
  BY <1>1, <1>2, PTL DEF Spec, ServedWhole

\* No loop with a cancelled download marks its city as downloaded, unless the
\* hook started or switched to another download meanwhile.
THEOREM OnlyWholeMarked == Spec => MarkedUncut
<1> DEFINE Marked == \A c \in downloaded' \ downloaded :
                       \E j \in Finishes(c) : Whole(j) \/ jobs[j].hasty
<1>1. Spec => [](Base /\ LoopInv)
  BY StartsSound, BaseStep, LoopsStep, PTL DEF Spec
<1>2. Base /\ LoopInv /\ [Next]_vars => [Marked]_vars
  BY LoopsStep
<1> QED
  BY <1>1, <1>2, PTL DEF Spec, MarkedUncut

\* Once the evictions are done the cache is within its limit, for any sizes and
\* however many insertions and evictions overlapped.
THEOREM LimitIsKept == Spec => []LimitKept
<1>1. Spec => [](Base /\ InHand)
  BY StartsSound, BaseStep, LimitStep, PTL DEF Spec
<1>2. InHand => LimitKept
  BY DEF InHand, LimitKept, Evicting, Light, Asks, Knows, Clears
<1> QED
  BY <1>1, <1>2, PTL
=============================================================================
