----------------------- MODULE CriticalSectionProofs -----------------------
(***************************************************************************)
(* The critical section for any finite set of handlers, any priorities,    *)
(* any nesting, whatever PRIMASK is when app_run starts and whether or not *)
(* interrupts are requested during the boot: disable_count is exactly the  *)
(* locks held, and a section of the main program is masked.                *)
(*                                                                         *)
(* Exclusion needs more: one priority for all lines (SamePriority).  The   *)
(* invariant is the same; with one priority the stack is one handler high. *)
(* During the boot it needs that nothing is requested, too (Deployed).     *)
(***************************************************************************)
EXTENDS CriticalSection, SequenceTheorems, FiniteSetTheorems,
        WellFoundedInduction, TLAPS

-----------------------------------------------------------------------------
(***************************************************************************)
(* Induction over data, in the form the provers take: over a set of        *)
(* numbers, or of sets.                                                    *)
(***************************************************************************)

\* A set that has 0 and the successors of its members has every number.
LEMMA FromZero ==
    ASSUME NEW G \in SUBSET Nat, 0 \in G, \A n \in G : n + 1 \in G
    PROVE  \A n \in Nat : n \in G
<1> DEFINE S == Nat \ G
           R == OpToRel(<, Nat)
<1> SUFFICES ASSUME S # {} PROVE FALSE
  OBVIOUS
<1>1. \A x, y \in S : <<y, x>> \in R <=> y < x
  BY DEF OpToRel
<1>2. IsWellFoundedOn(R, Nat)
  BY NatLessThanWellFounded
<1>3. S \subseteq Nat
  OBVIOUS
<1> HIDE DEF R
<1>4. PICK x \in S : \A y \in S : ~ (<<y, x>> \in R)
  <2> HIDE DEF S
  <2> QED BY <1>2, <1>3, WFMin
<1>5. x \in Nat /\ x # 0 /\ x \notin G
  BY <1>4
<1>6. x - 1 \in Nat /\ x - 1 < x /\ (x - 1) + 1 = x
  BY <1>5
<1>7. x - 1 \notin S
  <2> HIDE DEF S
  <2> QED BY <1>1, <1>4, <1>6
<1> QED BY <1>5, <1>6, <1>7

\* What a context may weigh in a sum.
Weights == [Contexts -> Nat]

\* Contexts are finite in number.
LEMMA FiniteContexts == IsFiniteSet(Contexts)
<1>1. Contexts = Isrs \cup {Main}
  BY DEF Contexts
<1> QED BY <1>1, CSAssumption, FS_AddElement

\* Induction over the size of a set of contexts.
LEMMA BySize ==
    ASSUME NEW G \in SUBSET (SUBSET Contexts),
           \A S \in SUBSET Contexts : (\A c \in S : S \ {c} \in G) => S \in G
    PROVE  \A S \in SUBSET Contexts : S \in G
<1> DEFINE N == {n \in Nat : \A S \in SUBSET Contexts : Cardinality(S) = n => S \in G}
<1>0. \A S \in SUBSET Contexts : IsFiniteSet(S) /\ Cardinality(S) \in Nat
  BY FiniteContexts, FS_Subset, FS_CardinalityType
<1>1. 0 \in N
  <2>1. ASSUME NEW S \in SUBSET Contexts, Cardinality(S) = 0 PROVE S \in G
    <3>1. S = {}
      BY <1>0, <2>1, FS_EmptySet
    <3>2. \A c \in S : S \ {c} \in G
      BY <3>1
    <3> QED BY <3>2
  <2> QED BY <2>1
<1>2. ASSUME NEW n \in N PROVE n + 1 \in N
  <2>1. ASSUME NEW S \in SUBSET Contexts, Cardinality(S) = n + 1 PROVE S \in G
    <3>1. ASSUME NEW c \in S PROVE S \ {c} \in G
      <4>1. Cardinality(S \ {c}) = Cardinality(S) - 1
        BY <1>0, FS_RemoveElement
      <4>2. Cardinality(S \ {c}) = n
        BY <2>1, <4>1
      <4> QED BY <4>2
    <3> QED BY <3>1
  <2> QED BY <2>1
<1>3. \A n \in Nat : n \in N
  <2>1. N \in SUBSET Nat
    OBVIOUS
  <2> HIDE DEF N
  <2> QED BY <1>1, <1>2, <2>1, FromZero
<1> QED BY <1>0, <1>3

-----------------------------------------------------------------------------
(***************************************************************************)
(* Sums over contexts.  The recursive function inside SumOver splits off a *)
(* member chosen by CHOOSE; that any other could be split off instead is   *)
(* SumsSplit.                                                              *)
(***************************************************************************)
Sums(w) ==
    CHOOSE f : f = [S \in SUBSET Contexts |->
        IF S = {} THEN 0
        ELSE LET c == CHOOSE c \in S : TRUE
             IN  w[c] + f[S \ {c}]]

\* SumOver is the function's value at the set of all contexts.
LEMMA SumOverIsSums == \A w : SumOver(w) = Sums(w)[Contexts]
  BY DEF SumOver, Sums

\* There is such a function: one that is right for sets of n members extends
\* to those of n + 1.
LEMMA SumsExist ==
    ASSUME NEW w \in Weights
    PROVE  \E f : f = [S \in SUBSET Contexts |->
               IF S = {} THEN 0
               ELSE LET c == CHOOSE c \in S : TRUE
                    IN  w[c] + f[S \ {c}]]
<1> DEFINE pick(S) == CHOOSE c \in S : TRUE
           Good(f, S) == f[S] = IF S = {} THEN 0 ELSE w[pick(S)] + f[S \ {pick(S)}]
           N == {n \in Nat : \E f \in [SUBSET Contexts -> Nat] :
                     \A S \in SUBSET Contexts : Cardinality(S) <= n => Good(f, S)}
<1>0. \A S \in SUBSET Contexts : IsFiniteSet(S) /\ Cardinality(S) \in Nat
  BY FiniteContexts, FS_Subset, FS_CardinalityType
<1>1. \A S \in SUBSET Contexts : S # {} => pick(S) \in S /\ pick(S) \in Contexts
  OBVIOUS
<1>2. \A S \in SUBSET Contexts : S # {} => Cardinality(S \ {pick(S)}) = Cardinality(S) - 1
  BY <1>0, <1>1, FS_RemoveElement
<1> HIDE DEF pick
<1>3. 0 \in N
  <2> DEFINE f == [S \in SUBSET Contexts |-> 0]
  <2>1. f \in [SUBSET Contexts -> Nat]
    OBVIOUS
  <2>2. ASSUME NEW S \in SUBSET Contexts, Cardinality(S) <= 0 PROVE Good(f, S)
    <3>1. S = {}
      BY <1>0, <2>2, FS_EmptySet
    <3> QED BY <3>1
  <2> QED BY <2>1, <2>2
<1>4. ASSUME NEW n \in N PROVE n + 1 \in N
  <2>1. PICK f \in [SUBSET Contexts -> Nat] :
            \A S \in SUBSET Contexts : Cardinality(S) <= n => Good(f, S)
    OBVIOUS
  <2>0. n \in Nat
    OBVIOUS
  <2> DEFINE g == [S \in SUBSET Contexts |->
                      IF S # {} /\ Cardinality(S) = n + 1
                      THEN w[pick(S)] + f[S \ {pick(S)}] ELSE f[S]]
  <2>2. g \in [SUBSET Contexts -> Nat]
    <3>1. ASSUME NEW S \in SUBSET Contexts, S # {} PROVE w[pick(S)] + f[S \ {pick(S)}] \in Nat
      <4>1. pick(S) \in Contexts /\ S \ {pick(S)} \in SUBSET Contexts
        BY <1>1, <3>1
      <4>2. w[pick(S)] \in Nat /\ f[S \ {pick(S)}] \in Nat
        BY <4>1 DEF Weights
      <4> QED BY <4>2
    <3> QED BY <3>1
  <2>3. ASSUME NEW S \in SUBSET Contexts, Cardinality(S) <= n PROVE g[S] = f[S]
    BY <1>0, <2>0, <2>3
  <2>4. ASSUME NEW S \in SUBSET Contexts, Cardinality(S) <= n + 1 PROVE Good(g, S)
    <3>1. S # {} => S \ {pick(S)} \in SUBSET Contexts /\ Cardinality(S \ {pick(S)}) <= n
      BY <1>0, <1>2, <2>0, <2>4
    <3>2. S # {} => g[S \ {pick(S)}] = f[S \ {pick(S)}]
      BY <2>3, <3>1
    <3>3. CASE Cardinality(S) <= n
      <4>1. Good(f, S) /\ g[S] = f[S]
        BY <2>1, <2>3, <3>3
      <4> QED BY <3>2, <4>1
    <3>4. CASE Cardinality(S) = n + 1
      <4>1. S # {}
        BY <1>0, <2>0, <3>4, FS_EmptySet
      <4>2. g[S] = w[pick(S)] + f[S \ {pick(S)}]
        BY <3>4, <4>1
      <4> HIDE DEF g
      <4> QED BY <3>2, <4>1, <4>2
    <3>5. Cardinality(S) <= n \/ Cardinality(S) = n + 1
      BY <1>0, <2>0, <2>4
    <3> QED BY <3>3, <3>4, <3>5
  <2> HIDE DEF g, Good
  <2>5. n + 1 \in Nat
    BY <2>0
  <2> QED BY <2>2, <2>4, <2>5
<1>5. \A n \in Nat : n \in N
  <2>1. N \in SUBSET Nat
    OBVIOUS
  <2> HIDE DEF N
  <2> QED BY <1>3, <1>4, <2>1, FromZero
<1>6. PICK f \in [SUBSET Contexts -> Nat] : \A S \in SUBSET Contexts : Good(f, S)
  <2>1. Cardinality(Contexts) \in N
    BY <1>0, <1>5
  <2>2. \A S \in SUBSET Contexts : Cardinality(S) <= Cardinality(Contexts)
    BY FiniteContexts, FS_Subset
  <2> HIDE DEF Good
  <2> QED BY <2>1, <2>2
<1>7. f = [S \in SUBSET Contexts |-> IF S = {} THEN 0 ELSE w[pick(S)] + f[S \ {pick(S)}]]
  BY <1>6
<1> QED BY <1>7 DEF pick

\* Its equation.
LEMMA SumsStep ==
    ASSUME NEW w \in Weights
    PROVE  /\ Sums(w)[{}] = 0
           /\ \A S \in SUBSET Contexts : S # {} =>
                  \E c \in S : Sums(w)[S] = w[c] + Sums(w)[S \ {c}]
<1> DEFINE pick(S) == CHOOSE c \in S : TRUE
           T(f) == f = [S \in SUBSET Contexts |->
                       IF S = {} THEN 0 ELSE w[pick(S)] + f[S \ {pick(S)}]]
<1>1. \E f : T(f)
  BY SumsExist
<1>2. Sums(w) = CHOOSE f : T(f)
  BY DEF Sums
<1>3. T(Sums(w))
  <2> HIDE DEF T
  <2> QED BY <1>1, <1>2
<1>4. \A S \in SUBSET Contexts : S # {} => pick(S) \in S
  OBVIOUS
<1> HIDE DEF pick
<1>5. \A S \in SUBSET Contexts :
          Sums(w)[S] = IF S = {} THEN 0 ELSE w[pick(S)] + Sums(w)[S \ {pick(S)}]
  BY <1>3
<1> HIDE DEF T
<1> QED BY <1>4, <1>5

\* A sum is a number.
LEMMA SumsType ==
    ASSUME NEW w \in Weights
    PROVE  \A S \in SUBSET Contexts : Sums(w)[S] \in Nat
<1> DEFINE G == {S \in SUBSET Contexts : Sums(w)[S] \in Nat}
<1>1. ASSUME NEW S \in SUBSET Contexts, \A c \in S : S \ {c} \in G PROVE S \in G
  <2>1. CASE S = {}
    BY <2>1, SumsStep
  <2>2. CASE S # {}
    <3>1. PICK c \in S : Sums(w)[S] = w[c] + Sums(w)[S \ {c}]
      BY <2>2, SumsStep
    <3>2. w[c] \in Nat /\ Sums(w)[S \ {c}] \in Nat
      BY <1>1 DEF Weights
    <3> QED BY <3>1, <3>2
  <2> QED BY <2>1, <2>2
<1>2. G \in SUBSET (SUBSET Contexts)
  OBVIOUS
<1>3. \A S \in SUBSET Contexts : S \in G
  <2> HIDE DEF G
  <2> QED BY <1>1, <1>2, BySize
<1> QED BY <1>3

\* The sum does not depend on the order: any member can be split off.
LEMMA SumsSplit ==
    ASSUME NEW w \in Weights
    PROVE  \A S \in SUBSET Contexts : \A c \in S : Sums(w)[S] = w[c] + Sums(w)[S \ {c}]
<1> DEFINE G == {S \in SUBSET Contexts : \A c \in S : Sums(w)[S] = w[c] + Sums(w)[S \ {c}]}
<1>1. ASSUME NEW S \in SUBSET Contexts, \A c \in S : S \ {c} \in G PROVE S \in G
  <2> SUFFICES ASSUME NEW c \in S PROVE Sums(w)[S] = w[c] + Sums(w)[S \ {c}]
    OBVIOUS
  <2>1. PICK a \in S : Sums(w)[S] = w[a] + Sums(w)[S \ {a}]
    BY SumsStep
  <2>2. CASE a = c
    BY <2>1, <2>2
  <2>3. CASE a # c
    <3> DEFINE T == (S \ {a}) \ {c}
    <3>1. T = (S \ {c}) \ {a} /\ T \in SUBSET Contexts
      BY <2>3
    <3>2. Sums(w)[S \ {a}] = w[c] + Sums(w)[T]
      <4>1. c \in S \ {a} /\ S \ {a} \in G
        BY <1>1, <2>3
      <4> QED BY <4>1
    <3>3. Sums(w)[S \ {c}] = w[a] + Sums(w)[T]
      <4>1. a \in S \ {c} /\ S \ {c} \in G
        BY <1>1, <2>3
      <4>2. Sums(w)[S \ {c}] = w[a] + Sums(w)[(S \ {c}) \ {a}]
        BY <4>1
      <4> QED BY <3>1, <4>2
    <3>4. w[a] \in Nat /\ w[c] \in Nat /\ Sums(w)[T] \in Nat
      BY <3>1, SumsType DEF Weights
    <3> HIDE DEF T
    <3>5. Sums(w)[S] = w[a] + (w[c] + Sums(w)[T])
      BY <2>1, <3>2
    <3>6. w[c] + Sums(w)[S \ {c}] = w[c] + (w[a] + Sums(w)[T])
      BY <3>3
    <3> QED BY <3>4, <3>5, <3>6
  <2> QED BY <2>2, <2>3
<1>2. G \in SUBSET (SUBSET Contexts)
  OBVIOUS
<1>3. \A S \in SUBSET Contexts : S \in G
  <2> HIDE DEF G
  <2> QED BY <1>1, <1>2, BySize
<1> QED BY <1>3

\* Only the members of a set count.
LEMMA SumsSame ==
    ASSUME NEW w \in Weights, NEW v \in Weights
    PROVE  \A S \in SUBSET Contexts : (\A c \in S : w[c] = v[c]) => Sums(w)[S] = Sums(v)[S]
<1> DEFINE G == {S \in SUBSET Contexts : (\A c \in S : w[c] = v[c]) => Sums(w)[S] = Sums(v)[S]}
<1>1. ASSUME NEW S \in SUBSET Contexts, \A c \in S : S \ {c} \in G PROVE S \in G
  <2> SUFFICES ASSUME \A c \in S : w[c] = v[c] PROVE Sums(w)[S] = Sums(v)[S]
    OBVIOUS
  <2>1. CASE S = {}
    BY <2>1, SumsStep
  <2>2. CASE S # {}
    <3>1. PICK c \in S : TRUE
      BY <2>2
    <3>2. Sums(w)[S \ {c}] = Sums(v)[S \ {c}] /\ w[c] = v[c]
      BY <1>1, <3>1
    <3>3. Sums(w)[S] = w[c] + Sums(w)[S \ {c}]
      BY <3>1, SumsSplit
    <3>4. Sums(v)[S] = v[c] + Sums(v)[S \ {c}]
      BY <3>1, SumsSplit
    <3> QED BY <3>2, <3>3, <3>4
  <2> QED BY <2>1, <2>2
<1>2. G \in SUBSET (SUBSET Contexts)
  OBVIOUS
<1>3. \A S \in SUBSET Contexts : S \in G
  <2> HIDE DEF G
  <2> QED BY <1>1, <1>2, BySize
<1> QED BY <1>3

\* A sum of zeros is zero.
LEMMA SumsZero ==
    ASSUME NEW w \in Weights
    PROVE  \A S \in SUBSET Contexts : (\A c \in S : w[c] = 0) => Sums(w)[S] = 0
<1> DEFINE G == {S \in SUBSET Contexts : (\A c \in S : w[c] = 0) => Sums(w)[S] = 0}
<1>1. ASSUME NEW S \in SUBSET Contexts, \A c \in S : S \ {c} \in G PROVE S \in G
  <2> SUFFICES ASSUME \A c \in S : w[c] = 0 PROVE Sums(w)[S] = 0
    OBVIOUS
  <2>1. CASE S = {}
    BY <2>1, SumsStep
  <2>2. CASE S # {}
    <3>1. PICK c \in S : TRUE
      BY <2>2
    <3>2. Sums(w)[S \ {c}] = 0 /\ w[c] = 0
      BY <1>1, <3>1
    <3> QED BY <3>1, <3>2, SumsSplit
  <2> QED BY <2>1, <2>2
<1>2. G \in SUBSET (SUBSET Contexts)
  OBVIOUS
<1>3. \A S \in SUBSET Contexts : S \in G
  <2> HIDE DEF G
  <2> QED BY <1>1, <1>2, BySize
<1> QED BY <1>3

-----------------------------------------------------------------------------
(***************************************************************************)
(* The inductive invariant                                                 *)
(***************************************************************************)

\* What each context has added to disable_count.
Shares == [c \in Contexts |-> Share(c)]

Types ==
    /\ count \in Int
    /\ primask \in BOOLEAN
    /\ pc \in [Contexts -> {"run", "mask", "unmask"}]
    /\ depth \in [Contexts -> 0..MaxDepth]
    /\ boot \in {"irqs_off", "irqs_on", "enabled"}
    /\ waiting \in BOOLEAN
    /\ event \in BOOLEAN

\* The core's stack: Main at the bottom, and each handler more urgent than
\* what it broke into.
StackInv ==
    /\ active \in Seq(Contexts) /\ Len(active) > 0
    /\ active[Len(active)] = Main
    /\ \A k, l \in 1..Len(active) : k < l => Level(active[k]) < Level(active[l])
    /\ Len(active) > 1 => boot = "enabled" \/ (boot = "irqs_on" /\ BootInterrupts)

OnStack(c) == \E k \in 1..Len(active) : active[k] = c

\* A context on its way to cpsid or cpsie holds no lock; one that is not on
\* the stack has none and is at rest.
RestInv ==
    /\ \A c \in Contexts : pc[c] # "run" => depth[c] = 0
    /\ \A c \in Contexts : OnStack(c) \/ (depth[c] = 0 /\ pc[c] = "run")

\* A section of Main is masked, and nothing is above it.
MainInv == boot = "enabled" /\ depth[Main] > 0 => primask /\ Len(active) = 1

CSInv == Types /\ StackInv /\ CountIsNesting /\ RestInv /\ MainInv

\* The constants' types, and who has which level.
LEMMA Bounds ==
    /\ Main \in Contexts /\ Main \notin Isrs /\ Isrs \subseteq Contexts
    /\ MaxDepth \in Nat \ {0}
    /\ \A c \in Contexts : Level(c) \in 0..16 /\ (c # Main => c \in Isrs /\ Level(c) < 16)
    /\ Level(Main) = 16
<1>1. \A c \in Isrs : Prio[c] \in 0..15 /\ c # Main
  BY CSAssumption
<1> QED BY <1>1, CSAssumption DEF Contexts, Level

\* Shares are numbers.
LEMMA SharesType ==
    ASSUME Types
    PROVE  /\ Shares \in Weights
           /\ \A c \in Contexts : Share(c) \in Nat /\ depth[c] \in 0..MaxDepth /\ depth[c] \in Nat
<1>1. \A c \in Contexts : depth[c] \in 0..MaxDepth /\ depth[c] \in Nat
  BY Bounds DEF Types
<1>2. \A c \in Contexts : Share(c) \in Nat
  BY <1>1 DEF Share
<1> QED BY <1>1, <1>2 DEF Shares, Weights

\* disable_count as one context sees it: its own share, and the rest.
LEMMA CountLemma ==
    ASSUME Types, CountIsNesting, NEW c \in Contexts
    PROVE  \E rest \in Nat :
               /\ count = Share(c) + rest + (IF boot = "enabled" THEN 0 ELSE 1)
               /\ (\A x \in Contexts \ {c} : Share(x) = 0) => rest = 0
<1> DEFINE R == Sums(Shares)[Contexts \ {c}]
<1>1. Shares \in Weights
  BY SharesType
<1>2. R \in Nat
  BY <1>1, SumsType
<1>3. SumOver(Shares) = Share(c) + R
  <2>1. Sums(Shares)[Contexts] = Shares[c] + R
    BY <1>1, SumsSplit
  <2>2. Shares[c] = Share(c)
    BY DEF Shares
  <2> QED BY <2>1, <2>2, SumOverIsSums
<1>4. (\A x \in Contexts \ {c} : Share(x) = 0) => R = 0
  <2>1. \A x \in Contexts \ {c} : Shares[x] = Share(x)
    BY DEF Shares
  <2> QED BY <1>1, <2>1, SumsZero
<1>5. count = SumOver(Shares) + (IF boot = "enabled" THEN 0 ELSE 1)
  BY DEF CountIsNesting, Shares
<1> HIDE DEF R
<1>6. count = Share(c) + R + (IF boot = "enabled" THEN 0 ELSE 1)
  BY <1>3, <1>5
<1> QED BY <1>2, <1>4, <1>6

\* A change of one context's share is the change of the sum.
LEMMA AccountLemma ==
    ASSUME Types, Types', CountIsNesting, NEW c \in Contexts, UNCHANGED boot,
           NEW d \in Int, count' = count + d, Share(c)' = Share(c) + d,
           \A x \in Contexts \ {c} : depth'[x] = depth[x] /\ pc'[x] = pc[x]
    PROVE  CountIsNesting'
<1> DEFINE w == [x \in Contexts |-> Share(x)]
           v == [x \in Contexts |-> Share(x)']
<1>1. w \in Weights /\ \A x \in Contexts : Share(x) \in Nat
  BY SharesType DEF Shares
<1>2. v \in Weights /\ \A x \in Contexts : Share(x)' \in Nat
  <2>1. \A x \in Contexts : depth'[x] \in Nat
    BY Bounds DEF Types
  <2>2. \A x \in Contexts : Share(x)' \in Nat
    BY <2>1 DEF Share
  <2> QED BY <2>2 DEF Weights
<1>3. \A x \in Contexts \ {c} : w[x] = v[x]
  BY DEF Share
<1>4. /\ Sums(w)[Contexts] = Share(c) + Sums(w)[Contexts \ {c}]
      /\ Sums(v)[Contexts] = Share(c)' + Sums(v)[Contexts \ {c}]
  <2>1. w[c] = Share(c)
    OBVIOUS
  <2>2. v[c] = Share(c)'
    OBVIOUS
  <2> HIDE DEF w, v
  <2>3. Sums(w)[Contexts] = w[c] + Sums(w)[Contexts \ {c}]
    BY <1>1, SumsSplit
  <2>4. Sums(v)[Contexts] = v[c] + Sums(v)[Contexts \ {c}]
    BY <1>2, SumsSplit
  <2> QED BY <2>1, <2>2, <2>3, <2>4
<1>5. count = SumOver(w) + (IF boot = "enabled" THEN 0 ELSE 1)
  BY DEF CountIsNesting
<1>6. CountIsNesting' <=> count' = SumOver(v) + (IF boot = "enabled" THEN 0 ELSE 1)
  BY DEF CountIsNesting, SumOver, Contexts
<1> HIDE DEF w, v
<1>7. Sums(w)[Contexts \ {c}] = Sums(v)[Contexts \ {c}] /\ Sums(w)[Contexts \ {c}] \in Nat
  BY <1>1, <1>2, <1>3, SumsSame, SumsType
<1> DEFINE R == Sums(w)[Contexts \ {c}]
<1>8. SumOver(w) = Share(c) + R /\ SumOver(v) = (Share(c) + d) + R /\ R \in Nat
  BY <1>4, <1>7, SumOverIsSums
<1> HIDE DEF R
<1>9. Share(c) \in Nat /\ (IF boot = "enabled" THEN 0 ELSE 1) \in Nat
  BY <1>1
<1> QED BY <1>5, <1>6, <1>8, <1>9

\* Steps that leave the locks alone.
LEMMA AccountSame ==
    ASSUME CountIsNesting, UNCHANGED <<count, pc, depth, boot>>
    PROVE  CountIsNesting'
  BY DEF CountIsNesting, SumOver, Share, Contexts

-----------------------------------------------------------------------------
(***************************************************************************)
(* The steps                                                               *)
(***************************************************************************)

\* The invariant holds at the start.
LEMMA InitLemma == Init => CSInv
<1> SUFFICES ASSUME Init PROVE CSInv
  OBVIOUS
<1>2. Types
  <2>1. 0 \in 0..MaxDepth
    BY Bounds
  <2>2. depth \in [Contexts -> 0..MaxDepth]
    BY <2>1 DEF Init
  <2>3. pc \in [Contexts -> {"run", "mask", "unmask"}]
    BY DEF Init
  <2>4. primask \in BOOLEAN
    BY CSAssumption, Zenon DEF Init
  <2>5. waiting \in BOOLEAN /\ event \in BOOLEAN
    BY Zenon DEF Init
  <2>6. count \in Int /\ boot \in {"irqs_off", "irqs_on", "enabled"}
    BY DEF Init
  <2> QED BY <2>2, <2>3, <2>4, <2>5, <2>6, Zenon DEF Types
<1>3. StackInv
  <2>1. active \in Seq(Contexts) /\ Len(active) = 1 /\ active[1] = Main
    BY Bounds DEF Init
  <2> QED BY <2>1 DEF StackInv
<1>4. RestInv /\ MainInv
  BY Bounds DEF Init, RestInv, MainInv
<1>5. CountIsNesting
  <2>1. \A c \in Contexts : Shares[c] = 0
    BY DEF Init, Shares, Share
  <2>2. Sums(Shares)[Contexts] = 0
    BY <1>2, <2>1, SharesType, SumsZero
  <2>3. SumOver(Shares) = 0
    BY <2>2, SumOverIsSums
  <2> QED BY <2>3 DEF Init, CountIsNesting, Shares
<1> QED BY <1>2, <1>3, <1>4, <1>5 DEF CSInv

\* The running context is the first on the stack, and Main runs only alone.
LEMMA RunningLemma ==
    ASSUME StackInv, NEW c \in Contexts, Running(c)
    PROVE  /\ active[1] = c /\ OnStack(c)
           /\ (c = Main) <=> Len(active) = 1
<1>1. active # <<>> /\ active[1] = c /\ Len(active) \in Nat /\ Len(active) > 0
  BY DEF StackInv, Running
<1>2. OnStack(c)
  BY <1>1 DEF OnStack
<1>3. ASSUME Len(active) > 1 PROVE c # Main
  <2>1. Level(active[1]) < Level(active[Len(active)])
    BY <1>1, <1>3 DEF StackInv
  <2> QED BY <1>1, <2>1, Bounds DEF StackInv
<1>4. Len(active) = 1 => c = Main
  BY <1>1 DEF StackInv
<1> QED BY <1>1, <1>2, <1>3, <1>4

\* A context that is not on the stack has no share in the count.
LEMMA AloneLemma ==
    ASSUME CSInv, Len(active) = 1, NEW x \in Contexts \ {Main}
    PROVE  depth[x] = 0 /\ pc[x] = "run" /\ Share(x) = 0
<1>1. ~OnStack(x)
  BY DEF OnStack, CSInv, StackInv
<1> QED BY <1>1 DEF CSInv, RestInv, Share

\* A lock: the count goes up by one, and the context is either inside or on
\* its way to cpsid.
LEMMA FetchAddLemma ==
    ASSUME CSInv, NEW c \in Contexts, Running(c), pc[c] = "run",
           depth[c] < MaxDepth, FetchAdd(c),
           UNCHANGED <<primask, active, boot, waiting, event>>
    PROVE  CSInv'
<1>1. /\ MaxDepth \in Nat /\ depth[c] \in 0..MaxDepth /\ Main \in Contexts
      /\ OnStack(c) /\ Types /\ CountIsNesting
  BY Bounds, SharesType, RunningLemma DEF CSInv
<1>2. PICK rest \in Nat :
         /\ count = Share(c) + rest + (IF boot = "enabled" THEN 0 ELSE 1)
         /\ (\A x \in Contexts \ {c} : Share(x) = 0) => rest = 0
  BY <1>1, CountLemma
<1>3. Share(c) = depth[c]
  BY <1>1 DEF Share
<1>4. CASE count = 0
  <2>1. pc' = [pc EXCEPT ![c] = "mask"] /\ depth' = depth /\ count' = count + 1
    BY <1>4 DEF FetchAdd, NeedsMask
  <2>2. depth[c] = 0
    BY <1>1, <1>2, <1>3, <1>4
  <2>3. Types'
    BY <1>1, <2>1 DEF Types
  <2>4. CountIsNesting'
    <3>1. Share(c)' = Share(c) + 1
      BY <1>1, <1>3, <2>1, <2>2 DEF Types, Share
    <3>2. \A x \in Contexts \ {c} : depth'[x] = depth[x] /\ pc'[x] = pc[x]
      BY <1>1, <2>1 DEF Types
    <3> QED BY <1>1, <2>1, <2>3, <3>1, <3>2, AccountLemma
  <2>5. RestInv'
    BY <1>1, <2>1, <2>2 DEF CSInv, Types, RestInv, OnStack
  <2>6. MainInv' /\ StackInv'
    BY <2>1 DEF CSInv, MainInv, StackInv
  <2> QED BY <2>3, <2>4, <2>5, <2>6 DEF CSInv
<1>5. CASE count # 0
  <2>1. depth' = [depth EXCEPT ![c] = @ + 1] /\ pc' = pc /\ count' = count + 1
    BY <1>5 DEF FetchAdd, NeedsMask, Enter
  <2>2. Types'
    BY <1>1, <2>1 DEF Types
  <2>3. CountIsNesting'
    <3>1. Share(c)' = Share(c) + 1
      BY <1>1, <2>1 DEF Types, Share
    <3>2. \A x \in Contexts \ {c} : depth'[x] = depth[x] /\ pc'[x] = pc[x]
      BY <1>1, <2>1 DEF Types
    <3> QED BY <1>1, <2>1, <2>2, <3>1, <3>2, AccountLemma
  <2>4. RestInv'
    BY <1>1, <2>1 DEF CSInv, Types, RestInv, OnStack
  <2>5. MainInv'
    <3>1. CASE c = Main /\ boot = "enabled"
      <4>1. Len(active) = 1
        BY <3>1, RunningLemma DEF CSInv
      <4>2. \A x \in Contexts \ {c} : Share(x) = 0
        BY <3>1, <4>1, AloneLemma
      <4>3. depth[Main] > 0
        BY <1>1, <1>2, <1>3, <1>5, <3>1, <4>2
      <4> QED BY <2>1, <3>1, <4>1, <4>3 DEF CSInv, MainInv
    <3>2. CASE c # Main
      BY <1>1, <2>1, <3>2 DEF CSInv, Types, MainInv
    <3>3. CASE boot # "enabled"
      BY <3>3 DEF MainInv
    <3> QED BY <3>1, <3>2, <3>3
  <2> QED BY <2>2, <2>3, <2>4, <2>5 DEF CSInv, StackInv
<1> QED BY <1>4, <1>5

\* An unlock: the count goes down by one; if it was the last lock, none of
\* the context's remains, and it goes on to cpsie.
LEMMA FetchSubLemma ==
    ASSUME CSInv, NEW c \in Contexts, Running(c), pc[c] = "run",
           depth[c] > 0, FetchSub(c),
           UNCHANGED <<primask, active, boot, waiting, event>>
    PROVE  CSInv'
<1>1. /\ MaxDepth \in Nat /\ depth[c] \in 1..MaxDepth /\ Main \in Contexts
      /\ OnStack(c) /\ Types /\ CountIsNesting
  BY Bounds, SharesType, RunningLemma DEF CSInv
<1>2. count' = count - 1 /\ depth' = [depth EXCEPT ![c] = @ - 1]
  BY DEF FetchSub
<1>3. \/ pc' = pc
      \/ count = 1 /\ pc' = [pc EXCEPT ![c] = "unmask"]
  BY DEF FetchSub, NeedsUnmask
<1>4. Share(c) = depth[c]
  BY <1>1 DEF Share
<1>5. count = 1 => depth[c] = 1 /\ boot = "enabled"
  <2>1. PICK rest \in Nat : count = Share(c) + rest + (IF boot = "enabled" THEN 0 ELSE 1)
    BY <1>1, CountLemma
  <2> QED BY <1>1, <1>4, <2>1
<1>6. Types'
  BY <1>1, <1>2, <1>3 DEF Types
<1>7. CountIsNesting'
  <2>1. Share(c)' = Share(c) + (-1)
    BY <1>1, <1>2, <1>3, <1>4 DEF Types, Share
  <2>2. count' = count + (-1)
    BY <1>1, <1>2 DEF Types
  <2>3. \A x \in Contexts \ {c} : depth'[x] = depth[x] /\ pc'[x] = pc[x]
    BY <1>1, <1>2, <1>3 DEF Types
  <2> QED BY <1>1, <1>6, <2>1, <2>2, <2>3, AccountLemma
<1>8. RestInv'
  <2>1. pc'[c] # "run" => depth'[c] = 0
    BY <1>1, <1>2, <1>3, <1>5 DEF Types
  <2>2. \A x \in Contexts \ {c} : pc'[x] = pc[x] /\ depth'[x] = depth[x]
    BY <1>1, <1>2, <1>3 DEF Types
  <2> QED BY <1>1, <2>1, <2>2 DEF CSInv, RestInv, OnStack
<1>9. MainInv'
  BY <1>1, <1>2 DEF CSInv, Types, MainInv
<1> QED BY <1>6, <1>7, <1>8, <1>9 DEF CSInv, StackInv

\* cpsid: the lock that was on its way is held now, so the share is the same.
LEMMA MaskLemma == ASSUME CSInv, NEW c \in Contexts, Mask(c) PROVE CSInv'
<1>1. depth[c] = 0 /\ pc[c] = "mask" /\ Running(c)
  BY DEF Mask, CSInv, RestInv
<1>2. /\ pc' = [pc EXCEPT ![c] = "run"]
      /\ depth' = [depth EXCEPT ![c] = @ + 1]
      /\ primask' = TRUE
      /\ UNCHANGED <<count, active, boot, waiting, event>>
  BY DEF Mask, Enter
<1>3. Types /\ CountIsNesting /\ OnStack(c)
  BY <1>1, RunningLemma DEF CSInv
<1>4. Types'
  <2>1. depth[c] + 1 \in 0..MaxDepth
    BY <1>1, Bounds
  <2> QED BY <1>2, <1>3, <2>1 DEF Types
<1>5. CountIsNesting'
  <2>1. Share(c)' = Share(c) + 0
    BY <1>1, <1>2, <1>3 DEF Types, Share
  <2>2. count' = count + 0
    BY <1>2, <1>3 DEF Types
  <2>3. \A x \in Contexts \ {c} : depth'[x] = depth[x] /\ pc'[x] = pc[x]
    BY <1>2, <1>3 DEF Types
  <2> QED BY <1>2, <1>3, <1>4, <2>1, <2>2, <2>3, AccountLemma
<1>6. RestInv'
  BY <1>1, <1>2, <1>3 DEF CSInv, Types, RestInv, OnStack
<1>7. MainInv'
  <2>1. CASE c = Main
    BY <1>1, <1>2, <2>1, RunningLemma DEF CSInv, MainInv
  <2>2. CASE c # Main
    BY <1>2, <1>3, <2>2, Bounds DEF CSInv, Types, MainInv
  <2> QED BY <2>1, <2>2
<1> QED BY <1>2, <1>4, <1>5, <1>6, <1>7 DEF CSInv, StackInv

\* cpsie: only a context that holds nothing gets here; above Main, there is
\* no section of Main to unmask.
LEMMA UnmaskLemma == ASSUME CSInv, NEW c \in Contexts, Unmask(c) PROVE CSInv'
<1>1. depth[c] = 0 /\ pc[c] = "unmask" /\ Running(c)
  BY DEF Unmask, CSInv, RestInv
<1>2. /\ pc' = [pc EXCEPT ![c] = "run"]
      /\ primask' = FALSE
      /\ UNCHANGED <<count, active, depth, boot, waiting, event>>
  BY DEF Unmask
<1>3. Types /\ CountIsNesting /\ OnStack(c)
  BY <1>1, RunningLemma DEF CSInv
<1>4. Types'
  BY <1>2, <1>3 DEF Types
<1>5. CountIsNesting'
  <2>1. Share(c)' = Share(c) + 0
    BY <1>1, <1>2, <1>3 DEF Types, Share
  <2>2. count' = count + 0
    BY <1>2, <1>3 DEF Types
  <2>3. \A x \in Contexts \ {c} : depth'[x] = depth[x] /\ pc'[x] = pc[x]
    BY <1>2, <1>3 DEF Types
  <2> QED BY <1>2, <1>3, <1>4, <2>1, <2>2, <2>3, AccountLemma
<1>6. RestInv'
  BY <1>1, <1>2, <1>3 DEF CSInv, Types, RestInv, OnStack
<1>7. MainInv'
  <2>1. CASE c = Main
    BY <1>1, <1>2, <2>1 DEF MainInv
  <2>2. CASE c # Main
    BY <1>1, <1>2, <2>2, RunningLemma DEF CSInv, MainInv
  <2> QED BY <2>1, <2>2
<1> QED BY <1>2, <1>4, <1>5, <1>6, <1>7 DEF CSInv, StackInv

\* An interrupt is taken: it is more urgent than all that is on the stack.
LEMMA PreemptLemma == ASSUME CSInv, NEW i \in Isrs, Preempt(i) PROVE CSInv'
<1>1. /\ ~primask
      /\ boot = "enabled" \/ (boot = "irqs_on" /\ BootInterrupts)
      /\ Level(i) < Level(Head(active))
      /\ active' = <<i>> \o active
      /\ UNCHANGED <<count, primask, pc, depth, boot, waiting, event>>
  BY DEF Preempt
<1>2. active \in Seq(Contexts) /\ Len(active) \in Nat /\ Len(active) > 0 /\ i \in Contexts
  BY Bounds DEF CSInv, StackInv
<1>3. /\ active' \in Seq(Contexts) /\ Len(active') = Len(active) + 1
      /\ active'[1] = i
      /\ \A k \in 2..(Len(active) + 1) : active'[k] = active[k - 1]
  BY <1>1, <1>2
<1>4. StackInv'
  <2>1. active'[Len(active')] = Main
    BY <1>2, <1>3 DEF CSInv, StackInv
  <2>2. ASSUME NEW k \in 1..Len(active'), NEW l \in 1..Len(active'), k < l
        PROVE  Level(active'[k]) < Level(active'[l])
    <3>1. l - 1 \in 1..Len(active) /\ active'[l] = active[l - 1]
      BY <1>2, <1>3, <2>2
    <3>2. CASE k > 1
      <4>1. k - 1 \in 1..Len(active) /\ active'[k] = active[k - 1] /\ k - 1 < l - 1
        BY <1>2, <1>3, <2>2, <3>2
      <4> QED BY <3>1, <4>1 DEF CSInv, StackInv
    <3>3. CASE k = 1
      <4>1. Level(active[1]) <= Level(active[l - 1])
        <5>1. CASE l - 1 = 1
          <6>1. active[1] \in Contexts
            BY <1>2
          <6>2. Level(active[1]) \in 0..16
            BY <6>1, Bounds
          <6> QED BY <5>1, <6>2
        <5>2. CASE l - 1 > 1
          <6>1. active[1] \in Contexts /\ active[l - 1] \in Contexts
            BY <1>2, <3>1
          <6>2. Level(active[1]) \in 0..16 /\ Level(active[l - 1]) \in 0..16
            BY <6>1, Bounds
          <6>3. Level(active[1]) < Level(active[l - 1])
            BY <1>2, <3>1, <5>2 DEF CSInv, StackInv
          <6> DEFINE a == Level(active[1])
                     c == Level(active[l - 1])
          <6>4. a \in 0..16 /\ c \in 0..16 /\ a < c
            BY <6>2, <6>3
          <6> HIDE DEF a, c
          <6>5. a <= c
            BY <6>4
          <6> QED BY <6>5 DEF a, c
        <5>3. l - 1 = 1 \/ l - 1 > 1
          BY <1>2, <3>1
        <5> QED BY <5>1, <5>2, <5>3
      <4>2. Level(i) < Level(active[1])
        BY <1>1, <1>2
      <4>3. Level(i) \in 0..16 /\ Level(active[1]) \in 0..16 /\ Level(active[l - 1]) \in 0..16
        <5>1. active[1] \in Contexts /\ active[l - 1] \in Contexts
          BY <1>2, <3>1
        <5> QED BY <1>2, <5>1, Bounds
      <4>4. Level(i) < Level(active[l - 1])
        <5> DEFINE a == Level(i)
                   b == Level(active[1])
                   c == Level(active[l - 1])
        <5>1. a \in 0..16 /\ b \in 0..16 /\ c \in 0..16 /\ a < b /\ b <= c
          BY <4>1, <4>2, <4>3
        <5> HIDE DEF a, b, c
        <5>2. a < c
          BY <5>1
        <5> QED BY <5>2 DEF a, c
      <4> QED BY <1>3, <3>1, <3>3, <4>4
    <3> QED BY <3>2, <3>3
  <2>3. \A k, l \in 1..Len(active') : k < l => Level(active'[k]) < Level(active'[l])
    BY <2>2
  <2>4. StackInv' <=>
          /\ active' \in Seq(Contexts) /\ Len(active') > 0
          /\ active'[Len(active')] = Main
          /\ \A k, l \in 1..Len(active') : k < l => Level(active'[k]) < Level(active'[l])
          /\ Len(active') > 1 => boot' = "enabled" \/ (boot' = "irqs_on" /\ BootInterrupts)
    BY DEF StackInv, Level, Contexts
  <2> QED BY <1>1, <1>2, <1>3, <2>1, <2>3, <2>4
<1>5. \A x : OnStack(x) => OnStack(x)'
  <2> SUFFICES ASSUME NEW x, OnStack(x) PROVE OnStack(x)'
    OBVIOUS
  <2>1. PICK k \in 1..Len(active) : active[k] = x
    BY DEF OnStack
  <2>2. k + 1 \in 1..Len(active') /\ active'[k + 1] = x
    BY <1>2, <1>3, <2>1
  <2> QED BY <2>2 DEF OnStack
<1>6. RestInv'
  BY <1>1, <1>5 DEF CSInv, RestInv
<1>7. MainInv'
  BY <1>1 DEF CSInv, MainInv
<1>8. Types' /\ CountIsNesting'
  <2>1. Types'
    BY <1>1 DEF CSInv, Types
  <2> QED BY <1>1, <2>1, AccountSame DEF CSInv
<1> QED BY <1>4, <1>6, <1>7, <1>8 DEF CSInv

\* A handler returns, with its locks released.
LEMMA ReturnLemma == ASSUME CSInv, NEW i \in Isrs, ReturnFromIsr(i) PROVE CSInv'
<1>1. /\ Running(i) /\ pc[i] = "run" /\ ~Inside(i)
      /\ active' = Tail(active)
      /\ UNCHANGED <<count, primask, pc, depth, boot, waiting, event>>
  BY DEF ReturnFromIsr
<1>2. i \in Contexts /\ i # Main /\ active[1] = i /\ Len(active) # 1
  <2>1. i \in Contexts /\ i # Main
    BY Bounds
  <2> QED BY <1>1, <2>1, RunningLemma DEF CSInv
<1>3. active \in Seq(Contexts) /\ Len(active) \in Nat /\ Len(active) > 1 /\ active # <<>>
  BY <1>2 DEF CSInv, StackInv
<1>4. /\ active' \in Seq(Contexts) /\ Len(active') = Len(active) - 1
      /\ \A k \in 1..(Len(active) - 1) : active'[k] = active[k + 1]
  BY <1>1, <1>3
<1>5. StackInv'
  <2>1. active'[Len(active')] = Main /\ Len(active') > 0
    BY <1>3, <1>4 DEF CSInv, StackInv
  <2>2. ASSUME NEW k \in 1..Len(active'), NEW l \in 1..Len(active'), k < l
        PROVE  Level(active'[k]) < Level(active'[l])
    <3>1. /\ k + 1 \in 1..Len(active) /\ l + 1 \in 1..Len(active) /\ k + 1 < l + 1
          /\ active'[k] = active[k + 1] /\ active'[l] = active[l + 1]
      BY <1>3, <1>4, <2>2
    <3> QED BY <3>1 DEF CSInv, StackInv
  <2>3. \A k, l \in 1..Len(active') : k < l => Level(active'[k]) < Level(active'[l])
    BY <2>2
  <2>4. StackInv' <=>
          /\ active' \in Seq(Contexts) /\ Len(active') > 0
          /\ active'[Len(active')] = Main
          /\ \A k, l \in 1..Len(active') : k < l => Level(active'[k]) < Level(active'[l])
          /\ Len(active') > 1 => boot' = "enabled" \/ (boot' = "irqs_on" /\ BootInterrupts)
    BY DEF StackInv, Level, Contexts
  <2>5. boot' = "enabled" \/ (boot' = "irqs_on" /\ BootInterrupts)
    BY <1>1, <1>3 DEF CSInv, StackInv
  <2> QED BY <1>4, <2>1, <2>3, <2>4, <2>5
<1>6. depth[i] = 0
  BY <1>1, <1>2, SharesType DEF Inside, CSInv
<1>7. RestInv'
  <2>1. ASSUME NEW x \in Contexts, OnStack(x), x # i PROVE OnStack(x)'
    <3>1. PICK k \in 1..Len(active) : active[k] = x
      BY <2>1 DEF OnStack
    <3>2. k # 1
      BY <1>2, <2>1, <3>1
    <3>3. k - 1 \in 1..Len(active') /\ active'[k - 1] = x
      BY <1>3, <1>4, <3>1, <3>2
    <3> QED BY <3>3 DEF OnStack
  <2> QED BY <1>1, <1>6, <2>1 DEF CSInv, RestInv
<1>8. MainInv'
  BY <1>1, <1>3 DEF CSInv, MainInv
<1>9. Types' /\ CountIsNesting'
  <2>1. Types'
    BY <1>1 DEF CSInv, Types
  <2> QED BY <1>1, <2>1, AccountSame DEF CSInv
<1> QED BY <1>5, <1>7, <1>8, <1>9 DEF CSInv

\* The end of the boot: the count loses the one it started with.
LEMMA EnableInterruptsLemma == ASSUME CSInv, EnableInterrupts PROVE CSInv'
<1>1. /\ Running(Main) /\ pc[Main] = "run" /\ ~Inside(Main)
      /\ boot = "irqs_on" /\ boot' = "enabled"
      /\ count' = count - 1
      /\ UNCHANGED <<primask, active, depth, waiting, event>>
  BY DEF EnableInterrupts
<1>2. pc' = pc \/ pc' = [pc EXCEPT ![Main] = "unmask"]
  BY DEF EnableInterrupts
<1>3. Main \in Contexts /\ OnStack(Main) /\ Len(active) = 1 /\ Types /\ depth[Main] = 0
  <2>1. Main \in Contexts
    BY Bounds
  <2> QED BY <1>1, <2>1, RunningLemma, SharesType DEF CSInv, Inside
<1>4. Types'
  BY <1>1, <1>2, <1>3 DEF Types
<1>5. CountIsNesting'
  <2> DEFINE w == [x \in Contexts |-> Share(x)]
             v == [x \in Contexts |-> Share(x)']
  <2>1. \A x \in Contexts : (pc'[x] = "mask") <=> (pc[x] = "mask")
    BY <1>1, <1>2, <1>3 DEF Types
  <2>2. \A x \in Contexts : Share(x)' = Share(x)
    BY <1>1, <2>1 DEF Share
  <2>3. w = v
    BY <2>2
  <2>4. count = SumOver(w) + 1
    BY <1>1 DEF CSInv, CountIsNesting
  <2>5. CountIsNesting' <=> count' = SumOver(v) + 0
    BY <1>1 DEF CountIsNesting, SumOver, Contexts
  <2>6. w \in Weights
    BY <1>3, SharesType DEF Shares
  <2> HIDE DEF w, v
  <2>7. SumOver(w) \in Nat
    BY <2>6, SumOverIsSums, SumsType
  <2> QED BY <1>1, <2>3, <2>4, <2>5, <2>7
<1>6. RestInv'
  <2>1. \A x \in Contexts \ {Main} : pc'[x] = pc[x]
    BY <1>2, <1>3 DEF Types
  <2> QED BY <1>1, <1>3, <2>1 DEF CSInv, RestInv, OnStack
<1>7. StackInv' /\ MainInv'
  BY <1>1, <1>3 DEF CSInv, StackInv, MainInv
<1> QED BY <1>4, <1>5, <1>6, <1>7 DEF CSInv

\* Steps that touch neither the locks nor the stack.
LEMMA OtherLemma ==
    ASSUME CSInv, UNCHANGED <<count, primask, active, pc, depth>>,
           boot' = boot \/ (boot = "irqs_off" /\ boot' = "irqs_on"),
           waiting' \in BOOLEAN, event' \in BOOLEAN
    PROVE  CSInv'
<1>1. Types'
  BY DEF CSInv, Types
<1>2. StackInv' /\ RestInv' /\ MainInv'
  BY DEF CSInv, StackInv, RestInv, OnStack, MainInv
<1>3. CountIsNesting'
  <2>1. CASE boot' = boot
    BY <2>1, AccountSame DEF CSInv
  <2>2. CASE boot = "irqs_off" /\ boot' = "irqs_on"
    BY <2>2 DEF CSInv, CountIsNesting, SumOver, Share, Contexts
  <2> QED BY <2>1, <2>2
<1> QED BY <1>1, <1>2, <1>3 DEF CSInv

\* Every step keeps the invariant.
LEMMA StepLemma == CSInv /\ [Next]_vars => CSInv'
<1> SUFFICES ASSUME CSInv, [Next]_vars PROVE CSInv'
  OBVIOUS
<1>0. Main \in Contexts /\ waiting \in BOOLEAN /\ event \in BOOLEAN
  BY Bounds, Zenon DEF CSInv, Types
<1>1. ASSUME NEW c \in Contexts, Disable(c) PROVE CSInv'
  BY <1>1, FetchAddLemma DEF Disable
<1>2. ASSUME NEW c \in Contexts, Mask(c) PROVE CSInv'
  BY <1>2, MaskLemma
<1>3. ASSUME NEW c \in Contexts, Enable(c) PROVE CSInv'
  BY <1>3, FetchSubLemma DEF Enable, Inside
<1>4. ASSUME NEW c \in Contexts, Unmask(c) PROVE CSInv'
  BY <1>4, UnmaskLemma
<1>5. CASE BeginWait
  <2>1. waiting' \in BOOLEAN
    BY <1>5, Zenon DEF BeginWait
  <2> QED BY <1>0, <1>5, <2>1, OtherLemma DEF BeginWait
<1>6. CASE Test
  <2>1. CASE UNCHANGED <<count, depth, pc>> /\ event' = FALSE /\ waiting' = FALSE
    <3>1. waiting' \in BOOLEAN /\ event' \in BOOLEAN
      BY <2>1, Zenon
    <3> QED BY <1>6, <2>1, <3>1, OtherLemma DEF Test
  <2>2. CASE FetchSub(Main) /\ UNCHANGED <<event, waiting>>
    BY <1>0, <1>6, <2>2, FetchSubLemma DEF Test
  <2> QED BY <1>6, <2>1, <2>2 DEF Test, Retry
<1>7. ASSUME NEW i \in Isrs, Preempt(i) PROVE CSInv'
  BY <1>7, PreemptLemma
<1>8. ASSUME NEW i \in Isrs, Signal(i) PROVE CSInv'
  <2>1. event' \in BOOLEAN
    BY <1>8, Zenon DEF Signal
  <2> QED BY <1>0, <1>8, <2>1, OtherLemma DEF Signal
<1>9. ASSUME NEW i \in Isrs, ReturnFromIsr(i) PROVE CSInv'
  BY <1>9, ReturnLemma
<1>10. CASE InitInterrupts
  BY <1>0, <1>10, OtherLemma DEF InitInterrupts
<1>11. CASE EnableInterrupts
  BY <1>11, EnableInterruptsLemma
<1>12. CASE UNCHANGED vars
  BY <1>0, <1>12, OtherLemma DEF vars
<1> QED BY <1>1, <1>2, <1>3, <1>4, <1>5, <1>6, <1>7, <1>8, <1>9, <1>10,
           <1>11, <1>12 DEF Next

\* CSInv holds in every reachable state.
THEOREM Invariance == Spec => []CSInv
<1>1. CSInv /\ [Next]_vars => CSInv'
  BY StepLemma
<1> QED BY <1>1, InitLemma, PTL DEF Spec

\* disable_count is the number of locks held, by any number of contexts at
\* any depth.
THEOREM Nesting == Spec => []CountIsNesting
<1>1. CSInv => CountIsNesting
  BY DEF CSInv
<1> QED BY <1>1, Invariance, PTL

\* A section of the main program is masked and undisturbed, whatever the
\* priorities.
THEOREM MainProtection == Spec => []MainProtected
<1>1. CSInv => MainProtected
  <2> SUFFICES ASSUME CSInv, boot = "enabled", Inside(Main)
               PROVE  primask /\ active = <<Main>>
    BY DEF MainProtected
  <2>1. primask /\ Len(active) = 1
    BY DEF Inside, CSInv, MainInv
  <2>2. active \in Seq(Contexts) /\ active[1] = Main
    BY <2>1 DEF CSInv, StackInv
  <2>3. active = <<Main>>
    BY <2>1, <2>2
  <2> QED BY <2>1, <2>3
<1> QED BY <1>1, Invariance, PTL

\* Every variable has its type: the count is never negative, no context
\* releases a lock it does not hold, and locks nest within their bound.
THEOREM TypeCorrectness == Spec => []TypeOK
<1>1. CSInv => TypeOK
  <2> SUFFICES ASSUME CSInv PROVE TypeOK
    OBVIOUS
  <2>1. Types /\ CountIsNesting /\ Main \in Contexts
    BY Bounds DEF CSInv
  <2>2. active \in Seq(Contexts) /\ active # <<>>
    BY DEF CSInv, StackInv
  <2>3. count \in Nat
    <3>1. PICK rest \in Nat :
              count = Share(Main) + rest + (IF boot = "enabled" THEN 0 ELSE 1)
      BY <2>1, CountLemma
    <3>2. Share(Main) \in Nat
      BY <2>1, SharesType
    <3> QED BY <3>1, <3>2
  <2> QED BY <2>1, <2>2, <2>3 DEF Types, TypeOK
<1> QED BY <1>1, Invariance, PTL

-----------------------------------------------------------------------------
(***************************************************************************)
(* One priority                                                            *)
(***************************************************************************)

\* As interrupt_config.hpp configures it: every line has the same priority.
SamePriority == \A i, j \in Isrs : Prio[i] = Prio[j]

\* And no peripheral is set up before the main loop.
Deployed == SamePriority /\ ~BootInterrupts

\* Main alone, or one handler above it.
LEMMA OneHandler ==
    ASSUME SamePriority, CSInv
    PROVE  /\ Len(active) = 1 \/ Len(active) = 2
           /\ \A i \in Isrs : OnStack(i) =>
                  Len(active) = 2 /\ active[1] = i /\ Running(i)
<1>1. active \in Seq(Contexts) /\ Len(active) \in Nat /\ Len(active) > 0 /\ active # <<>>
  BY DEF CSInv, StackInv
<1>2. \A k \in 1..Len(active) : k < Len(active) => active[k] \in Isrs
  <2> SUFFICES ASSUME NEW k \in 1..Len(active), k < Len(active) PROVE active[k] \in Isrs
    OBVIOUS
  <2>1. active[k] \in Contexts /\ Len(active) \in 1..Len(active)
    BY <1>1
  <2>2. Level(active[k]) < 16
    BY <1>1, <2>1, Bounds DEF CSInv, StackInv
  <2>3. active[k] # Main
    <3> SUFFICES ASSUME active[k] = Main PROVE FALSE
      OBVIOUS
    <3>1. Level(active[k]) = 16
      BY Bounds
    <3> QED BY <2>2, <3>1
  <2> QED BY <2>1, <2>3, Bounds
<1>3. ~(Len(active) > 2)
  <2> SUFFICES ASSUME Len(active) > 2 PROVE FALSE
    OBVIOUS
  <2>1. active[1] \in Isrs /\ active[2] \in Isrs
    BY <1>1, <1>2
  <2>2. Level(active[1]) < Level(active[2])
    BY <1>1 DEF CSInv, StackInv
  <2>3. Level(active[1]) = Level(active[2]) /\ Level(active[1]) \in 0..16
    <3>1. active[1] # Main /\ active[2] # Main
      BY <2>1, CSAssumption
    <3>2. Level(active[1]) = Prio[active[1]] /\ Level(active[2]) = Prio[active[2]]
      BY <3>1 DEF Level
    <3>3. Prio[active[1]] = Prio[active[2]] /\ Prio[active[1]] \in 0..15
      BY <2>1, CSAssumption DEF SamePriority
    <3> QED BY <3>2, <3>3
  <2> DEFINE a == Level(active[1])
             b == Level(active[2])
  <2>4. a < b /\ a = b /\ a \in 0..16
    BY <2>2, <2>3
  <2> HIDE DEF a, b
  <2> QED BY <2>4
<1>4. Len(active) = 1 \/ Len(active) = 2
  <2> DEFINE n == Len(active)
  <2>1. n \in Nat /\ n > 0 /\ ~(n > 2)
    BY <1>1, <1>3
  <2> HIDE DEF n
  <2>2. n = 1 \/ n = 2
    BY <2>1
  <2> QED BY <2>2 DEF n
<1>5. ASSUME NEW i \in Isrs, OnStack(i) PROVE Len(active) = 2 /\ active[1] = i /\ Running(i)
  <2>1. PICK k \in 1..Len(active) : active[k] = i
    BY <1>5 DEF OnStack
  <2>2. i # Main /\ active[Len(active)] = Main
    BY CSAssumption DEF CSInv, StackInv
  <2>3. k = 1 /\ Len(active) = 2
    BY <1>1, <1>4, <2>1, <2>2
  <2> QED BY <1>1, <2>1, <2>3 DEF Running
<1> QED BY <1>4, <1>5

\* Two contexts inside: one of them is Main, and it is during the boot.
LEMMA AtMostOneInside ==
    ASSUME SamePriority, CSInv, NEW c \in Contexts, NEW d \in Contexts,
           Inside(c), Inside(d), c # d
    PROVE  boot # "enabled" /\ Len(active) > 1
<1>1. ASSUME NEW x \in Contexts, Inside(x) PROVE OnStack(x) /\ depth[x] > 0
  BY <1>1 DEF Inside, CSInv, RestInv
<1>2. ASSUME NEW i \in Isrs, Inside(i) PROVE active[1] = i /\ Len(active) = 2
  BY <1>1, <1>2, Bounds, OneHandler
<1>3. CASE c \in Isrs /\ d \in Isrs
  BY <1>2, <1>3
<1>4. CASE c = Main \/ d = Main
  <2>1. PICK i \in Isrs : Inside(i) /\ Inside(Main)
    BY <1>4 DEF Contexts
  <2>2. Len(active) = 2
    BY <1>2, <2>1
  <2> QED BY <2>1, <2>2 DEF CSInv, MainInv, Inside
<1> QED BY <1>3, <1>4 DEF Contexts

\* Once the boot is over, two contexts are never inside a critical section at
\* once, whatever was requested during it.
THEOREM ExclusionOnceUp ==
    ASSUME SamePriority
    PROVE  Spec => [](boot = "enabled" => MutualExclusion)
<1>1. CSInv => (boot = "enabled" => MutualExclusion)
  BY AtMostOneInside DEF MutualExclusion
<1> QED BY <1>1, Invariance, PTL

\* Two contexts are never inside a critical section at once, not even during
\* the boot.
THEOREM Exclusion == ASSUME Deployed PROVE Spec => []MutualExclusion
<1>1. CSInv => MutualExclusion
  <2> SUFFICES ASSUME CSInv, NEW c \in Contexts, NEW d \in Contexts,
                      Inside(c), Inside(d), c # d
               PROVE  FALSE
    BY DEF MutualExclusion
  <2>1. boot # "enabled" /\ Len(active) > 1
    BY AtMostOneInside DEF Deployed
  <2> QED BY <2>1 DEF Deployed, CSInv, StackInv
<1> QED BY <1>1, Invariance, PTL

-----------------------------------------------------------------------------
(***************************************************************************)
(* A handler's section is masked too, unless the handler broke in between  *)
(* Main's count and its cpsid: its own first lock then found a count that  *)
(* was not zero.                                                           *)
(***************************************************************************)
HandlerInv ==
    boot = "enabled" =>
        \A i \in Isrs : depth[i] > 0 => primask \/ pc[Main] = "mask"

\* With Main at rest a handler's first lock finds the count at zero.
LEMMA FirstLock ==
    ASSUME SamePriority, CSInv, boot = "enabled", NEW i \in Isrs, Running(i),
           count # 0, depth[i] = 0, pc[i] = "run"
    PROVE  pc[Main] = "mask"
<1>1. i \in Contexts /\ i # Main /\ Main \in Contexts
  BY Bounds
<1>2. active[1] = i /\ OnStack(i) /\ Len(active) = 2
  <2>1. OnStack(i)
    BY <1>1, RunningLemma DEF CSInv
  <2> QED BY <2>1, OneHandler
<1>3. \A x \in Contexts \ {Main, i} : Share(x) = 0
  <2> SUFFICES ASSUME NEW x \in Contexts \ {Main, i} PROVE Share(x) = 0
    OBVIOUS
  <2>1. x \in Isrs /\ ~OnStack(x)
    BY <1>2, OneHandler DEF Contexts
  <2> QED BY <2>1 DEF CSInv, RestInv, Share
<1>4. Share(i) = 0
  BY <1>1 DEF Share
<1>5. Share(Main) # 0
  <2> SUFFICES ASSUME Share(Main) = 0 PROVE FALSE
    OBVIOUS
  <2>1. PICK rest \in Nat : /\ count = Share(Main) + rest + (IF boot = "enabled" THEN 0 ELSE 1)
                            /\ (\A x \in Contexts \ {Main} : Share(x) = 0) => rest = 0
    BY <1>1, CountLemma DEF CSInv
  <2>2. rest = 0
    BY <1>3, <1>4, <2>1
  <2> QED BY <2>1, <2>2
<1>6. depth[Main] = 0
  <2>1. depth[Main] \in Nat /\ ~(depth[Main] > 0)
    BY <1>1, <1>2, SharesType DEF CSInv, MainInv
  <2> QED BY <2>1
<1> QED BY <1>5, <1>6 DEF Share

\* A context that runs with no lock held leaves every handler without one.
LEMMA NoneInside ==
    ASSUME SamePriority, CSInv, NEW c \in Contexts, Running(c), depth[c] = 0
    PROVE  \A i \in Isrs : depth[i] = 0
<1> SUFFICES ASSUME NEW i \in Isrs, depth[i] # 0 PROVE FALSE
  OBVIOUS
<1>1. i \in Contexts /\ OnStack(i)
  BY Bounds DEF CSInv, RestInv
<1>2. active[1] = i /\ active[1] = c
  BY <1>1, OneHandler, RunningLemma DEF CSInv
<1> QED BY <1>2

\* Every step keeps HandlerInv.
LEMMA ShelterStep ==
    ASSUME SamePriority, CSInv, HandlerInv, [Next]_vars
    PROVE  HandlerInv'
<1>0. Main \in Contexts /\ \A i \in Isrs : i \in Contexts /\ i # Main
  BY CSAssumption DEF Contexts
<1>1. Types
  BY DEF CSInv
<1>2. ASSUME NEW c \in Contexts, Disable(c) PROVE HandlerInv'
  <2>1. Running(c) /\ pc[c] = "run" /\ FetchAdd(c) /\ UNCHANGED <<primask, boot>>
    BY <1>2 DEF Disable
  <2>2. CASE count = 0
    BY <1>0, <1>1, <2>1, <2>2 DEF FetchAdd, NeedsMask, HandlerInv, Types
  <2>3. CASE count # 0
    <3>1. depth' = [depth EXCEPT ![c] = @ + 1] /\ pc' = pc
      BY <2>1, <2>3 DEF FetchAdd, NeedsMask, Enter
    <3>2. ASSUME NEW i \in Isrs, depth'[i] > 0, boot = "enabled" PROVE primask' \/ pc'[Main] = "mask"
      <4>1. CASE i # c \/ depth[i] > 0
        BY <1>0, <1>1, <2>1, <3>1, <3>2, <4>1 DEF HandlerInv, Types
      <4>2. CASE i = c /\ ~(depth[i] > 0)
        <5>1. depth[i] = 0
          BY <1>0, <1>1, <4>2, CSAssumption DEF Types
        <5> QED BY <2>1, <2>3, <3>1, <3>2, <4>2, <5>1, FirstLock
      <4> QED BY <4>1, <4>2
    <3> QED BY <2>1, <3>2 DEF HandlerInv
  <2> QED BY <2>2, <2>3
<1>3. ASSUME NEW c \in Contexts, Mask(c) PROVE HandlerInv'
  BY <1>3 DEF Mask, HandlerInv
<1>4. ASSUME NEW c \in Contexts, FetchSub(c), Running(c), pc[c] = "run", UNCHANGED <<primask, boot>>
      PROVE  HandlerInv'
  <2>1. \A i \in Isrs : depth'[i] > 0 => depth[i] > 0
    BY <1>0, <1>1, <1>4, CSAssumption DEF FetchSub, Types
  <2>2. pc[Main] = "mask" => pc'[Main] = "mask"
    BY <1>0, <1>1, <1>4 DEF FetchSub, Types
  <2> QED BY <1>4, <2>1, <2>2 DEF HandlerInv
<1>5. ASSUME NEW c \in Contexts, Unmask(c) PROVE HandlerInv'
  <2>1. depth[c] = 0 /\ Running(c) /\ UNCHANGED depth
    BY <1>5 DEF Unmask, CSInv, RestInv
  <2> QED BY <2>1, NoneInside DEF HandlerInv
<1>6. CASE Test
  <2>1. Running(Main) /\ pc[Main] = "run" /\ UNCHANGED <<primask, boot>>
    BY <1>6 DEF Test
  <2>2. CASE UNCHANGED <<count, depth, pc>>
    BY <2>1, <2>2 DEF HandlerInv
  <2>3. CASE FetchSub(Main)
    BY <1>0, <1>4, <2>1, <2>3
  <2> QED BY <1>6, <2>2, <2>3 DEF Test, Retry
<1>7. CASE EnableInterrupts
  <2>1. Running(Main) /\ depth[Main] = 0 /\ UNCHANGED depth
    BY <1>0, <1>1, <1>7, CSAssumption DEF EnableInterrupts, Inside, Types
  <2> QED BY <1>0, <2>1, NoneInside DEF HandlerInv
<1>8. CASE UNCHANGED <<primask, pc, depth>> /\ (boot' = boot \/ boot' # "enabled")
  BY <1>8 DEF HandlerInv
<1>9. ASSUME NEW c \in Contexts, Enable(c) PROVE HandlerInv'
  BY <1>4, <1>9 DEF Enable
<1> QED
  BY <1>2, <1>3, <1>5, <1>6, <1>7, <1>8, <1>9
  DEF Next, vars, BeginWait, Preempt, Signal, ReturnFromIsr, InitInterrupts

\* Once the boot is over every section is masked, or is a handler's that came
\* in between Main's count and its cpsid, whatever was requested during it.
THEOREM Shelter == ASSUME SamePriority PROVE Spec => []Sheltered
<1>1. Init => HandlerInv
  BY CSAssumption DEF Init, HandlerInv, Contexts
<1>2. CSInv /\ HandlerInv /\ [Next]_vars => HandlerInv'
  BY ShelterStep
<1>3. CSInv /\ HandlerInv => Sheltered
  BY CSAssumption DEF CSInv, MainInv, HandlerInv, Sheltered, Inside, Contexts
<1> QED BY <1>1, <1>2, <1>3, Invariance, PTL DEF Spec
=============================================================================
