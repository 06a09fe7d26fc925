----------------------------- MODULE DedupProofs -----------------------------
(***************************************************************************)
(* What InMemoryDedup promises, for any TTL, any size and any messages.    *)
(* PassesApart is not inductive: the map may have evicted a message that   *)
(* was let through, so the invariant says which ones it still has.         *)
(***************************************************************************)
EXTENDS Dedup, FiniteSetTheorems, TLAPS

(* A message that was let through at most Ttl ago is still in the map, and *)
(* the map has the time it was let through.                                *)
Remembers ==
    \A m \in Messages :
        /\ passedAt[m] <= now
        /\ passedAt[m] >= 0 /\ now <= passedAt[m] + Ttl => m \in DOMAIN seen
        /\ m \in DOMAIN seen => seen[m] = passedAt[m]

DInv == TypeOK /\ Remembers /\ IsFiniteSet(DOMAIN seen)

-----------------------------------------------------------------------------
LEMMA DInvInit == Init => DInv
BY FS_EmptySet DEF Init, DInv, TypeOK, Remembers

\* The entry that is added; those that stay have not changed.
LEMMA PassEntries ==
  ASSUME DInv, NEW m \in Messages, Pass(m)
  PROVE  /\ DOMAIN seen' = Retained \cup {m}
         /\ seen'[m] = now
         /\ Retained \subseteq DOMAIN seen
         /\ \A x \in Retained : x # m => seen'[x] = seen[x]
         /\ \A x \in DOMAIN seen : x \notin Retained => now > seen[x] + Ttl
BY DEF Pass, Retained, Expired

LEMMA PassPreserves ==
  ASSUME SizesAssumption, DInv, NEW m \in Messages, Pass(m)
  PROVE  DInv'
<1>1. passedAt' = [passedAt EXCEPT ![m] = now] /\ now' = now
  BY DEF Pass
<1>2. /\ DOMAIN seen' = Retained \cup {m}
      /\ seen'[m] = now
      /\ Retained \subseteq DOMAIN seen
      /\ \A x \in Retained : x # m => seen'[x] = seen[x]
      /\ \A x \in DOMAIN seen : x \notin Retained => now > seen[x] + Ttl
  BY PassEntries
<1>3. now \in Nat /\ Ttl \in Nat /\ \A x \in DOMAIN seen : seen[x] \in Nat
  BY DEF DInv, TypeOK, SizesAssumption
<1>4. TypeOK'
  <2>1. passedAt' \in [Messages -> Nat \cup {-1}]
    BY <1>1 DEF DInv, TypeOK
  <2>2. \A x \in DOMAIN seen' : seen'[x] \in Nat
    BY PassEntries DEF DInv, TypeOK
  <2> QED BY <1>1, <2>1, <2>2, PassEntries DEF DInv, TypeOK
<1>5. Remembers'
  <2> SUFFICES ASSUME NEW x \in Messages
               PROVE  /\ passedAt'[x] <= now'
                      /\ passedAt'[x] >= 0 /\ now' <= passedAt'[x] + Ttl => x \in DOMAIN seen'
                      /\ x \in DOMAIN seen' => seen'[x] = passedAt'[x]
    BY DEF Remembers
  <2>1. CASE x = m
    <3>1. passedAt'[m] = now
      BY <1>1 DEF DInv, TypeOK
    <3> QED BY <2>1, <1>1, <1>2, <1>3, <3>1
  <2>2. CASE x # m
    <3>1. passedAt'[x] = passedAt[x]
      BY <2>2, <1>1 DEF DInv, TypeOK
    <3>2. x \in DOMAIN seen /\ now <= seen[x] + Ttl => x \in Retained
      BY <1>2, <1>3
    <3>3. /\ passedAt[x] <= now
          /\ passedAt[x] >= 0 /\ now <= passedAt[x] + Ttl => x \in DOMAIN seen
          /\ x \in DOMAIN seen => seen[x] = passedAt[x]
      BY DEF DInv, Remembers
    <3>4. x \in DOMAIN seen' <=> x \in Retained
      BY <2>2, <1>2
    <3> QED BY <2>2, <1>1, <1>2, <3>1, <3>2, <3>3, <3>4
  <2> QED BY <2>1, <2>2
<1>6. IsFiniteSet(DOMAIN seen')
  <2>1. IsFiniteSet(Retained)
    BY <1>2, FS_Subset DEF DInv
  <2>2. IsFiniteSet(Retained \cup {m})
    BY <2>1, FS_AddElement
  <2> QED BY <1>2, <2>2
<1> QED BY <1>4, <1>5, <1>6 DEF DInv

LEMMA TickPreserves ==
  ASSUME SizesAssumption, DInv, Tick
  PROVE  DInv'
<1>1. TypeOK'
  BY DEF DInv, TypeOK, Tick
<1>2. Remembers'
  BY DEF DInv, TypeOK, Remembers, Tick, SizesAssumption
<1> QED BY <1>1, <1>2 DEF DInv, Tick

LEMMA DInvNext ==
  ASSUME SizesAssumption, DInv, [Next]_vars
  PROVE  DInv'
<1>1. CASE UNCHANGED vars
  BY <1>1 DEF DInv, TypeOK, Remembers, vars
<1>2. ASSUME NEW m \in Messages, Drop(m) PROVE DInv'
  BY <1>2 DEF DInv, TypeOK, Remembers, Drop, vars
<1> QED BY <1>1, <1>2, PassPreserves, TickPreserves DEF Next

-----------------------------------------------------------------------------
(* One step lets a message through only if its last time is Ttl ago.       *)
LEMMA PassIsApart ==
  ASSUME SizesAssumption, DInv, NEW m \in Messages, Pass(m), passedAt[m] >= 0
  PROVE  now - passedAt[m] >= Ttl
<1>1. now \in Nat /\ passedAt[m] \in Nat /\ Ttl \in Nat
  BY DEF DInv, TypeOK, SizesAssumption
<1>2. CASE m \in DOMAIN seen
  BY <1>1, <1>2 DEF DInv, Remembers, Pass, Remembered
<1>3. CASE m \notin DOMAIN seen
  BY <1>1, <1>3 DEF DInv, Remembers
<1> QED BY <1>2, <1>3

(* Eviction and insertion together leave at most MaxSize entries, or none  *)
(* that has expired.                                                       *)
LEMMA PassLeavesLive ==
  ASSUME SizesAssumption, DInv, NEW m \in Messages, Pass(m),
         Cardinality(DOMAIN seen') > MaxSize, NEW x \in DOMAIN seen'
  PROVE  now <= seen'[x] + Ttl
<1>1. CASE x = m
  <2>1. seen'[m] = now
    BY PassEntries
  <2> QED BY <1>1, <2>1 DEF DInv, TypeOK, SizesAssumption
<1>2. CASE x # m
  <2>1. x \in Retained /\ seen'[x] = seen[x] /\ x \in DOMAIN seen
    BY <1>2, PassEntries
  <2>2. CASE Cardinality(DOMAIN seen) >= MaxSize
    BY <2>1, <2>2 DEF Retained, Expired, DInv, TypeOK, SizesAssumption
  <2>3. CASE ~(Cardinality(DOMAIN seen) >= MaxSize)
    <3>1. DOMAIN seen' = DOMAIN seen \cup {m}
      BY <2>3, PassEntries DEF Retained
    <3>2. Cardinality(DOMAIN seen') <= Cardinality(DOMAIN seen) + 1
      BY <3>1, FS_AddElement, FS_CardinalityType DEF DInv
    <3>3. Cardinality(DOMAIN seen) \in Nat /\ Cardinality(DOMAIN seen') \in Nat
      BY <3>1, FS_AddElement, FS_CardinalityType DEF DInv
    <3> QED BY <2>3, <3>2, <3>3 DEF SizesAssumption
  <2> QED BY <2>2, <2>3
<1> QED BY <1>1, <1>2

(* The steps of the properties, for the deduplicator and for what contains *)
(* it.                                                                     *)
LEMMA StepApart ==
  ASSUME SizesAssumption, DInv, [Next]_vars, NEW m \in Messages,
         passedAt'[m] # passedAt[m], passedAt[m] >= 0
  PROVE  passedAt'[m] - passedAt[m] >= Ttl
<1>1. PICK x \in Messages : Pass(x)
  BY DEF Next, Tick, Drop, vars
<1>2. x = m /\ passedAt'[m] = now
  BY <1>1 DEF Pass, DInv, TypeOK
<1> QED BY <1>1, <1>2, PassIsApart

LEMMA StepLeavesLive ==
  ASSUME SizesAssumption, DInv, [Next]_vars, seen' # seen,
         Cardinality(DOMAIN seen') > MaxSize, NEW x \in DOMAIN seen'
  PROVE  now <= seen'[x] + Ttl
<1>1. PICK m \in Messages : Pass(m)
  BY DEF Next, Tick, Drop, vars
<1> QED BY <1>1, PassLeavesLive

(* A message is let through again only when its TTL has run out, whatever  *)
(* the map evicted in between (IsDuplicate).                               *)
THEOREM LetThroughOncePerTtl == SizesAssumption => (Spec => PassesApart)
<1> SUFFICES ASSUME SizesAssumption PROVE Spec => PassesApart
  OBVIOUS
<1>1. DInv /\ [Next]_vars =>
        [\A m \in Messages : passedAt'[m] # passedAt[m] /\ passedAt[m] >= 0
                               => passedAt'[m] - passedAt[m] >= Ttl]_vars
  BY StepApart
<1>2. DInv /\ [Next]_vars => DInv'
  BY DInvNext
<1> QED BY <1>1, <1>2, DInvInit, PTL DEF Spec, PassesApart

(* The map grows beyond MaxSize only while nothing in it has expired.      *)
THEOREM MapHoldsLive == SizesAssumption => (Spec => GrowsOnlyWithLive)
<1> SUFFICES ASSUME SizesAssumption PROVE Spec => GrowsOnlyWithLive
  OBVIOUS
<1>1. DInv /\ [Next]_vars =>
        [Cardinality(DOMAIN seen') > MaxSize /\ seen' # seen =>
           \A m \in DOMAIN seen' : now <= seen'[m] + Ttl]_vars
  BY StepLeavesLive
<1>2. DInv /\ [Next]_vars => DInv'
  BY DInvNext
<1> QED BY <1>1, <1>2, DInvInit, PTL DEF Spec, GrowsOnlyWithLive
=============================================================================
