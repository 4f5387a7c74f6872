------------------------- MODULE SnapshotMergeProofs -------------------------
(***************************************************************************)
(* What a merge makes of three snapshots that were parsed, flag by flag    *)
(* and field by field, and that an edit that is replayed agrees with it.   *)
(***************************************************************************)
EXTENDS SnapshotMerge, FlagEditProofs

Sides == {"mine", "theirs"}

-----------------------------------------------------------------------------
(* Objects. *)

LEMMA PresentObject ==
  ASSUME NEW o
  PROVE  /\ IsObject(Present(o))
         /\ \A f \in DOMAIN o : Field(Present(o), f) = o[f]
         /\ \A f : f \notin DOMAIN o => Field(Present(o), f) = Undefined
         /\ \A f \in DOMAIN Present(o) :
              f \in DOMAIN o /\ Present(o)[f] = o[f] /\ o[f] # Undefined
         /\ \A f \in DOMAIN o : o[f] # Undefined => f \in DOMAIN Present(o)
BY DEF IsObject, Present, Field

-----------------------------------------------------------------------------
(* Merging one value: a whole flag, or a field of one. *)

\* The choice the merge dialog sends for a value.
ChoiceFor(b, m, t, side) ==
  LET status == StatusOf(b, m, t) IN
  CASE status = "conflict" -> side
    [] status \in {"mine", "theirs"} -> status
    [] OTHER -> Undefined

Clash(b, m, t) == m # b /\ t # b /\ m # t

OneSided(b, m, t, r) == (m = b => r = t) /\ (t = b => r = m)

\* With a side for the conflicts a merge has a value, of one of the sides, and
\* of the side that changed it where only one did.
LEMMA PickedSide ==
  ASSUME NEW b, NEW m, NEW t, NEW side \in Sides, Sentinels, Refused \notin {m, t}
  PROVE  LET r == Picked(b, m, t, ChoiceFor(b, m, t, side)) IN
         r \in {m, t} /\ r # Refused /\ OneSided(b, m, t, r)
<1>1. CASE m = b
  BY <1>1 DEF Picked, ChoiceFor, StatusOf, DefaultSide, OneSided, Sentinels, Words, Sides
<1>2. CASE m # b /\ t = b
  BY <1>2 DEF Picked, ChoiceFor, StatusOf, DefaultSide, OneSided, Sentinels, Words, Sides
<1>3. CASE m # b /\ t # b
  BY <1>3 DEF Picked, ChoiceFor, StatusOf, DefaultSide, OneSided, Sentinels, Words, Sides
<1>4. QED
  BY <1>1, <1>2, <1>3

\* Without one it has a value unless the sides clash, and the same value.
LEMMA PickedUnasked ==
  ASSUME NEW b, NEW m, NEW t, Sentinels, Refused \notin {m, t}
  PROVE  LET r == Picked(b, m, t, ChoiceFor(b, m, t, Undefined)) IN
         /\ r = Refused <=> Clash(b, m, t)
         /\ r # Refused => r \in {m, t} /\ OneSided(b, m, t, r)
<1>1. CASE m = b
  BY <1>1 DEF Picked, ChoiceFor, StatusOf, DefaultSide, OneSided, Clash, Sentinels, Words, Sides
<1>2. CASE m # b /\ t = b
  BY <1>2 DEF Picked, ChoiceFor, StatusOf, DefaultSide, OneSided, Clash, Sentinels, Words, Sides
<1>3. CASE m # b /\ t # b
  BY <1>3 DEF Picked, ChoiceFor, StatusOf, DefaultSide, OneSided, Clash, Sentinels, Words, Sides
<1>4. QED
  BY <1>1, <1>2, <1>3

-----------------------------------------------------------------------------
(* Merging one flag. *)

Fields == MergeFields \ {"flag"}

\* What a snapshot says of a flag or of one of its fields.
PartOf(features, k, f) ==
  IF f = "flag" \/ k \notin DOMAIN features THEN Field(features, k)
  ELSE Field(features[k], f)

Keys(base_, mine_, theirs_) == DOMAIN base_ \union DOMAIN mine_ \union DOMAIN theirs_

LEMMA ChosenAt ==
  ASSUME NEW B, NEW M, NEW T, NEW side,
         NEW k \in Keys(B, M, T), NEW f \in MergeFields
  PROVE  Chosen(B, M, T, side)[k][f] =
           ChoiceFor(PartOf(B, k, f), PartOf(M, k, f), PartOf(T, k, f), side)
BY DEF Chosen, Keys, ChoiceFor, PartOf

\* The features of a snapshot that was parsed.
AreFeatures(features) ==
  Holds(features) /\ \A k \in DOMAIN features : Holds(features[k])

Whole(m, t) == Undefined \in {m, t} \/ m.type # t.type

Was(b) == IF b = Undefined THEN <<>> ELSE b

\* A flag is in the features, or it is undefined.
LEMMA FlagOf ==
  ASSUME NEW F, AreFeatures(F), NEW k, Sentinels
  PROVE  LET x == Field(F, k) IN
         /\ x # Refused
         /\ x = Undefined <=> k \notin DOMAIN F
         /\ x # Undefined => x = F[k] /\ Holds(x)
         /\ \A f \in Fields : Field(Was(x), f) = PartOf(F, k, f) /\ PartOf(F, k, f) # Refused
<1>1. CASE k \in DOMAIN F
  <2>1. Field(F, k) = F[k] /\ Holds(F[k]) /\ F[k] \notin {Undefined, Refused}
    BY <1>1 DEF Field, AreFeatures, Holds
  <2>2. ASSUME NEW f \in Fields
        PROVE  Field(Was(F[k]), f) = PartOf(F, k, f) /\ PartOf(F, k, f) # Refused
    BY <1>1, <2>1 DEF Was, PartOf, Field, Holds, Fields, Sentinels
  <2>3. QED
    BY <1>1, <2>1, <2>2
<1>2. CASE k \notin DOMAIN F
  <2>1. Field(F, k) = Undefined
    BY <1>2 DEF Field
  <2>2. DOMAIN <<>> = {}
    OBVIOUS
  <2>3. ASSUME NEW f \in Fields
        PROVE  Field(Was(Undefined), f) = Undefined /\ PartOf(F, k, f) = Undefined
    <3>1. f \notin DOMAIN <<>>
      BY <2>2
    <3>2. QED
      BY <1>2, <2>1, <3>1 DEF Was, Field, PartOf
  <2>4. QED
    BY <1>2, <2>1, <2>3 DEF Sentinels
<1>3. QED
  BY <1>1, <1>2

\* The fields of a flag that both sides changed, one by one.
LEMMA MergedByField ==
  ASSUME NEW b, NEW m, NEW t, NEW choice, ByField(b, m, t)
  PROVE  LET merged == [f \in Fields |->
                          Picked(Field(Was(b), f), Field(m, f), Field(t, f), choice[f])]
             r == MergedFlag(b, m, t, choice)
         IN /\ r = IF \E f \in Fields : merged[f] = Refused THEN Refused ELSE Present(merged)
            /\ \A f \in Fields :
                 merged[f] = Picked(Field(Was(b), f), Field(m, f), Field(t, f), choice[f])
BY DEF MergedFlag, Fields, Was

LEMMA MergedWhole ==
  ASSUME NEW b, NEW m, NEW t, NEW choice, ~ByField(b, m, t)
  PROVE  MergedFlag(b, m, t, choice) = Picked(b, m, t, choice["flag"])
BY DEF MergedFlag

\* A flag of the merge, when conflicts have a side.
FlagMerged(b, m, t, r) ==
  /\ r # Refused
  /\ OneSided(b, m, t, r)
  /\ ByField(b, m, t) \/ r \in {m, t}
  /\ ByField(b, m, t) =>
       /\ Holds(r) /\ r # Undefined
       /\ DOMAIN r \subseteq Fields
       /\ \A f \in Fields : Field(r, f) \in {Field(m, f), Field(t, f)}
  /\ ~Whole(m, t) =>
       /\ r # Undefined
       /\ \A f \in Fields :
            OneSided(Field(Was(b), f), Field(m, f), Field(t, f), Field(r, f))

LEMMA ConflictOfTwo ==
  ASSUME NEW b, NEW m, NEW t
  PROVE  ByField(b, m, t) <=> Clash(b, m, t) /\ ~Whole(m, t)
BY DEF ByField, StatusOf, Clash, Whole

\* A flag that only one side touched as a whole has no field that clashes, and
\* the fields of the side that touched it.
LEMMA WholeIsFieldwise ==
  ASSUME NEW b, NEW m, NEW t, NEW r, ~Whole(m, t), ~Clash(b, m, t),
         OneSided(b, m, t, r), r \in {m, t}
  PROVE  \A f \in Fields :
           /\ OneSided(Field(Was(b), f), Field(m, f), Field(t, f), Field(r, f))
           /\ ~Clash(Field(Was(b), f), Field(m, f), Field(t, f))
<1>1. Undefined \notin {m, t}
  BY DEF Whole
<1>2. CASE m = b
  BY <1>1, <1>2 DEF OneSided, Clash, Was
<1>3. CASE t = b
  BY <1>1, <1>3 DEF OneSided, Clash, Was
<1>4. CASE m = t
  BY <1>1, <1>4 DEF OneSided, Clash, Was
<1>5. QED
  BY <1>2, <1>3, <1>4 DEF Clash

LEMMA MergedFlagSide ==
  ASSUME NEW B, NEW M, NEW T, NEW side \in Sides, Sentinels,
         AreFeatures(B), AreFeatures(M), AreFeatures(T),
         NEW k \in Keys(B, M, T)
  PROVE  FlagMerged(Field(B, k), Field(M, k), Field(T, k),
                    MergedFlag(Field(B, k), Field(M, k), Field(T, k),
                               Chosen(B, M, T, side)[k]))
<1> DEFINE b == Field(B, k)
           m == Field(M, k)
           t == Field(T, k)
           choice == Chosen(B, M, T, side)[k]
           r == MergedFlag(b, m, t, choice)
<1>1. /\ Refused \notin {m, t}
      /\ \A f \in Fields : /\ Field(Was(b), f) = PartOf(B, k, f)
                           /\ Field(Was(m), f) = PartOf(M, k, f)
                           /\ Field(Was(t), f) = PartOf(T, k, f)
                           /\ Refused \notin {PartOf(M, k, f), PartOf(T, k, f)}
  BY FlagOf
<1>2. choice["flag"] = ChoiceFor(b, m, t, side)
  <2>1. "flag" \in MergeFields
    BY DEF MergeFields
  <2>2. QED
    BY <2>1, ChosenAt DEF PartOf
<1>3. \A f \in Fields :
        choice[f] = ChoiceFor(PartOf(B, k, f), PartOf(M, k, f), PartOf(T, k, f), side)
  BY ChosenAt DEF Fields
<1> HIDE DEF choice, b, m, t
<1>4. CASE ~ByField(b, m, t)
  <2>1. r = Picked(b, m, t, ChoiceFor(b, m, t, side))
    BY <1>2, <1>4, MergedWhole
  <2>2. r \in {m, t} /\ r # Refused /\ OneSided(b, m, t, r)
    BY <1>1, <2>1, PickedSide
  <2> HIDE DEF r
  <2>3. ~Whole(m, t) => ~Clash(b, m, t) /\ Undefined \notin {m, t}
    BY <1>4, ConflictOfTwo DEF Whole
  <2>4. ~Whole(m, t) =>
          \A f \in Fields :
            OneSided(Field(Was(b), f), Field(m, f), Field(t, f), Field(r, f))
    BY <2>2, <2>3, WholeIsFieldwise
  <2>5. FlagMerged(b, m, t, r)
    BY <1>4, <2>2, <2>3, <2>4 DEF FlagMerged
  <2>6. QED
    BY <2>5 DEF r, b, m, t, choice
<1>5. CASE ByField(b, m, t)
  <2> DEFINE merged == [f \in Fields |->
                 Picked(Field(Was(b), f), Field(m, f), Field(t, f), choice[f])]
  <2>1. Clash(b, m, t) /\ ~Whole(m, t) /\ Was(m) = m /\ Was(t) = t
    BY <1>5, ConflictOfTwo DEF Whole, Was
  <2>2. ASSUME NEW f \in Fields
        PROVE  /\ merged[f] # Refused
               /\ merged[f] \in {Field(m, f), Field(t, f)}
               /\ OneSided(Field(Was(b), f), Field(m, f), Field(t, f), merged[f])
    <3>1. merged[f] = Picked(Field(Was(b), f), Field(m, f), Field(t, f),
                             ChoiceFor(Field(Was(b), f), Field(m, f), Field(t, f), side))
      BY <1>1, <1>3, <2>1
    <3>2. Refused \notin {Field(m, f), Field(t, f)}
      BY <1>1, <2>1
    <3> HIDE DEF merged
    <3>3. QED
      BY <3>1, <3>2, PickedSide
  <2>3. r = Present(merged)
    BY <1>5, <2>2, MergedByField
  <2>4. DOMAIN merged = Fields
    OBVIOUS
  <2> HIDE DEF merged
  <2>5. /\ IsObject(r) /\ r # Refused /\ r # Undefined
        /\ \A f \in Fields : Field(r, f) = merged[f]
        /\ \A f \in DOMAIN r : f \in Fields /\ r[f] = merged[f] /\ r[f] # Undefined
    <3>1. /\ IsObject(Present(merged))
          /\ \A f \in Fields : Field(Present(merged), f) = merged[f]
          /\ \A f \in DOMAIN Present(merged) :
               f \in Fields /\ Present(merged)[f] = merged[f] /\ merged[f] # Undefined
      BY <2>4, PresentObject
    <3>2. QED
      BY <2>3, <3>1 DEF Sentinels
  <2> HIDE DEF r
  <2>6. Holds(r)
    BY <2>2, <2>5 DEF Holds
  <2>7. \A f \in Fields :
          /\ Field(r, f) \in {Field(m, f), Field(t, f)}
          /\ OneSided(Field(Was(b), f), Field(m, f), Field(t, f), Field(r, f))
    BY <2>2, <2>5
  <2>8. OneSided(b, m, t, r)
    BY <2>1 DEF OneSided, Clash
  <2>9. FlagMerged(b, m, t, r)
    BY <1>5, <2>5, <2>6, <2>7, <2>8 DEF FlagMerged
  <2>10. QED
    BY <2>9 DEF r, b, m, t, choice
<1>6. QED
  BY <1>4, <1>5

\* Without a side for them, the flag is refused where its two sides clash.
FlagClashes(b, m, t) ==
  IF Whole(m, t) THEN Clash(b, m, t)
  ELSE \E f \in Fields : Clash(Field(Was(b), f), Field(m, f), Field(t, f))

LEMMA MergedFlagUnasked ==
  ASSUME NEW B, NEW M, NEW T, Sentinels,
         AreFeatures(B), AreFeatures(M), AreFeatures(T),
         NEW k \in Keys(B, M, T)
  PROVE  MergedFlag(Field(B, k), Field(M, k), Field(T, k),
                    Chosen(B, M, T, Undefined)[k]) = Refused
           <=> FlagClashes(Field(B, k), Field(M, k), Field(T, k))
<1> DEFINE b == Field(B, k)
           m == Field(M, k)
           t == Field(T, k)
           choice == Chosen(B, M, T, Undefined)[k]
           r == MergedFlag(b, m, t, choice)
<1>1. /\ Refused \notin {m, t}
      /\ \A f \in Fields : /\ Field(Was(b), f) = PartOf(B, k, f)
                           /\ Field(Was(m), f) = PartOf(M, k, f)
                           /\ Field(Was(t), f) = PartOf(T, k, f)
                           /\ Refused \notin {PartOf(M, k, f), PartOf(T, k, f)}
  BY FlagOf
<1>2. choice["flag"] = ChoiceFor(b, m, t, Undefined)
  <2>1. "flag" \in MergeFields
    BY DEF MergeFields
  <2>2. QED
    BY <2>1, ChosenAt DEF PartOf
<1>3. \A f \in Fields :
        choice[f] = ChoiceFor(PartOf(B, k, f), PartOf(M, k, f), PartOf(T, k, f), Undefined)
  BY ChosenAt DEF Fields
<1> HIDE DEF choice, b, m, t
<1>4. CASE ~ByField(b, m, t)
  <2>1. r = Picked(b, m, t, ChoiceFor(b, m, t, Undefined))
    BY <1>2, <1>4, MergedWhole
  <2>2. /\ r = Refused <=> Clash(b, m, t)
        /\ r # Refused => r \in {m, t} /\ OneSided(b, m, t, r)
    BY <1>1, <2>1, PickedUnasked
  <2> HIDE DEF r
  <2>3. CASE Whole(m, t)
    BY <2>2, <2>3 DEF FlagClashes, r, b, m, t, choice
  <2>4. CASE ~Whole(m, t)
    <3>1. ~Clash(b, m, t)
      BY <1>4, <2>4, ConflictOfTwo
    <3>2. \A f \in Fields : ~Clash(Field(Was(b), f), Field(m, f), Field(t, f))
      BY <2>2, <2>4, <3>1, WholeIsFieldwise
    <3>3. r # Refused /\ ~FlagClashes(b, m, t)
      BY <2>2, <2>4, <3>1, <3>2 DEF FlagClashes
    <3>4. QED
      BY <3>3 DEF r, b, m, t, choice
  <2>5. QED
    BY <2>3, <2>4
<1>5. CASE ByField(b, m, t)
  <2> DEFINE merged == [f \in Fields |->
                 Picked(Field(Was(b), f), Field(m, f), Field(t, f), choice[f])]
  <2>1. Clash(b, m, t) /\ ~Whole(m, t) /\ Was(m) = m /\ Was(t) = t
    BY <1>5, ConflictOfTwo DEF Whole, Was
  <2>2. ASSUME NEW f \in Fields
        PROVE  merged[f] = Refused <=> Clash(Field(Was(b), f), Field(m, f), Field(t, f))
    <3>1. merged[f] = Picked(Field(Was(b), f), Field(m, f), Field(t, f),
                             ChoiceFor(Field(Was(b), f), Field(m, f), Field(t, f), Undefined))
      BY <1>1, <1>3, <2>1
    <3>2. Refused \notin {Field(m, f), Field(t, f)}
      BY <1>1, <2>1
    <3> HIDE DEF merged
    <3>3. QED
      BY <3>1, <3>2, PickedUnasked
  <2>3. r = IF \E f \in Fields : merged[f] = Refused THEN Refused ELSE Present(merged)
    BY <1>5, MergedByField
  <2>4. Present(merged) # Refused
    BY PresentObject DEF Sentinels
  <2> HIDE DEF merged, r
  <2>5. r = Refused <=> FlagClashes(b, m, t)
    BY <2>1, <2>2, <2>3, <2>4 DEF FlagClashes
  <2>6. QED
    BY <2>5 DEF r, b, m, t, choice
<1>6. QED
  BY <1>4, <1>5

-----------------------------------------------------------------------------
(* Merging the features of three snapshots. *)

LEMMA MergeSide ==
  ASSUME NEW B, NEW M, NEW T, NEW side \in Sides, Sentinels,
         AreFeatures(B), AreFeatures(M), AreFeatures(T)
  PROVE  LET F == Merge(B, M, T, Chosen(B, M, T, side)) IN
         /\ F # Refused /\ IsObject(F)
         /\ DOMAIN F \subseteq Keys(B, M, T)
         /\ \A k \in DOMAIN F : F[k] \notin {Undefined, Refused}
         /\ \A k \in Keys(B, M, T) :
              FlagMerged(Field(B, k), Field(M, k), Field(T, k), Field(F, k))
<1> DEFINE F == Merge(B, M, T, Chosen(B, M, T, side))
           flag(k) == MergedFlag(Field(B, k), Field(M, k), Field(T, k),
                                 Chosen(B, M, T, side)[k])
           merged == [k \in Keys(B, M, T) |-> flag(k)]
<1>1. \A k \in Keys(B, M, T) :
        FlagMerged(Field(B, k), Field(M, k), Field(T, k), flag(k)) /\ flag(k) # Refused
  BY MergedFlagSide DEF FlagMerged
<1>2. F = IF \E k \in Keys(B, M, T) : merged[k] = Refused THEN Refused ELSE Present(merged)
  BY DEF Merge, Keys
<1>3. DOMAIN merged = Keys(B, M, T) /\ \A k \in Keys(B, M, T) : merged[k] = flag(k)
  OBVIOUS
<1> HIDE DEF F, merged, flag
<1>4. F = Present(merged)
  BY <1>1, <1>2, <1>3
<1>5. /\ IsObject(F) /\ F # Refused
      /\ \A k \in Keys(B, M, T) : Field(F, k) = flag(k)
      /\ \A k \in DOMAIN F : k \in Keys(B, M, T) /\ F[k] = flag(k) /\ F[k] # Undefined
  <2>1. /\ IsObject(Present(merged))
        /\ \A k \in Keys(B, M, T) : Field(Present(merged), k) = merged[k]
        /\ \A k \in DOMAIN Present(merged) :
             k \in Keys(B, M, T) /\ Present(merged)[k] = merged[k] /\ merged[k] # Undefined
    BY <1>3, PresentObject
  <2>2. QED
    BY <1>3, <1>4, <2>1 DEF Sentinels
<1>6. QED
  BY <1>1, <1>5 DEF F

LEMMA MergeUnasked ==
  ASSUME NEW B, NEW M, NEW T, Sentinels,
         AreFeatures(B), AreFeatures(M), AreFeatures(T)
  PROVE  Merge(B, M, T, Chosen(B, M, T, Undefined)) = Refused
           <=> \E k \in Keys(B, M, T) :
                 FlagClashes(Field(B, k), Field(M, k), Field(T, k))
<1> DEFINE F == Merge(B, M, T, Chosen(B, M, T, Undefined))
           flag(k) == MergedFlag(Field(B, k), Field(M, k), Field(T, k),
                                 Chosen(B, M, T, Undefined)[k])
           merged == [k \in Keys(B, M, T) |-> flag(k)]
<1>1. \A k \in Keys(B, M, T) :
        flag(k) = Refused <=> FlagClashes(Field(B, k), Field(M, k), Field(T, k))
  BY MergedFlagUnasked
<1>2. F = IF \E k \in Keys(B, M, T) : merged[k] = Refused THEN Refused ELSE Present(merged)
  BY DEF Merge, Keys
<1>3. \A k \in Keys(B, M, T) : merged[k] = flag(k)
  OBVIOUS
<1>4. Present(merged) # Refused
  BY PresentObject DEF Sentinels
<1> HIDE DEF F, merged, flag
<1>5. F = Refused <=> \E k \in Keys(B, M, T) :
                        FlagClashes(Field(B, k), Field(M, k), Field(T, k))
  BY <1>1, <1>2, <1>3, <1>4
<1>6. QED
  BY <1>5 DEF F

\* The draft of a merge: the features are those of the merge, and it is refused
\* exactly when they are.
LEMMA MergedDraftFeatures ==
  ASSUME NEW b, NEW m, NEW t, NEW choices, Sentinels, Shaped(m),
         NEW F, F = Merge(b.features, m.features, t.features, choices)
  PROVE  LET r == MergedDraft(b, m, t, choices) IN
         /\ r = Refused <=> F = Refused
         /\ F # Refused => r = [schema |-> m.schema, features |-> F]
<1>1. m = [schema |-> m.schema, features |-> m.features]
  BY DEF Shaped
<1>2. [m EXCEPT !.features = F] = [schema |-> m.schema, features |-> F]
  BY <1>1
<1>3. IsObject([schema |-> m.schema, features |-> F])
  BY DEF IsObject
<1>4. QED
  BY <1>2, <1>3 DEF MergedDraft, Sentinels

\* The draft of a merge holds no undefined either.
LEMMA MergedShaped ==
  ASSUME NEW b, NEW m, NEW t, NEW side \in Sides, Sentinels,
         Shaped(b), Shaped(m), Shaped(t)
  PROVE  LET choices == Chosen(b.features, m.features, t.features, side)
         IN MergedDraft(b, m, t, choices) # Refused /\ Shaped(MergedDraft(b, m, t, choices))
<1> DEFINE B == b.features
           M == m.features
           T == t.features
           F == Merge(B, M, T, Chosen(B, M, T, side))
           r == MergedDraft(b, m, t, Chosen(B, M, T, side))
<1>1. AreFeatures(B) /\ AreFeatures(M) /\ AreFeatures(T) /\ m.schema \in {1, 2}
  BY DEF Shaped, AreFeatures
<1>2. F # Refused /\ IsObject(F) /\ \A k \in DOMAIN F : F[k] \notin {Undefined, Refused}
  BY <1>1, MergeSide
<1>3. r # Refused /\ r = [schema |-> m.schema, features |-> F]
  BY <1>2, MergedDraftFeatures
<1>4. ASSUME NEW k \in DOMAIN F
      PROVE  Holds(F[k])
  <2>1. k \in Keys(B, M, T) /\ F[k] # Undefined /\ Field(F, k) = F[k]
    BY <1>1, <1>4, MergeSide DEF Field
  <2>2. FlagMerged(Field(B, k), Field(M, k), Field(T, k), F[k])
    BY <1>1, <2>1, MergeSide
  <2>3. /\ Field(M, k) # Undefined => Holds(Field(M, k))
        /\ Field(T, k) # Undefined => Holds(Field(T, k))
    BY <1>1, FlagOf
  <2> HIDE DEF F, r, B, M, T
  <2>4. QED
    BY <2>1, <2>2, <2>3 DEF FlagMerged
<1> HIDE DEF F
<1>5. QED
  BY <1>1, <1>2, <1>3, <1>4 DEF Shaped, Holds

-----------------------------------------------------------------------------
(* What a merge makes of valid drafts is valid. *)

\* A flag fits a snapshot of a schema version.
Fits(schema, flag) ==
  /\ ValidFeature(flag)
  /\ schema = 1 => \A i \in DOMAIN RulesOf(flag) :
       "rollout" \notin DOMAIN RulesOf(flag)[i] /\ ~UsesSegment(RulesOf(flag)[i])

LEMMA ValidMeansFits ==
  ASSUME NEW s
  PROVE  ValidSnapshot(s) <=> \A k \in DOMAIN s.features : Fits(s.schema, s.features[k])
BY DEF ValidSnapshot, Fits

LEMMA FieldOfFlag ==
  ASSUME NEW flag, Holds(flag), NEW f
  PROVE  /\ Field(flag, f) # Undefined <=> f \in DOMAIN flag
         /\ f \in DOMAIN flag => Field(flag, f) = flag[f]
BY DEF Holds, Field

\* The fields of a flag merged field by field are of the one type both sides
\* give the flag, and its rules are those of one side.
LEMMA MergedFlagFits ==
  ASSUME NEW m, NEW t, NEW r, NEW schema, Sentinels,
         Holds(m), Holds(t), Fits(schema, m), Fits(schema, t), m.type = t.type,
         Holds(r), DOMAIN r \subseteq Fields,
         \A f \in Fields : Field(r, f) \in {Field(m, f), Field(t, f)}
  PROVE  Fits(schema, r)
<1> DEFINE Expected == {"type", "enabled"} \union
                         (IF m.type = "config" THEN {"default"} ELSE {})
<1>1. DOMAIN m \ {"rules"} = Expected /\ DOMAIN t \ {"rules"} = Expected
  BY DEF Fits, ValidFeature
<1>2. Fields = {"type", "enabled", "default", "rules"}
  BY DEF Fields, MergeFields
<1>3. ASSUME NEW f \in Fields \ {"rules"}
      PROVE  f \in DOMAIN r <=> f \in Expected
  <2>1. f \in DOMAIN m <=> f \in Expected
    BY <1>1, <1>3
  <2>2. f \in DOMAIN t <=> f \in Expected
    BY <1>1, <1>3
  <2> HIDE DEF Expected
  <2>3. QED
    BY <1>3, <2>1, <2>2, FieldOfFlag
<1>4. "type" \in DOMAIN r /\ r.type = m.type
  <2>1. "type" \in Fields \ {"rules"} /\ "type" \in Expected
    BY <1>2
  <2>2. "type" \in DOMAIN r /\ "type" \in DOMAIN m /\ "type" \in DOMAIN t
    BY <1>1, <1>3, <2>1
  <2>3. Field(r, "type") = r.type /\ Field(m, "type") = m.type /\ Field(t, "type") = t.type
    BY <2>2 DEF Field
  <2>4. QED
    BY <2>1, <2>2, <2>3
<1>5. DOMAIN r \ {"rules"} = {"type", "enabled"} \union
                              (IF r.type = "config" THEN {"default"} ELSE {})
  <2>1. DOMAIN r \ {"rules"} = Expected
    BY <1>2, <1>3
  <2>2. QED
    BY <1>4, <2>1
<1>6. RulesOf(r) = <<>> \/ RulesOf(r) = RulesOf(m) \/ RulesOf(r) = RulesOf(t)
  <2>1. "rules" \in Fields
    BY <1>2
  <2>2. Field(r, "rules") \in {Field(m, "rules"), Field(t, "rules")}
    BY <2>1
  <2>3. CASE "rules" \notin DOMAIN r
    BY <2>3 DEF RulesOf
  <2>4. CASE "rules" \in DOMAIN r /\ Field(r, "rules") = Field(m, "rules")
    <3>1. "rules" \in DOMAIN m /\ r.rules = m.rules
      BY <2>4, FieldOfFlag
    <3>2. QED
      BY <2>4, <3>1 DEF RulesOf
  <2>5. CASE "rules" \in DOMAIN r /\ Field(r, "rules") = Field(t, "rules")
    <3>1. "rules" \in DOMAIN t /\ r.rules = t.rules
      BY <2>5, FieldOfFlag
    <3>2. QED
      BY <2>5, <3>1 DEF RulesOf
  <2>6. QED
    BY <2>2, <2>3, <2>4, <2>5
<1>7. DOMAIN <<>> = {}
  OBVIOUS
<1> HIDE DEF Expected
<1>8. \A i \in DOMAIN RulesOf(r) :
        /\ ValidRule(r.type, RulesOf(r)[i])
        /\ schema = 1 => "rollout" \notin DOMAIN RulesOf(r)[i] /\ ~UsesSegment(RulesOf(r)[i])
  <2>1. CASE RulesOf(r) = <<>>
    BY <1>7, <2>1
  <2>2. CASE RulesOf(r) = RulesOf(m)
    BY <1>4, <2>2 DEF Fits, ValidFeature
  <2>3. CASE RulesOf(r) = RulesOf(t)
    BY <1>4, <2>3 DEF Fits, ValidFeature
  <2>4. QED
    BY <1>6, <2>1, <2>2, <2>3
<1>9. IsArray(RulesOf(r))
  <2>1. IsArray(<<>>)
    BY DEF IsArray
  <2>2. QED
    BY <1>6, <2>1 DEF Fits, ValidFeature
<1>10. QED
  BY <1>4, <1>5, <1>8, <1>9 DEF Fits, ValidFeature

-----------------------------------------------------------------------------
(* Replaying an edit. *)

LEMMA SameFieldsSameObject ==
  ASSUME NEW x, NEW y, IsObject(x), IsObject(y),
         \A f \in DOMAIN x : x[f] # Undefined, \A f \in DOMAIN y : y[f] # Undefined,
         \A f : Field(x, f) = Field(y, f)
  PROVE  x = y
<1>1. \A f : f \in DOMAIN x <=> f \in DOMAIN y
  BY DEF Field
<1>2. DOMAIN x = DOMAIN y
  BY <1>1
<1>3. \A f \in DOMAIN x : x[f] = y[f]
  BY <1>2 DEF Field
<1>4. [f \in DOMAIN x |-> x[f]] = [f \in DOMAIN y |-> y[f]]
  BY <1>2, <1>3
<1>5. QED
  BY <1>4 DEF IsObject

\* Without choices: a side that did not change gives way, and a clash is refused.
LEMMA PickedNone ==
  ASSUME NEW b, NEW m, NEW t, Sentinels
  PROVE  Picked(b, m, t, Undefined) =
           IF m = b THEN t ELSE IF t = b \/ m = t THEN m ELSE Refused
<1>1. CASE m = b
  BY <1>1 DEF Picked, StatusOf, DefaultSide, Sentinels, Words
<1>2. CASE m # b /\ t = b
  BY <1>2 DEF Picked, StatusOf, DefaultSide, Sentinels, Words
<1>3. CASE m # b /\ t # b
  BY <1>3 DEF Picked, StatusOf, DefaultSide, Sentinels, Words
<1>4. QED
  BY <1>1, <1>2, <1>3

NoChoice == [f \in MergeFields |-> Undefined]

\* A flag of a snapshot that was parsed.
IsFlag(x) == Holds(x) /\ DOMAIN x \subseteq Fields /\ "type" \in DOMAIN x

\* y is x with another value of one field.
Sets(x, y, field, value) ==
  /\ IsFlag(y) /\ Field(y, field) = value
  /\ \A f : f # field => Field(y, f) = Field(x, f)

\* Two edits that give one field of b and of t the same value, where it was the
\* same: what merging the edited b with t makes of it is the edited t.
LEMMA SetMergesIntoSet ==
  ASSUME NEW b, NEW t, NEW m, NEW r, IsFlag(b), IsFlag(t), b.type = t.type, Sentinels,
         NEW field \in Fields \ {"type"}, NEW value, Field(b, field) = Field(t, field),
         Sets(b, m, field, value), Sets(t, r, field, value)
  PROVE  MergedFlag(b, m, t, NoChoice) = r
<1>1. /\ IsFlag(m) /\ IsFlag(r) /\ Undefined \notin {b, m, t} /\ m.type = t.type
      /\ \A x \in {b, m, t, r} : \A f : Field(x, f) # Refused
  <2>1. \A x : IsObject(x) => x \notin {Undefined, Refused}
    BY DEF Sentinels
  <2>2. \A x : Holds(x) => x \notin {Undefined, Refused} /\ \A f : Field(x, f) # Refused
    BY <2>1 DEF Holds, Field, Sentinels
  <2>3. IsFlag(m) /\ IsFlag(r) /\ Field(m, "type") = Field(b, "type")
    BY DEF Sets
  <2>4. QED
    BY <2>2, <2>3 DEF IsFlag, Field
<1>2. "flag" \in MergeFields /\ Fields \subseteq MergeFields
  BY DEF MergeFields, Fields
<1>3. Field(m, field) = value /\ Field(r, field) = value
  BY DEF Sets
<1>4. \A f : f # field => Field(m, f) = Field(b, f) /\ Field(r, f) = Field(t, f)
  BY DEF Sets
<1>5. \A x, y : IsFlag(x) /\ IsFlag(y) /\ (\A f : Field(x, f) = Field(y, f)) => x = y
  BY SameFieldsSameObject DEF IsFlag, Holds
<1>6. CASE ByField(b, m, t)
  <2> DEFINE merged == [f \in Fields |-> Picked(Field(Was(b), f), Field(m, f), Field(t, f),
                                               NoChoice[f])]
  <2>1. ASSUME NEW f \in Fields
        PROVE  merged[f] = Field(r, f)
    <3>1. merged[f] = Picked(Field(b, f), Field(m, f), Field(t, f), Undefined)
      BY <1>1, <1>2 DEF Was, NoChoice
    <3> HIDE DEF merged
    <3>2. CASE f = field
      BY <1>3, <3>1, <3>2, PickedNone
    <3>3. CASE f # field
      BY <1>4, <3>1, <3>3, PickedNone
    <3>4. QED
      BY <3>2, <3>3
  <2>2. MergedFlag(b, m, t, NoChoice) =
          IF \E f \in Fields : merged[f] = Refused THEN Refused ELSE Present(merged)
    BY <1>6, MergedByField
  <2>3. DOMAIN merged = Fields
    OBVIOUS
  <2> HIDE DEF merged
  <2>4. MergedFlag(b, m, t, NoChoice) = Present(merged)
    BY <1>1, <2>1, <2>2
  <2>5. /\ IsObject(Present(merged))
        /\ \A f : Field(Present(merged), f) = Field(r, f)
        /\ \A f \in DOMAIN Present(merged) : Present(merged)[f] # Undefined
    <3>1. /\ IsObject(Present(merged))
          /\ \A f \in Fields : Field(Present(merged), f) = merged[f]
          /\ \A f : f \notin Fields => Field(Present(merged), f) = Undefined
          /\ \A f \in DOMAIN Present(merged) : Present(merged)[f] # Undefined
      BY <2>3, PresentObject
    <3>2. \A f : f \notin Fields => Field(r, f) = Undefined
      BY <1>1 DEF IsFlag, Field
    <3>3. QED
      BY <2>1, <3>1, <3>2
  <2>6. Present(merged) = r
    BY <1>1, <2>5, SameFieldsSameObject DEF IsFlag, Holds
  <2>7. QED
    BY <2>4, <2>6
<1>7. CASE ~ByField(b, m, t)
  <2>1. MergedFlag(b, m, t, NoChoice) = Picked(b, m, t, Undefined)
    BY <1>2, <1>7, MergedWhole DEF NoChoice
  <2>2. m = b \/ t = b \/ m = t
    BY <1>1, <1>7 DEF ByField, StatusOf
  <2>3. CASE m = b
    <3>1. \A f : Field(r, f) = Field(t, f)
      BY <1>3, <1>4, <2>3
    <3>2. QED
      BY <1>1, <1>5, <2>1, <2>3, <3>1, PickedNone
  <2>4. CASE m # b /\ t = b
    <3>1. \A f : Field(r, f) = Field(m, f)
      BY <1>3, <1>4, <2>4
    <3>2. QED
      BY <1>1, <1>5, <2>1, <2>4, <3>1, PickedNone
  <2>5. CASE m # b /\ m = t
    <3>1. \A f : Field(r, f) = Field(m, f)
      BY <1>3, <1>4, <2>5
    <3>2. QED
      BY <1>1, <1>5, <2>1, <2>5, <3>1, PickedNone
  <2>6. QED
    BY <2>2, <2>3, <2>4, <2>5
<1>8. QED
  BY <1>6, <1>7

LEMMA ParsedFlag ==
  ASSUME NEW snapshot, Parsed(snapshot), NEW k \in DOMAIN snapshot.features
  PROVE  /\ IsFlag(snapshot.features[k]) /\ ValidFeature(snapshot.features[k])
         /\ Holds(snapshot.features[k])
<1>1. Holds(snapshot.features[k]) /\ ValidFeature(snapshot.features[k])
  BY DEF Parsed, Shaped, ValidSnapshot
<1>2. QED
  BY <1>1 DEF IsFlag, ValidFeature, Fields, MergeFields

\* What an edit of one flag makes of the features.
LEMMA EditedFeatures ==
  ASSUME NEW snapshot, Parsed(snapshot), NEW edit, IsEdit(edit), Sentinels,
         edit.kind \notin {"create", "delete"}, ApplyFlagEdit(snapshot, edit) # Refused
  PROVE  LET before == snapshot.features
             after  == ApplyFlagEdit(snapshot, edit).features
             edited == EditFeature(before[edit.key], edit)
         IN /\ edit.key \in DOMAIN before /\ DOMAIN after = DOMAIN before
            /\ after = [before EXCEPT ![edit.key] = edited]
            /\ edited # Refused
            /\ Sets(before[edit.key], edited, EditedField(edit),
                    Field(edited, EditedField(edit)))
<1> DEFINE before == snapshot.features
           after  == ApplyFlagEdit(snapshot, edit).features
           edited == EditFeature(before[edit.key], edit)
<1>1. /\ edit.key \in DOMAIN before /\ edited # Refused
      /\ after = [before EXCEPT ![edit.key] = edited]
  BY FlagEdited
<1>2. Parsed(ApplyFlagEdit(snapshot, edit))
  BY EditKeepsParsed
<1>3. edit.key \in DOMAIN after /\ after[edit.key] = edited /\ DOMAIN after = DOMAIN before
  BY <1>1
<1>4. IsFlag(edited)
  BY <1>2, <1>3, ParsedFlag
<1>5. \A f : f # EditedField(edit) => Field(edited, f) = Field(before[edit.key], f)
  BY <1>1, ParsedFlag, OtherFieldsKept
<1>6. Sets(before[edit.key], edited, EditedField(edit), Field(edited, EditedField(edit)))
  BY <1>4, <1>5 DEF Sets
<1>7. QED
  BY <1>1, <1>3, <1>6

\* Flag by flag, merging the edited flag gives the flag the edit is replayed on.
LEMMA ReplayedFlag ==
  ASSUME NEW b, NEW t, Parsed(b), Parsed(t), NEW edit, IsEdit(edit), Sentinels,
         ApplyFlagEdit(b, edit) # Refused, ApplyFlagEdit(t, edit) # Refused,
         CanReplayEdit(b, t, edit),
         edit.kind # "create" => b.features[edit.key].type = t.features[edit.key].type,
         NEW k
  PROVE  MergedFlag(Field(b.features, k), Field(ApplyFlagEdit(b, edit).features, k),
                    Field(t.features, k), NoChoice)
           = Field(ApplyFlagEdit(t, edit).features, k)
<1> DEFINE B == b.features
           T == t.features
           M == ApplyFlagEdit(b, edit).features
           R == ApplyFlagEdit(t, edit).features
           merged == MergedFlag(Field(B, k), Field(M, k), Field(T, k), NoChoice)
<1>1. /\ M = EditFeatures(B, edit) /\ M # Refused
      /\ R = EditFeatures(T, edit) /\ R # Refused
  BY AppliedFeatures
<1>2. NoChoice["flag"] = Undefined
  BY DEF NoChoice, MergeFields
<1>3. CASE k # edit.key
  <2>1. ASSUME NEW F, EditFeatures(F, edit) # Refused
        PROVE  Field(EditFeatures(F, edit), k) = Field(F, k)
    BY <1>3, <2>1 DEF EditFeatures, Spread, Field
  <2>2. Field(M, k) = Field(B, k) /\ Field(R, k) = Field(T, k)
    BY <1>1, <2>1
  <2>3. ~ByField(Field(B, k), Field(M, k), Field(T, k))
    BY <2>2 DEF ByField, StatusOf
  <2>4. merged = Picked(Field(B, k), Field(M, k), Field(T, k), Undefined)
    BY <1>2, <2>3, MergedWhole
  <2>5. QED
    BY <2>2, <2>4, PickedNone
<1>4. CASE k = edit.key /\ edit.kind = "create"
  <2>1. k \notin DOMAIN B /\ k \notin DOMAIN T
    BY <1>1, <1>4 DEF CanReplayEdit, EditFeatures
  <2>2. Field(M, k) = Created(edit) /\ Field(R, k) = Created(edit)
    BY <1>1, <1>4 DEF EditFeatures, Spread, Field
  <2>3. Field(B, k) = Undefined /\ Field(T, k) = Undefined
    BY <2>1 DEF Field
  <2>4. merged = Picked(Undefined, Created(edit), Undefined, Undefined)
    BY <1>2, <2>2, <2>3, MergedWhole DEF ByField
  <2>5. QED
    BY <2>2, <2>4, PickedNone
<1>5. CASE k = edit.key /\ edit.kind = "delete"
  <2>1. k \in DOMAIN B /\ k \in DOMAIN T
    BY <1>5 DEF CanReplayEdit
  <2>2. Field(M, k) = Undefined /\ Field(R, k) = Undefined
    BY <1>1, <1>5, <2>1 DEF EditFeatures, Field
  <2>3. IsFlag(B[k]) /\ IsFlag(T[k])
    BY <2>1, ParsedFlag
  <2>4. \A f : Field(B[k], f) = Field(T[k], f)
    <3>1. \A f \in Fields : Field(B[k], f) = Field(T[k], f)
      BY <1>5 DEF CanReplayEdit, TouchedFields, Fields, MergeFields
    <3>2. \A f : f \notin Fields => Field(B[k], f) = Undefined /\ Field(T[k], f) = Undefined
      BY <2>3 DEF IsFlag, Field
    <3>3. QED
      BY <3>1, <3>2
  <2>5. B[k] = T[k]
    BY <2>3, <2>4, SameFieldsSameObject DEF IsFlag, Holds
  <2>6. Field(B, k) = T[k] /\ Field(T, k) = T[k]
    BY <2>1, <2>5 DEF Field
  <2>7. merged = Picked(T[k], Undefined, T[k], Undefined)
    BY <1>2, <2>2, <2>6, MergedWhole DEF ByField
  <2>8. QED
    BY <2>2, <2>7, PickedNone
<1>6. CASE k = edit.key /\ edit.kind \notin {"create", "delete"}
  <2> DEFINE m == EditFeature(B[k], edit)
             r == EditFeature(T[k], edit)
             g == EditedField(edit)
  <2>1. /\ k \in DOMAIN B /\ M = [B EXCEPT ![k] = m] /\ m # Refused
        /\ Sets(B[k], m, g, Field(m, g))
    BY <1>6, EditedFeatures
  <2>2. /\ k \in DOMAIN T /\ R = [T EXCEPT ![k] = r] /\ r # Refused
        /\ Sets(T[k], r, g, Field(r, g))
    BY <1>6, EditedFeatures
  <2>3. /\ Field(B, k) = B[k] /\ Field(T, k) = T[k]
        /\ Field(M, k) = m /\ Field(R, k) = r
    BY <2>1, <2>2 DEF Field
  <2>4. /\ IsFlag(B[k]) /\ ValidFeature(B[k]) /\ Holds(B[k])
        /\ IsFlag(T[k]) /\ ValidFeature(T[k]) /\ Holds(T[k])
    BY <2>1, <2>2, ParsedFlag
  <2>5. Field(B[k], g) = Field(T[k], g) /\ B[k].type = T[k].type
    BY <1>6 DEF CanReplayEdit, TouchedFields, EditedField
  <2>6. Field(m, g) = Field(r, g)
    BY <1>6, <2>1, <2>2, <2>4, <2>5, SameFieldEdited
  <2>7. g \in Fields \ {"type"}
    BY DEF EditedField, Fields, MergeFields
  <2> HIDE DEF m, r, g, M, R, B, T
  <2>8. MergedFlag(B[k], m, T[k], NoChoice) = r
    BY <2>1, <2>2, <2>4, <2>5, <2>6, <2>7, SetMergesIntoSet
  <2>9. merged = Field(R, k)
    BY <2>3, <2>8
  <2>10. QED
    BY <2>9 DEF B, T, M, R
<1>7. QED
  BY <1>3, <1>4, <1>5, <1>6

\* An edit that may be replayed gives, replayed on the newer version, what merging
\* it would give, with nothing left to choose.
LEMMA ReplayIsMerge ==
  ASSUME NEW b, NEW t, Parsed(b), Parsed(t), NEW edit, IsEdit(edit), Sentinels,
         ApplyFlagEdit(b, edit) # Refused, ApplyFlagEdit(t, edit) # Refused,
         CanReplayEdit(b, t, edit),
         edit.kind # "create" => b.features[edit.key].type = t.features[edit.key].type
  PROVE  ApplyFlagEdit(t, edit).features =
           Merge(b.features, ApplyFlagEdit(b, edit).features, t.features,
                 [k \in {edit.key} \union DOMAIN b.features \union DOMAIN t.features |->
                    [f \in MergeFields |-> Undefined]])
<1> DEFINE B == b.features
           T == t.features
           M == ApplyFlagEdit(b, edit).features
           R == ApplyFlagEdit(t, edit).features
           K == {edit.key} \union DOMAIN B \union DOMAIN T
           choices == [k \in K |-> [f \in MergeFields |-> Undefined]]
           flag(k) == MergedFlag(Field(B, k), Field(M, k), Field(T, k), choices[k])
           merged == [k \in Keys(B, M, T) |-> flag(k)]
<1>1. Merge(B, M, T, choices) =
        IF \E k \in Keys(B, M, T) : merged[k] = Refused THEN Refused ELSE Present(merged)
  BY DEF Merge, Keys
<1>2. /\ M = EditFeatures(B, edit) /\ M # Refused
      /\ R = EditFeatures(T, edit) /\ R # Refused
  BY AppliedFeatures
<1>3. DOMAIN M \subseteq {edit.key} \union DOMAIN B
  BY <1>2 DEF EditFeatures, Spread
<1>4. DOMAIN R \subseteq Keys(B, M, T)
  <2>1. DOMAIN R \subseteq {edit.key} \union DOMAIN T
    BY <1>2 DEF EditFeatures, Spread
  <2>2. edit.kind = "create" => edit.key \in DOMAIN M
    BY <1>2 DEF EditFeatures, Spread
  <2>3. edit.kind # "create" => edit.key \in DOMAIN B
    BY DEF CanReplayEdit
  <2>4. QED
    BY <2>1, <2>2, <2>3 DEF Keys
<1>5. \A k \in K : choices[k] = NoChoice
  BY DEF NoChoice
<1>6. Keys(B, M, T) \subseteq K
  BY <1>3 DEF Keys
<1> HIDE DEF choices, K
<1>7. ASSUME NEW k \in Keys(B, M, T)
      PROVE  flag(k) = Field(R, k)
  <2>1. choices[k] = NoChoice
    BY <1>5, <1>6
  <2>2. MergedFlag(Field(B, k), Field(M, k), Field(T, k), NoChoice) = Field(R, k)
    BY ReplayedFlag
  <2> HIDE DEF B, T, M, R
  <2>3. QED
    BY <2>1, <2>2
<1>8. Parsed(ApplyFlagEdit(t, edit))
  BY EditKeepsParsed
<1>9. /\ IsObject(R)
      /\ \A k \in DOMAIN R : R[k] \notin {Undefined, Refused}
  BY <1>8 DEF Parsed, Shaped, Holds
<1>10. DOMAIN merged = Keys(B, M, T) /\ \A k \in Keys(B, M, T) : merged[k] = Field(R, k)
  BY <1>7
<1> HIDE DEF merged, flag, B, T, M, R
<1>11. \A k : Field(R, k) # Refused
  BY <1>9 DEF Field, Sentinels
<1>12. Merge(B, M, T, choices) = Present(merged)
  BY <1>1, <1>10, <1>11
<1>13. /\ IsObject(Present(merged))
       /\ \A k : Field(Present(merged), k) = Field(R, k)
       /\ \A k \in DOMAIN Present(merged) : Present(merged)[k] # Undefined
  <2>1. /\ IsObject(Present(merged))
        /\ \A k \in Keys(B, M, T) : Field(Present(merged), k) = merged[k]
        /\ \A k : k \notin Keys(B, M, T) => Field(Present(merged), k) = Undefined
        /\ \A k \in DOMAIN Present(merged) : Present(merged)[k] # Undefined
    BY <1>10, PresentObject
  <2>2. \A k : k \notin Keys(B, M, T) => Field(R, k) = Undefined
    BY <1>4 DEF Field
  <2>3. QED
    BY <1>10, <2>1, <2>2
<1>14. R = Present(merged)
  BY <1>9, <1>13, SameFieldsSameObject
<1>15. QED
  BY <1>12, <1>14 DEF B, T, M, R, choices, K
=============================================================================
