-------------------------- MODULE Attribution_proofs --------------------------
(***************************************************************************)
(* What the attribution operators compute, for every crate: sums over      *)
(* finitely many counts, that no count is lost between the harnesses, and  *)
(* what a counterexample called genuine says about its harness's counts.   *)
(*                                                                         *)
(* The sums are folds, so the first half is an induction over finite sets. *)
(* It is stated with sets of subsets in place of predicates, for which the *)
(* library's well-foundedness of strict inclusion is enough.               *)
(***************************************************************************)
EXTENDS Attribution, TLAPS, FiniteSetTheorems, WellFoundedInduction

(* Induction over the subsets of a finite set: a property that each subset has
   as soon as its proper subsets have it is a property of all of them. *)
LEMMA SubsetInduction ==
    ASSUME NEW S, IsFiniteSet(S), NEW Good,
           ASSUME NEW T \in SUBSET S, \A U \in (SUBSET T) \ {T} : U \in Good
           PROVE  T \in Good
    PROVE  \A T \in SUBSET S : T \in Good
    <1> DEFINE Bad == {T \in SUBSET S : T \notin Good}
    <1> SUFFICES ASSUME Bad # {} PROVE FALSE
        OBVIOUS
    <1>1. IsWellFoundedOn(StrictSubsetOrdering(S), FiniteSubsetsOf(S))
        BY FS_StrictSubsetOrderingWellFounded
    <1>2. Bad \subseteq FiniteSubsetsOf(S)
        BY FS_Subset DEF FiniteSubsetsOf
    <1>3. PICK T \in Bad : \A U \in Bad : ~ (<<U, T>> \in StrictSubsetOrdering(S))
        <2> HIDE DEF Bad
        <2> QED BY <1>1, <1>2, WFMin
    <1>4. \A U \in (SUBSET T) \ {T} : U \in Good
        <2> SUFFICES ASSUME NEW U \in (SUBSET T) \ {T}, U \notin Good PROVE FALSE
            OBVIOUS
        <2>1. U \in Bad /\ T \in SUBSET S
            OBVIOUS
        <2>2. <<U, T>> \in StrictSubsetOrdering(S)
            BY <2>1 DEF StrictSubsetOrdering
        <2> QED BY <2>1, <2>2, <1>3
    <1> QED BY <1>4

-----------------------------------------------------------------------------
(* The fold behind SumOver: the element it takes next, and the table of partial
   sums it is the fixed point of. *)
Taken(s) == CHOOSE x \in s : TRUE
IsTable(f, per, dom) ==
    f = [s \in dom |-> IF s = {} THEN 0 ELSE per[Taken(s)] + f[s \ {Taken(s)}]]
Table(per, keys) == CHOOSE f : IsTable(f, per, SUBSET keys)

(* The element taken belongs to the set. *)
LEMMA TakenIn == \A s : s # {} => Taken(s) \in s
    BY DEF Taken

(* SumOver is the last entry of its table. *)
LEMMA SumIsEntry ==
    ASSUME NEW per, NEW keys
    PROVE  SumOver(per, keys) = Table(per, keys)[keys]
    BY Zenon DEF SumOver, MapThenSumSet, MapThenFoldSet, Taken, Table, IsTable

(* Two tables agree where both are defined. *)
LEMMA TablesAgree ==
    ASSUME NEW per, NEW A, NEW B, NEW f, NEW g, IsTable(f, per, SUBSET A),
           IsTable(g, per, SUBSET B), NEW S, IsFiniteSet(S), S \in SUBSET A,
           S \in SUBSET B
    PROVE  f[S] = g[S]
    <1> DEFINE Good == {s \in SUBSET S : f[s] = g[s]}
    <1>1. ASSUME NEW T \in SUBSET S, \A U \in (SUBSET T) \ {T} : U \in Good
          PROVE  T \in Good
        <2>1. T \in SUBSET A /\ T \in SUBSET B
            OBVIOUS
        <2>2. /\ f[T] = IF T = {} THEN 0 ELSE per[Taken(T)] + f[T \ {Taken(T)}]
              /\ g[T] = IF T = {} THEN 0 ELSE per[Taken(T)] + g[T \ {Taken(T)}]
            BY <2>1 DEF IsTable
        <2>3. T # {} => T \ {Taken(T)} \in Good
            BY <1>1, TakenIn
        <2> QED BY <2>2, <2>3
    <1> HIDE DEF Good
    <1>2. \A T \in SUBSET S : T \in Good
        BY <1>1, SubsetInduction
    <1> QED BY <1>2 DEF Good

(* There is a table for every finite set of keys. *)
LEMMA TableExists ==
    ASSUME NEW per, NEW keys, IsFiniteSet(keys)
    PROVE  IsTable(Table(per, keys), per, SUBSET keys)
    <1> DEFINE Good == {T \in SUBSET keys : \E f : IsTable(f, per, SUBSET T)}
    <1>1. ASSUME NEW T \in SUBSET keys, \A U \in (SUBSET T) \ {T} : U \in Good
          PROVE  T \in Good
        <2> DEFINE Partial(u) == Table(per, u)[u]
        <2> DEFINE h == [s \in SUBSET T |-> IF s = {} THEN 0
                                            ELSE per[Taken(s)] + Partial(s \ {Taken(s)})]
        <2>1. \A U \in (SUBSET T) \ {T} : IsTable(Table(per, U), per, SUBSET U)
            BY <1>1, Zenon DEF Table
        <2>2. ASSUME NEW u \in (SUBSET T) \ {T}
              PROVE  h[u] = Partial(u)
            <3> DEFINE q == Taken(u)
            <3> DEFINE v == u \ {q}
            <3>1. IsTable(Table(per, u), per, SUBSET u)
                BY <2>1
            <3>2. CASE u = {}
                <4>1. Table(per, u)[u] = 0
                    BY <3>1, <3>2 DEF IsTable
                <4> QED BY <4>1, <3>2
            <3>3. CASE u # {}
                <4>1. v \in (SUBSET T) \ {T} /\ v \in SUBSET u /\ v \in SUBSET v
                    BY <3>3, TakenIn
                <4>2. IsTable(Table(per, v), per, SUBSET v)
                    BY <2>1, <4>1
                <4>3. IsFiniteSet(v)
                    BY FS_Subset, <4>1
                <4>4. Table(per, u)[u] = per[q] + Table(per, u)[v]
                    BY <3>1, <3>3 DEF IsTable
                <4>5. h[u] = per[q] + Partial(v)
                    BY <3>3
                <4> HIDE DEF v
                <4>6. Table(per, u)[v] = Table(per, v)[v]
                    BY <3>1, <4>1, <4>2, <4>3, TablesAgree
                <4> QED BY <4>4, <4>5, <4>6
            <3> QED BY <3>2, <3>3
        <2>3. \A s \in SUBSET T : s # {} => s \ {Taken(s)} \in (SUBSET T) \ {T}
            BY TakenIn
        <2>4. \A s \in SUBSET T : s # {} => h[s \ {Taken(s)}] = Partial(s \ {Taken(s)})
            BY <2>2, <2>3
        <2>5. IsTable(h, per, SUBSET T)
            BY <2>4 DEF IsTable
        <2> QED BY <2>5
    <1> HIDE DEF Good
    <1>2. \A T \in SUBSET keys : T \in Good
        BY <1>1, SubsetInduction
    <1>3. \E f : IsTable(f, per, SUBSET keys)
        BY <1>2 DEF Good
    <1> QED BY <1>3, Zenon DEF Table

(* A sum is nothing over no keys, and otherwise one count and the sum of the
   rest. *)
LEMMA SumStep ==
    ASSUME NEW per, NEW keys, IsFiniteSet(keys)
    PROVE  /\ keys = {} => SumOver(per, keys) = 0
           /\ keys # {} => /\ Taken(keys) \in keys
                           /\ SumOver(per, keys) = per[Taken(keys)]
                                 + SumOver(per, keys \ {Taken(keys)})
    <1>1. IsTable(Table(per, keys), per, SUBSET keys)
        BY TableExists
    <1>2. ASSUME keys = {} PROVE SumOver(per, keys) = 0
        BY <1>1, <1>2, SumIsEntry DEF IsTable
    <1>3. ASSUME keys # {}
          PROVE  /\ Taken(keys) \in keys
                 /\ SumOver(per, keys) = per[Taken(keys)]
                       + SumOver(per, keys \ {Taken(keys)})
        <2> DEFINE rest == keys \ {Taken(keys)}
        <2>1. Taken(keys) \in keys /\ IsFiniteSet(rest)
            BY <1>3, TakenIn, FS_RemoveElement
        <2>2. IsTable(Table(per, rest), per, SUBSET rest)
            BY <2>1, TableExists
        <2>3. rest \in SUBSET keys /\ rest \in SUBSET rest
            OBVIOUS
        <2>4. Table(per, keys)[keys] = per[Taken(keys)] + Table(per, keys)[rest]
            BY <1>1, <1>3 DEF IsTable
        <2> HIDE DEF rest
        <2>5. Table(per, keys)[rest] = Table(per, rest)[rest]
            BY <1>1, <2>1, <2>2, <2>3, TablesAgree
        <2>6. SumOver(per, keys) = per[Taken(keys)] + SumOver(per, rest)
            BY <2>4, <2>5, SumIsEntry
        <2> QED BY <2>1, <2>6 DEF rest
    <1> QED BY <1>2, <1>3

(* A sum of counts is a count, and it is positive exactly when one of the counts
   is: what the fail-closed lookups rely on. *)
LEMMA SumOfCounts ==
    ASSUME NEW per, NEW keys, IsFiniteSet(keys), \A k \in keys : per[k] \in Nat
    PROVE  /\ SumOver(per, keys) \in Nat
           /\ SumOver(per, keys) > 0 <=> \E k \in keys : per[k] > 0
    <1> DEFINE Good == {s \in SUBSET keys :
                          /\ SumOver(per, s) \in Nat
                          /\ SumOver(per, s) > 0 <=> \E k \in s : per[k] > 0}
    <1>1. ASSUME NEW T \in SUBSET keys, \A U \in (SUBSET T) \ {T} : U \in Good
          PROVE  T \in Good
        <2>1. IsFiniteSet(T)
            BY FS_Subset
        <2>2. CASE T = {}
            <3>1. SumOver(per, T) = 0 /\ ~ \E k \in T : per[k] > 0
                BY <2>1, <2>2, SumStep
            <3> QED BY <3>1
        <2>3. CASE T # {}
            <3> DEFINE p == Taken(T)
            <3> DEFINE U == T \ {p}
            <3>1. p \in T /\ SumOver(per, T) = per[p] + SumOver(per, U)
                BY <2>1, <2>3, SumStep
            <3>2. U \in Good
                BY <1>1, <3>1
            <3>3. /\ SumOver(per, U) \in Nat
                  /\ SumOver(per, U) > 0 <=> \E k \in U : per[k] > 0
                BY <3>2
            <3>4. per[p] \in Nat
                BY <3>1
            <3>5. (\E k \in T : per[k] > 0) <=> (per[p] > 0 \/ \E k \in U : per[k] > 0)
                BY <3>1
            <3> HIDE DEF p, U
            <3>6. /\ SumOver(per, T) \in Nat
                  /\ SumOver(per, T) > 0 <=> \E k \in T : per[k] > 0
                BY <3>1, <3>3, <3>4, <3>5
            <3> QED BY <3>6
        <2> QED BY <2>2, <2>3
    <1> HIDE DEF Good
    <1>2. \A T \in SUBSET keys : T \in Good
        BY <1>1, SubsetInduction
    <1> QED BY <1>2 DEF Good

-----------------------------------------------------------------------------
(* The keys a lookup and a fail-closed lookup add up are keys of the map. *)
LEMMA KeysInDomain ==
    ASSUME NEW per, NEW h, NEW c
    PROVE  LookupKeys(per, h) \in SUBSET DOMAIN per
           /\ ChargedKeys(per, h, c) \in SUBSET DOMAIN per
    BY DEF LookupKeys, ChargedKeys

(* A sum of a category's entries under some of its keys. *)
LEMMA CategorySum ==
    ASSUME NEW cat, CategoryOK(cat), NEW keys \in SUBSET DOMAIN cat.per
    PROVE  /\ SumOver(cat.per, keys) \in Nat
           /\ SumOver(cat.per, keys) > 0 <=> \E k \in keys : cat.per[k] > 0
    <1>1. IsFiniteSet(keys) /\ \A k \in keys : cat.per[k] \in Nat
        BY FS_Subset DEF CategoryOK
    <1> QED BY <1>1, SumOfCounts

(* Approximation entries merged over some keys of the map. *)
LEMMA MergedSum ==
    ASSUME NEW c, CountsOK(c), NEW keys \in SUBSET DOMAIN c.approx
    PROVE  /\ Merged(c.approx, keys) \in [ApproxCats -> Nat]
           /\ \A a \in ApproxCats :
                 Merged(c.approx, keys)[a] > 0 <=> \E k \in keys : c.approx[k][a] > 0
    <1>1. ASSUME NEW a \in ApproxCats
          PROVE  /\ Merged(c.approx, keys)[a] \in Nat
                 /\ Merged(c.approx, keys)[a] > 0 <=> \E k \in keys : c.approx[k][a] > 0
        <2> DEFINE per == [k \in keys |-> c.approx[k][a]]
        <2>1. IsFiniteSet(keys) /\ \A k \in keys : c.approx[k][a] \in Nat
            BY FS_Subset DEF CountsOK
        <2>2. \A k \in keys : per[k] = c.approx[k][a]
            OBVIOUS
        <2>3. Merged(c.approx, keys)[a] = SumOver(per, keys)
            BY DEF Merged
        <2> HIDE DEF per
        <2>4. /\ SumOver(per, keys) \in Nat
              /\ SumOver(per, keys) > 0 <=> \E k \in keys : per[k] > 0
            BY <2>1, <2>2, SumOfCounts
        <2> QED BY <2>2, <2>3, <2>4
    <1>2. Merged(c.approx, keys)
             = [a \in ApproxCats |-> Merged(c.approx, keys)[a]]
        BY DEF Merged
    <1> QED BY <1>1, <1>2

(* The counts charged to a harness are counts. *)
LEMMA ChargedCounts ==
    ASSUME NEW c, CountsOK(c), NEW h
    PROVE  /\ Demoting(h, c) \in [Cats -> Nat]
           /\ SoundApprox(h, c) \in [ApproxCats -> Nat]
           /\ Merged(c.approx, LookupKeys(c.approx, h)) \in [ApproxCats -> Nat]
           /\ FailClosed(h, c) \in Nat
           /\ \A x \in Cats \ {"gap", "offset"} : Demoting(h, c)[x] = 0
    <1>1. ASSUME NEW cat, CategoryOK(cat)
          PROVE  ResolveFailClosed(cat, h, c) \in Nat /\ Resolve(cat, h) \in Nat
        <2>1. /\ LookupKeys(cat.per, h) \in SUBSET DOMAIN cat.per
              /\ ChargedKeys(cat.per, h, c) \in SUBSET DOMAIN cat.per
            BY KeysInDomain
        <2>2. /\ SumOver(cat.per, LookupKeys(cat.per, h)) \in Nat
              /\ SumOver(cat.per, ChargedKeys(cat.per, h, c)) \in Nat
            BY <1>1, <2>1, CategorySum
        <2>3. cat.total \in Nat
            BY <1>1 DEF CategoryOK
        <2> QED BY <2>2, <2>3 DEF ResolveFailClosed, Resolve
    <1>2. /\ ResolveFailClosed(c.gap, h, c) \in Nat
          /\ ResolveFailClosed(c.offset, h, c) \in Nat
          /\ Resolve(c.iter, h) \in Nat /\ c.forced \in Nat
        BY <1>1 DEF CountsOK
    <1>3. /\ Demoting(h, c) \in [Cats -> Nat]
          /\ \A x \in Cats \ {"gap", "offset"} : Demoting(h, c)[x] = 0
        BY <1>2 DEF Demoting, NoCats, Cats, ApproxCats
    <1>4. /\ LookupKeys(c.approx, h) \in SUBSET DOMAIN c.approx
          /\ ChargedKeys(c.approx, h, c) \in SUBSET DOMAIN c.approx
        BY KeysInDomain
    <1>5. /\ SoundApprox(h, c) \in [ApproxCats -> Nat]
          /\ Merged(c.approx, LookupKeys(c.approx, h)) \in [ApproxCats -> Nat]
        BY <1>4, MergedSum DEF SoundApprox
    <1>6. FailClosed(h, c) \in Nat
        BY <1>2 DEF FailClosed
    <1> QED BY <1>3, <1>5, <1>6

(* Six naturals add up to nothing only if each is nothing. *)
LEMMA SixNaturals ==
    ASSUME NEW a \in Nat, NEW b \in Nat, NEW c \in Nat, NEW d \in Nat, NEW e \in Nat,
           NEW f \in Nat
    PROVE  /\ a + b + c + d + e + f \in Nat
           /\ a + b + c + d + e + f = 0 <=>
                a = 0 /\ b = 0 /\ c = 0 /\ d = 0 /\ e = 0 /\ f = 0
    OBVIOUS

(* A total of counts is a count, and zero only if each of them is. *)
LEMMA TotalOfCounts ==
    ASSUME NEW why \in [Cats -> Nat]
    PROVE  /\ Total(why) \in Nat
           /\ Total(why) = 0 <=> \A x \in Cats : why[x] = 0
    <1>1. Cats = {"havoc", "unhandled", "drop", "gap", "offset", "forced"}
        BY DEF Cats, ApproxCats
    <1>2. /\ why["havoc"] \in Nat /\ why["unhandled"] \in Nat /\ why["drop"] \in Nat
          /\ why["gap"] \in Nat /\ why["offset"] \in Nat /\ why["forced"] \in Nat
        BY <1>1
    <1> DEFINE a == why["havoc"]
    <1> DEFINE b == why["unhandled"]
    <1> DEFINE c == why["drop"]
    <1> DEFINE d == why["gap"]
    <1> DEFINE e == why["offset"]
    <1> DEFINE f == why["forced"]
    <1>3. Total(why) = a + b + c + d + e + f
        BY DEF Total
    <1>4. (\A x \in Cats : why[x] = 0) <=>
             a = 0 /\ b = 0 /\ c = 0 /\ d = 0 /\ e = 0 /\ f = 0
        BY <1>1
    <1>5. a \in Nat /\ b \in Nat /\ c \in Nat /\ d \in Nat /\ e \in Nat /\ f \in Nat
        BY <1>2
    <1> HIDE DEF a, b, c, d, e, f
    <1> QED BY <1>3, <1>4, <1>5, SixNaturals

-----------------------------------------------------------------------------
(* attributable_to_harness leaves no key without a harness that answers for it:
   the harness it may name or, if it names none, every one of them. *)
LEMMA ChargedSomewhere ==
    ASSUME NEW names, names # {}, NEW k
    PROVE  \E h \in names : Attributable(k, h, names)
    <1>1. CASE \E n \in names : HarnessNamesMatch(k, n)
        BY <1>1 DEF Attributable
    <1>2. CASE ~ \E n \in names : HarnessNamesMatch(k, n)
        BY <1>2 DEF Attributable
    <1> QED BY <1>1, <1>2

(* A positive entry of a demoting category is charged to some harness. *)
LEMMA CategoryCharged ==
    ASSUME NEW c, c.names # {}, NEW cat, CategoryOK(cat),
           IF DOMAIN cat.per = {} THEN cat.total > 0
           ELSE SumOver(cat.per, DOMAIN cat.per) > 0
    PROVE  \E h \in c.names : ResolveFailClosed(cat, h, c) > 0
    <1>1. CASE DOMAIN cat.per = {}
        BY <1>1 DEF ResolveFailClosed
    <1>2. CASE DOMAIN cat.per # {}
        <2>1. PICK k \in DOMAIN cat.per : cat.per[k] > 0
            BY <1>2, CategorySum
        <2>2. PICK h \in c.names : Attributable(k, h, c.names)
            BY ChargedSomewhere
        <2>3. k \in ChargedKeys(cat.per, h, c)
            BY <2>1, <2>2 DEF ChargedKeys
        <2>4. SumOver(cat.per, ChargedKeys(cat.per, h, c)) > 0
            BY <2>1, <2>3, CategorySum, KeysInDomain
        <2> QED BY <1>2, <2>4 DEF ResolveFailClosed
    <1> QED BY <1>1, <1>2

(* A suspect approximation is charged to some harness. *)
LEMMA ApproximationCharged ==
    ASSUME NEW c, CountsOK(c), c.names # {}, NEW k \in DOMAIN c.approx,
           c.approx[k]["drop"] + c.approx[k]["unhandled"] > 0
    PROVE  \E h \in c.names : SoundFallbacks(h, c) > 0
    <1>1. PICK h \in c.names : Attributable(k, h, c.names)
        BY ChargedSomewhere
    <1> DEFINE keys == ChargedKeys(c.approx, h, c)
    <1>2. k \in keys /\ keys \in SUBSET DOMAIN c.approx
        BY <1>1, KeysInDomain DEF ChargedKeys
    <1>3. c.approx[k]["drop"] \in Nat /\ c.approx[k]["unhandled"] \in Nat
        BY DEF CountsOK, ApproxCats
    <1>4. PICK a \in {"drop", "unhandled"} : c.approx[k][a] > 0
        BY <1>3
    <1> HIDE DEF keys
    <1>5. Merged(c.approx, keys)[a] > 0 /\ Merged(c.approx, keys) \in [ApproxCats -> Nat]
        BY <1>2, <1>4, MergedSum DEF ApproxCats
    <1>6. SoundFallbacks(h, c) = Merged(c.approx, keys)["unhandled"]
                                 + Merged(c.approx, keys)["drop"]
        BY DEF SoundFallbacks, SoundApprox, keys
    <1>7. Merged(c.approx, keys)["unhandled"] \in Nat /\ Merged(c.approx, keys)["drop"] \in Nat
        BY <1>5 DEF ApproxCats
    <1>8. SoundFallbacks(h, c) > 0
        BY <1>4, <1>5, <1>6, <1>7
    <1> QED BY <1>8

-----------------------------------------------------------------------------
(* The three verdicts of classify_ctrex, and of its recertification. *)
Labels == {"Genuine", "EncodingGap", "OverApproximation"}

(* classify_ctrex and recertify_overapprox_ctrex give no other label. *)
LEMMA ClassifiedLabel ==
    ASSUME NEW c, NEW h, NEW ev
    PROVE  /\ ClassifyCtrex(h, c).label \in Labels
           /\ Recertify(ClassifyCtrex(h, c), ev).label \in Labels
    <1>1. ClassifyCtrex(h, c).label \in Labels
        BY DEF ClassifyCtrex, Category, Labels
    <1>2. ASSUME NEW cat, cat.label \in Labels PROVE Recertify(cat, ev).label \in Labels
        BY <1>2 DEF Recertify, Category, Labels
    <1> QED BY <1>1, <1>2

(* An entry laid over the other categories. *)
LEMMA WithCounts ==
    ASSUME NEW why \in [Cats -> Nat], NEW entry \in [ApproxCats -> Nat]
    PROVE  /\ With(why, entry) \in [Cats -> Nat]
           /\ \A x \in ApproxCats : With(why, entry)[x] = entry[x]
           /\ \A x \in Cats \ ApproxCats : With(why, entry)[x] = why[x]
    BY DEF With, Cats

(* A counterexample called genuine is free of gaps and forced failures of the
   encoding.  When the fail-closed contract charges freeing events to the harness,
   the evidence is complete, independent of them, and accounts for all of those
   under the harness's own keys; in one key space, for all that are charged. *)
LEMMA GenuineMeans ==
    ASSUME NEW c, CountsOK(c), NEW h, NEW ev,
           Recertify(ClassifyCtrex(h, c), ev).label = "Genuine"
    PROVE  /\ Demoting(h, c)["gap"] = 0
           /\ FailClosed(h, c) = 0
           /\ LET charged == EffectiveTotal(With(Demoting(h, c), SoundApprox(h, c)))
                  found == EffectiveTotal(With(Demoting(h, c),
                                    Merged(c.approx, LookupKeys(c.approx, h))))
              IN  charged > 0 =>
                    /\ ev.complete /\ ev.independent
                    /\ found <= ev.accounted
                    /\ OneKeySpace(h, c) => ev.accounted = charged
    <1> DEFINE D == Demoting(h, c)
    <1> DEFINE F == FailClosed(h, c)
    <1> DEFINE A == SoundApprox(h, c)
    <1> DEFINE own == Merged(c.approx, LookupKeys(c.approx, h))
    <1> DEFINE forced == [NoCats EXCEPT !["offset"] = D["offset"], !["forced"] = F]
    <1> DEFINE freeing == With(D, own)
    <1> DEFINE residual == With(NoCats, A)
    <1> DEFINE charged == With(D, A)
    <1> DEFINE cat == ClassifyCtrex(h, c)
    <1>1. /\ D \in [Cats -> Nat] /\ A \in [ApproxCats -> Nat]
          /\ own \in [ApproxCats -> Nat] /\ F \in Nat
          /\ D["havoc"] = 0 /\ D["unhandled"] = 0 /\ D["drop"] = 0 /\ D["forced"] = 0
        BY ChargedCounts DEF Cats, ApproxCats
    <1>2. NoCats \in [Cats -> Nat] /\ forced["forced"] = F
        BY DEF NoCats, Cats, ApproxCats
    <1>3. cat = IF D["gap"] > 0 THEN Category("EncodingGap", D)
                ELSE IF forced["forced"] > 0 THEN Category("EncodingGap", forced)
                ELSE IF Total(freeing) > 0 THEN Category("OverApproximation", freeing)
                ELSE IF Total(residual) > 0 THEN Category("OverApproximation", residual)
                ELSE Category("Genuine", NoCats)
        BY DEF ClassifyCtrex
    <1>4. /\ freeing \in [Cats -> Nat] /\ residual \in [Cats -> Nat]
          /\ charged \in [Cats -> Nat]
          /\ \A x \in ApproxCats : /\ freeing[x] = own[x] /\ residual[x] = A[x]
                                   /\ charged[x] = A[x]
          /\ \A x \in Cats \ ApproxCats : /\ freeing[x] = D[x] /\ residual[x] = NoCats[x]
                                          /\ charged[x] = D[x]
        BY <1>1, <1>2, WithCounts
    <1>5. Recertify(cat, ev).label = "Genuine"
        OBVIOUS
    <1>6. D["gap"] \in Nat /\ D["offset"] \in Nat
        BY <1>1 DEF Cats
    <1>7. /\ Total(freeing) \in Nat /\ (Total(freeing) = 0 <=> \A x \in Cats : freeing[x] = 0)
          /\ Total(residual) \in Nat
          /\ (Total(residual) = 0 <=> \A x \in Cats : residual[x] = 0)
        BY <1>4, TotalOfCounts
    <1>8. OneKeySpace(h, c) => own = A \/ ((\A x \in ApproxCats : own[x] = 0) /\ D["offset"] = 0)
        <2>1. ASSUME LookupKeys(c.approx, h) = {} PROVE \A x \in ApproxCats : own[x] = 0
            <3>1. \A x \in ApproxCats : own[x] \in Nat /\ ~ (own[x] > 0)
                BY <1>1, <2>1, MergedSum
            <3> QED BY <3>1
        <2> QED BY <2>1 DEF OneKeySpace, SoundApprox
    <1> HIDE DEF D, F, A, own, forced, freeing, residual, charged, cat
    <1>9. CASE D["gap"] > 0
        <2>1. cat = Category("EncodingGap", D)
            BY <1>3, <1>9, <1>6, <1>2, <1>1
        <2>2. ~ OffsetOnly(D)
            BY <1>9, <1>6 DEF OffsetOnly, Cats
        <2> QED BY <2>1, <2>2, <1>5 DEF Recertify, Category
    <1>10. CASE D["gap"] = 0 /\ F > 0
        <2>1. cat = Category("EncodingGap", forced)
            BY <1>3, <1>10, <1>2, <1>1
        <2>2. ~ OffsetOnly(forced)
            BY <1>10, <1>1, <1>2 DEF OffsetOnly, Cats
        <2> QED BY <2>1, <2>2, <1>5 DEF Recertify, Category
    <1>11. CASE D["gap"] = 0 /\ F = 0
        <2>1. SUFFICES ASSUME EffectiveTotal(charged) > 0
                       PROVE  /\ ev.complete /\ ev.independent
                              /\ EffectiveTotal(freeing) <= ev.accounted
                              /\ OneKeySpace(h, c) =>
                                    ev.accounted = EffectiveTotal(charged)
            BY <1>11 DEF D, F, A, own, charged, freeing
        <2>e. EffectiveTotal(freeing) \in Int
            BY <1>4 DEF EffectiveTotal, Total, Cats, ApproxCats
        <2>2. CASE Total(freeing) > 0
            <3>1. cat = Category("OverApproximation", freeing)
                BY <1>3, <1>11, <2>2, <1>2
            <3>2. Certifiable(freeing, ev)
                BY <3>1, <1>5 DEF Recertify, Category
            <3>3. \E x \in Cats : freeing[x] > 0
                BY <2>2, <1>7, <1>4
            <3>4. ~ ((\A x \in ApproxCats : own[x] = 0) /\ D["offset"] = 0)
                BY <3>3, <1>4, <1>1, <1>11 DEF Cats
            <3>5. OneKeySpace(h, c) => own = A
                BY <3>4, <1>8
            <3>6. OneKeySpace(h, c) => charged = freeing
                BY <3>5 DEF charged, freeing
            <3>7. ev.complete /\ ev.independent /\ ev.accounted = EffectiveTotal(freeing)
                BY <3>2 DEF Certifiable
            <3> QED BY <3>6, <3>7, <2>e
        <2>3. CASE Total(freeing) = 0
            <3>1. D["offset"] = 0
                BY <2>3, <1>7, <1>4 DEF Cats, ApproxCats
            <3>2. \A x \in Cats : charged[x] = residual[x]
                BY <3>1, <1>4, <1>1, <1>11 DEF Cats, ApproxCats, NoCats
            <3>3. EffectiveTotal(charged) = EffectiveTotal(residual)
                BY <3>2 DEF EffectiveTotal, Total, Cats, ApproxCats
            <3>4. CASE Total(residual) > 0
                <4>1. cat = Category("OverApproximation", residual)
                    BY <1>3, <1>11, <2>3, <3>4, <1>2
                <4>2. Certifiable(residual, ev)
                    BY <4>1, <1>5 DEF Recertify, Category
                <4>3. EffectiveTotal(freeing) = 0
                    BY <2>3, <1>7 DEF EffectiveTotal, Total, Cats, ApproxCats
                <4>4. /\ ev.complete /\ ev.independent
                      /\ ev.accounted = EffectiveTotal(residual)
                      /\ EffectiveTotal(residual) > 0
                    BY <4>2 DEF Certifiable
                <4>5. EffectiveTotal(residual) \in Int
                    BY <1>4 DEF EffectiveTotal, Total, Cats, ApproxCats
                <4> QED BY <4>3, <4>4, <4>5, <3>3
            <3>5. CASE Total(residual) = 0
                <4>1. residual["unhandled"] = 0
                    BY <3>5, <1>7 DEF Cats, ApproxCats
                <4>2. EffectiveTotal(residual) = 0
                    BY <3>5, <4>1 DEF EffectiveTotal
                <4> QED BY <4>2, <3>3, <2>1
            <3> QED BY <3>4, <3>5, <1>7
        <2> QED BY <2>2, <2>3, <1>7
    <1> QED BY <1>9, <1>10, <1>11, <1>6, <1>1
=============================================================================
