-------------------------- MODULE MCHarnessVerdict --------------------------
(* Small instances of the verdict pipeline. *)
EXTENDS HarnessVerdict

MH == <<"m", "h">>      \* two harnesses with the same last segment
NH == <<"n", "h">>
H  == <<"h">>           \* a key that may name either
F  == <<"f">>           \* a function that is no harness

Zero == [total |-> 0, per |-> << >>]
One(keys) == [total |-> 0, per |-> [k \in keys |-> 1]]
Whole == [total |-> 1, per |-> << >>]

Clean(names) == [names |-> names, gap |-> Zero, offset |-> Zero, iter |-> Zero,
                 forced |-> 0, approx |-> << >>]
Entry(c) == [NoEntry EXCEPT ![c] = 1]
Double == [NoEntry EXCEPT !["drop"] = 1, !["unhandled"] = 1]

Solo == Clean({MH})
SoloCrates ==
    {Solo} \union {[Solo EXCEPT !.gap = g] : g \in {Whole, One({F})}}
           \union {[Solo EXCEPT !.offset = One({MH})], [Solo EXCEPT !.forced = 1],
                   [Solo EXCEPT !.offset = One({MH}), !.iter = One({H})]}
           \union {[Solo EXCEPT !.approx = [k \in {MH} |-> e]] :
                      e \in {Entry("havoc"), Double}}

Pair == Clean({MH, NH})
KeySets == SUBSET {MH, NH, H, F}
(* Each category's map is keyed by harness, or by function where no snapshot
   window was open: together they mix the two. *)
Mixed(own, other) == [k \in {own, other} |-> Entry(IF k = own THEN "drop" ELSE "havoc")]
MixedApprox == {Mixed(MH, F), Mixed(MH, H), Mixed(NH, F)}

(* A demoting or fail-closed count and an approximation under every set of keys,
   and approximations of which one category is keyed by function, alone or
   beside an offset. *)
PairCrates ==
    {[Pair EXCEPT !.gap = One(ks)] : ks \in KeySets}
    \union {[Pair EXCEPT !.offset = One(ks)] : ks \in SUBSET {MH, H}}
    \union {[Pair EXCEPT !.iter = One(ks)] : ks \in SUBSET {MH, NH}}
    \union {[Pair EXCEPT !.approx = [k \in ks |-> e]] :
               ks \in KeySets, e \in {Entry("havoc"), Double}}
    \union {[Pair EXCEPT !.approx = m] : m \in MixedApprox}
    \union {[Pair EXCEPT !.offset = One({o}), !.approx = [k \in {a} |-> Double]] :
               o \in {MH, F}, a \in {MH, NH, H, F}}
LoopCrates == {Solo, [Solo EXCEPT !.gap = Whole]}

Ev(found, complete, n, independent) ==
    [found |-> found, complete |-> complete, accounted |-> n,
     independent |-> independent]
NoEvidence == {Ev(FALSE, FALSE, 0, FALSE)}
SomeEvidence == {Ev(TRUE, TRUE, 1, i) : i \in BOOLEAN}
FullEvidence == {Ev(TRUE, TRUE, n, TRUE) : n \in 1..2} \union {Ev(TRUE, FALSE, 1, TRUE)}

Plain == [shouldPanic |-> FALSE, conformance |-> FALSE, bare |-> FALSE,
          loops |-> FALSE, sibling |-> FALSE]
GateAttributes == {[Plain EXCEPT !.shouldPanic = p, !.conformance = c] :
                      p \in BOOLEAN, c \in BOOLEAN}
                  \union {[Plain EXCEPT !.bare = TRUE]}
PanicAttributes == {[Plain EXCEPT !.shouldPanic = p] : p \in BOOLEAN}
LoopAttributes == {[Plain EXCEPT !.loops = TRUE, !.shouldPanic = p] : p \in BOOLEAN}
SiblingAttributes == {[Plain EXCEPT !.loops = TRUE, !.sibling = TRUE]}

Opt(a, s, q) == [allowVacuous |-> a, strict |-> s, quiet |-> q]
GateOptions == {Opt(a, s, FALSE) : a \in BOOLEAN, s \in BOOLEAN}
Default == {Opt(FALSE, FALSE, FALSE)}

GateKinds == AllKinds \ {"undet", "chc", "other"}
FewKinds == {"ok", "panic"}
LaneKinds == {"ok", "undet", "panic", "other", "chc"}

Scenario(crates, options, attributes, evidence, kinds) ==
    [crates |-> crates, options |-> options, attributes |-> attributes,
     evidence |-> evidence, kinds |-> kinds]
(* Every gate on one harness; attribution between two harnesses; the retry. *)
AllScenarios ==
    [gates   |-> Scenario(SoloCrates, GateOptions, GateAttributes, SomeEvidence, GateKinds),
     crates  |-> Scenario(PairCrates, Default, PanicAttributes, FullEvidence, FewKinds),
     retries |-> Scenario(LoopCrates, Default, LoopAttributes, NoEvidence, LaneKinds)]
MixedScenarios ==
    [crates  |-> Scenario({[Pair EXCEPT !.approx = m] : m \in MixedApprox}, Default,
                          PanicAttributes, FullEvidence, FewKinds)]
SiblingScenarios ==
    [retries |-> Scenario(LoopCrates, Default, SiblingAttributes, NoEvidence, FewKinds)]
=============================================================================
