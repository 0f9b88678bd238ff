----------------------------- MODULE Attribution -----------------------------
(***************************************************************************)
(* Which of a crate's unsoundness counts the driver charges to a harness:  *)
(* the lookups of trust-mc-driver/src/demotion.rs, the counterexample      *)
(* categories of ctrex_classify.rs and the recertification of              *)
(* harness_runner.rs.  Pure operators; HarnessVerdict drives them.         *)
(*                                                                         *)
(* A name is the sequence of its ::-separated segments.  A crate's counts  *)
(* are a record                                                            *)
(*   names    the proof harnesses of the crate (harness_names)             *)
(*   gap      a demoting category other than offset provenance             *)
(*   offset   offset_provenance_unresolved                                 *)
(*   iter     a fail-closed category with a per-harness map                *)
(*   forced   the fail-closed categories that only have a crate total      *)
(*   approx   sound_approx_per_harness                                     *)
(* where a category is [total, per] and per maps keys to counts.  The keys *)
(* of a per-harness map are a mixed space: harness names, and function     *)
(* names that survived on writer paths without a snapshot window.          *)
(***************************************************************************)
EXTENDS Integers, FiniteSets, FiniteSetsExt, SequencesExt

(* The sound-approximation categories the driver tells apart:
   chc_sound_havoc_drop, unhandled_calls, and the others. *)
ApproxCats == {"havoc", "unhandled", "drop"}
Cats == ApproxCats \union {"gap", "offset", "forced"}

NoCats == [c \in Cats |-> 0]
NoEntry == [c \in ApproxCats |-> 0]

(* Every count is a usize, and the compiler wrote finitely many of them. *)
CategoryOK(cat) ==
    /\ cat.total \in Nat
    /\ IsFiniteSet(DOMAIN cat.per)
    /\ \A k \in DOMAIN cat.per : cat.per[k] \in Nat
CountsOK(c) ==
    /\ CategoryOK(c.gap) /\ CategoryOK(c.offset) /\ CategoryOK(c.iter)
    /\ c.forced \in Nat
    /\ IsFiniteSet(DOMAIN c.approx)
    /\ \A k \in DOMAIN c.approx : c.approx[k] \in [ApproxCats -> Nat]

-----------------------------------------------------------------------------
(* demotion.rs: names *)

(* harness_names_match, on segment boundaries *)
HarnessNamesMatch(a, b) == a = b \/ IsStrictSuffix(b, a) \/ IsStrictSuffix(a, b)

(* lookup_per_harness: the exact key, else the unique most specific suffix
   match; {} when there is none or several tie. *)
LookupKeys(per, h) ==
    LET close == {k \in DOMAIN per : HarnessNamesMatch(k, h)}
        Specific(k) == Min({Len(k), Len(h)})
        best  == {k \in close : \A c \in close : Specific(c) <= Specific(k)}
    IN  IF h \in DOMAIN per THEN {h}
        ELSE IF Cardinality(best) = 1 THEN best ELSE {}

(* Mutant: only exact and suffix matches count, as before the contract. *)
AttributableMutant(k, h, names) == HarnessNamesMatch(k, h)
(* attributable_to_harness: a key charges h when it may name h, and also when
   it names no other harness of the crate. *)
Attributable(k, h, names) ==
    \/ HarnessNamesMatch(k, h)
    \/ ~ \E n \in names \ {h} : HarnessNamesMatch(k, n)

ChargedKeys(per, h, c) == {k \in DOMAIN per : Attributable(k, h, c.names)}

-----------------------------------------------------------------------------
(* demotion.rs: counts *)

SumOver(per, keys) == MapThenSumSet(LAMBDA k : per[k], keys)

(* resolve_per_harness_count *)
Resolve(cat, h) ==
    IF DOMAIN cat.per = {} THEN cat.total
                           ELSE SumOver(cat.per, LookupKeys(cat.per, h))

(* resolve_per_harness_count_fail_closed *)
ResolveFailClosed(cat, h, c) ==
    IF DOMAIN cat.per = {} THEN cat.total
                           ELSE SumOver(cat.per, ChargedKeys(cat.per, h, c))

(* resolve_demoting_categories *)
Demoting(h, c) ==
    [NoCats EXCEPT !["gap"]    = ResolveFailClosed(c.gap, h, c),
                   !["offset"] = ResolveFailClosed(c.offset, h, c)]

(* The entries of the given keys, added up category by category. *)
Merged(approx, keys) ==
    [a \in ApproxCats |-> SumOver([k \in keys |-> approx[k][a]], keys)]

(* sound_approx_categories_fail_closed *)
SoundApprox(h, c) == Merged(c.approx, ChargedKeys(c.approx, h, c))

(* The count that disqualifies a proof: certified fresh havocs are clean. *)
SoundFallbacks(h, c) ==
    LET s == SoundApprox(h, c) IN s["unhandled"] + s["drop"]

-----------------------------------------------------------------------------
(* ctrex_classify.rs *)

Total(why) == why["havoc"] + why["unhandled"] + why["drop"]
              + why["gap"] + why["offset"] + why["forced"]

Category(label, why) == [label |-> label, why |-> why]
With(why, entry) == [x \in Cats |-> IF x \in ApproxCats THEN entry[x] ELSE why[x]]

FailClosed(h, c) == c.forced + Resolve(c.iter, h)

(* classify_ctrex *)
ClassifyCtrex(h, c) ==
    LET demoted == Demoting(h, c)
        forced  == [NoCats EXCEPT !["offset"] = demoted["offset"],
                                  !["forced"] = FailClosed(h, c)]
        own     == Merged(c.approx, LookupKeys(c.approx, h))
        freeing == With(demoted, own)
        residual == With(NoCats, SoundApprox(h, c))
    IN  IF demoted["gap"] > 0 THEN Category("EncodingGap", demoted)
        ELSE IF forced["forced"] > 0 THEN Category("EncodingGap", forced)
        ELSE IF Total(freeing) > 0 THEN Category("OverApproximation", freeing)
        ELSE IF Total(residual) > 0 THEN Category("OverApproximation", residual)
        ELSE Category("Genuine", NoCats)

-----------------------------------------------------------------------------
(* harness_runner.rs: recertification.  Evidence ev is the compiler's account
   of freed variables: found (the artifact has one), complete, accounted, and
   independent (some violated check is proved independent of all of them). *)

(* unhandled_calls double-labels another event of the same site *)
EffectiveTotal(why) == Total(why) - why["unhandled"]

(* Mutant: the completeness checksum is skipped. *)
CertifiableMutant(why, ev) == ev.complete /\ ev.independent
(* ctrex_certifiable_genuine *)
Certifiable(why, ev) ==
    /\ EffectiveTotal(why) > 0
    /\ ev.complete
    /\ ev.accounted = EffectiveTotal(why)
    /\ ev.independent

OffsetOnly(why) == why["offset"] > 0 /\ \A x \in Cats \ {"offset"} : why[x] = 0

(* recertify_overapprox_ctrex *)
Recertify(cat, ev) ==
    IF /\ \/ cat.label = "OverApproximation"
          \/ cat.label = "EncodingGap" /\ OffsetOnly(cat.why)
       /\ ev.found
       /\ Certifiable(cat.why, ev)
    THEN Category("Genuine", NoCats)
    ELSE cat

(* The driver charges to a harness what classify_ctrex looks up for it: its
   approximations are under the keys the exact lookup finds, or the lookup finds
   none and there is no offset either, so that the fail-closed residual decides.
   Not so when function-keyed entries stand beside the harness's own. *)
OneKeySpace(h, c) ==
    \/ LookupKeys(c.approx, h) = ChargedKeys(c.approx, h, c)
    \/ LookupKeys(c.approx, h) = {} /\ Demoting(h, c)["offset"] = 0

-----------------------------------------------------------------------------
(* is_effective_manual_success: a should_panic harness is verified by a
   counterexample that only panics, any other by a success. *)
Effective(status, shouldPanic, failed) ==
    IF shouldPanic THEN failed = "PanicsOnly" ELSE status = "Success"
=============================================================================
